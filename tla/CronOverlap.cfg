SPECIFICATION Spec
CONSTANTS
  Jobs = {j1}
  Runs = {r1, r2}
  Clients = {c1}
  NoRun = NoRun
  Unhandled = {}
  Kinds = {"at", "recurring"}
  Ops = {"update"}
  Outcomes = {"ok"}
  Faults = {}
  MaxConcurrent = 2
  MaxCatchup = 1
  MaxErrors = 2
  MaxRetries = 1
  MaxBoots = 1
SYMMETRY RunSymmetry
INVARIANTS
  OneRunPerJob
