SPECIFICATION Spec
CONSTANTS
  Jobs = {j1}
  Runs = {r1, r2}
  Clients = {c1}
  NoRun = NoRun
  Unhandled = {}
  Kinds = {"at", "recurring"}
  Ops = {"remove"}
  Outcomes = {"ok"}
  Faults = {}
  MaxConcurrent = 1
  MaxCatchup = 1
  MaxErrors = 2
  MaxRetries = 1
  MaxBoots = 1
SYMMETRY RunSymmetry
PROPERTIES
  DeletedForGood
