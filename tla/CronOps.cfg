SPECIFICATION Spec
CONSTANTS
  Jobs = {j1}
  Runs = {r1, r2}
  Clients = {c1}
  NoRun = NoRun
  Unhandled = {}
  Kinds = {"at", "recurring"}
  Ops = {"pause", "resume", "update"}
  Outcomes = {"ok", "transient"}
  Faults = {"crash"}
  MaxConcurrent = 1
  MaxCatchup = 1
  MaxErrors = 1
  MaxRetries = 1
  MaxBoots = 2
SYMMETRY RunSymmetry
INVARIANTS
  TypeOK
PROPERTIES
  RestartHeals
