SPECIFICATION FairSpec
CONSTANTS
  Jobs = {j1, j2}
  Runs = {r1, r2, r3}
  Clients = {c1}
  NoRun = NoRun
  Unhandled = {j2}
  Kinds = {"recurring"}
  Ops = {}
  Outcomes = {"ok"}
  Faults = {"crash"}
  MaxConcurrent = 1
  MaxCatchup = 2
  MaxErrors = 1
  MaxRetries = 1
  MaxBoots = 2
INVARIANTS
  ConcurrencyBound
PROPERTIES
  NoJobStuck
