SPECIFICATION Spec
CONSTANTS
  Jobs = {j1}
  Runs = {r1, r2, r3}
  Clients = {c1}
  NoRun = NoRun
  Unhandled = {}
  Kinds = {"at", "recurring"}
  Ops = {"remove", "run"}
  Outcomes = {"ok", "transient", "permanent"}
  Faults = {"crash", "stop", "schedule"}
  MaxConcurrent = 1
  MaxCatchup = 1
  MaxErrors = 2
  MaxRetries = 1
  MaxBoots = 2
SYMMETRY RunSymmetry
INVARIANTS
  OneRunPerJob
  ReservationOwned
  FailuresBounded
