SPECIFICATION FairSpec
CONSTANTS
  Approvals = {a1, a2}
  Resolvers = {r1, r2}
  Waiters = {w1, w2}
  Kinds = {{a1}, {a1, a2}}
  Faults = {"fail", "authority", "cancel", "stall", "restart", "session"}
  MaxExtends = 1
  MaxBoots = 1
  NoOne = NoOne
CHECK_DEADLOCK FALSE
INVARIANTS
  TypeOK
  OneApplier
  ApprovedIsApplied
PROPERTIES
  DecidedOnce
  WaitsEnd
