SPECIFICATION Spec
CONSTANTS
  t1 = t1
  t2 = t2
  t3 = t3
  t4 = t4
  s1 = s1
  s2 = s2
  s3 = s3
  a1 = a1
  NoTask = NoTask
  Tasks = {t1, t2}
  Sessions = {s1}
  Agents = {a1}
  SessionOf <- OneSession
  AgentOf <- OneAgent
  Kind <- AllDefault
  MaxConcurrency = 1
  SubagentReserved = 0
  MaxPending = 2
  Modes = {"followup", "interrupt"}
  Policies = {"reject_newest"}
  DefaultPolicy = "reject_newest"
  Steers = {"x"}
  CancelSources = {"user", "system"}
  Cancellable = {t1, t2}
  RepeatCancel = TRUE
  Faults = {"create", "mark", "turn", "terminal", "steer", "emit"}
SYMMETRY TaskSymmetry
INVARIANTS
  TypeOK
  TurnOwnsSession
  SlotAccounting
  SteersResolved
  SettlementUninterrupted
PROPERTIES
  SettledForGood
  StartsInOrder
