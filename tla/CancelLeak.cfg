SPECIFICATION Spec
CONSTANTS
  t1 = t1
  t2 = t2
  t3 = t3
  t4 = t4
  s1 = s1
  s2 = s2
  s3 = s3
  a1 = a1
  NoTask = NoTask
  Tasks = {t1}
  Sessions = {s1}
  Agents = {a1}
  SessionOf <- OneSession
  AgentOf <- OneAgent
  Kind <- AllDefault
  MaxConcurrency = 1
  SubagentReserved = 0
  MaxPending = 2
  Modes = {"followup"}
  Policies = {"reject_newest"}
  DefaultPolicy = "reject_newest"
  Steers = {}
  CancelSources = {"user"}
  Cancellable = {t1}
  RepeatCancel = FALSE
  Faults = {}
INVARIANTS
  StartedTasksFinish
