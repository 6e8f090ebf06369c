SPECIFICATION Spec
CONSTANTS
  t1 = t1
  t2 = t2
  t3 = t3
  t4 = t4
  s1 = s1
  s2 = s2
  s3 = s3
  a1 = a1
  NoTask = NoTask
  Tasks = {t1, t2, t3, t4}
  Sessions = {s1, s2}
  Agents = {a1}
  SessionOf <- TwoSessions
  AgentOf <- OneAgent
  Kind <- TwoSubagents
  MaxConcurrency = 2
  SubagentReserved = 1
  MaxPending = 1
  Modes = {"followup"}
  Policies = {"drop_oldest"}
  DefaultPolicy = "reject_newest"
  Steers = {"x"}
  CancelSources = {}
  Cancellable = {t1, t2, t3, t4}
  RepeatCancel = FALSE
  Faults = {}
INVARIANTS
  EvictsOnlyWaiting
  QueueBound
  SubagentHeadroom
  NoLostWakeup
