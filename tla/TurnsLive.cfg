SPECIFICATION FairSpec
CONSTANTS
  t1 = t1
  t2 = t2
  t3 = t3
  t4 = t4
  s1 = s1
  s2 = s2
  s3 = s3
  a1 = a1
  NoTask = NoTask
  Tasks = {t1, t2}
  Sessions = {s1}
  Agents = {a1}
  SessionOf <- OneSession
  AgentOf <- OneAgent
  Kind <- AllDefault
  MaxConcurrency = 1
  SubagentReserved = 0
  MaxPending = 1
  Modes = {"followup", "interrupt"}
  Policies = {"drop_oldest"}
  DefaultPolicy = "drop_oldest"
  Steers = {"x"}
  CancelSources = {"user"}
  Cancellable = {t1}
  RepeatCancel = TRUE
  Faults = {"emit"}
PROPERTIES
  NobodyWaitsForEver
  EveryTaskSettles
