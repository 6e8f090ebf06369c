SPECIFICATION FairSpec
CONSTANTS
  Pages = {p1}
  Terminals = {u1}
  Window = 2
  QueueSize = 4
  Faults = {"drop","slow","user","hydrate","restart"}
  MaxClients = 1
  MaxSeq = 4
  MaxLate = 1
  MaxGen = 2
CHECK_DEADLOCK FALSE
INVARIANTS
  TypeOK
  ReplayHonest
  NothingMissed
  InOrderOnce
  PageSkipsOnlyLate
  AttemptsBounded
PROPERTY
  EveryoneCatchesUp
