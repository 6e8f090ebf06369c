SPECIFICATION FairSpec
CONSTANTS
  Gateways = {g1, g2}
  Events = {e1}
  Adapter = "enqueue"
  Faults = {"crash", "stall", "journal", "raise", "start"}
  MaxErrors = 1
  MaxPassed = 1
  MaxQueue = 1
  MaxCrashes = 1
  NoOne = NoOne
INVARIANTS
  TypeOK
  OneTurnPerEvent
  MarkersQueued
PROPERTIES
  CompletedIsFinal
  CompletedOnce
  RestartAdopts
  QueuedIsDispatched
  FencedStops
