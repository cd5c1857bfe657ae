SPECIFICATION FairSpec
CONSTANTS
  Slot = {"track", "flip1"}
  Restartable = {"flip1"}
  Operator = {"op1", "op2"}
  Referenced = TRUE
  Shutdown = Shutdown
  Nobody = Nobody
  MaxCalls = 2
INVARIANTS
  OneInstancePerSlot
  SlotTellsTheTruth
  ReadsAreJoined
  ResultIsFinal
PROPERTIES
  ShutdownEnds
  CallsReturn
CHECK_DEADLOCK FALSE
