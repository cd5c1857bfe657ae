SPECIFICATION Spec
CONSTANTS
  Component = {"a", "b"}
  Instance = {"a1", "a2", "b1", "b2"}
  CompOf <- MCCompOf
  Payload = {"x", "y"}
  NoPayload = NoPayload
  NoEvent = NoEvent
  Marker = Marker
  NoComponent = NoComponent
  Reply <- MCReply
  Boot <- MCBoot
  Valid <- MCValid
  Speaks <- MCSpeaks
  MayCancel = {"a1"}
  SequencerStops = TRUE
  Faulty = {"b1"}
  Corrupt = {"b2"}
  Turns = 3
INVARIANTS
  SendNeverPanics
  ExactlyOnceInOrder
  SlotsConsecutive
  NoGaps
  WinnerSurvives
  StallsOnlyUnserved
PROPERTIES
  ImplementsTurnLog
CHECK_DEADLOCK FALSE
