SPECIFICATION FairSpec
CONSTANTS
  Component = {"a", "b"}
  Instance = {"a1", "a2", "a3", "b1"}
  CompOf <- MCCompOf
  Payload = {"x", "y"}
  NoPayload = NoPayload
  NoEvent = NoEvent
  Marker = Marker
  NoComponent = NoComponent
  Reply <- MCReply
  Boot <- MCBoot
  Valid <- MCValid
  Speaks <- MCSpeaks
  MayCancel = {"a1"}
  SequencerStops = FALSE
  Faulty = {"a3"}
  Corrupt = {}
  Turns = 3
PROPERTIES
  EveryReaderCatchesUp
  RunsToTheEnd
CHECK_DEADLOCK FALSE
