SPECIFICATION Spec
CONSTANTS
  Nil = Nil
  AllStrategies <- MCStrategies
  Draw <- MCDraw
  MaxGames = 2
  Instance = {"inj1", "inj2", "flip1", "copy1"}
  CompOf <- MCCompOf
  Flaws <- MCFlaws
  BugFrom <- MCBugFrom
  Flawed = {}
  Flaws1 = {}
  Corrupt = {"inj2"}
  CorruptFrom = 0
  Referenced = TRUE
  MayCancel = {"inj1"}
  SequencerStops = TRUE
  NoPayload = NoPayload
  NoEvent = NoEvent
  Marker = Marker
INVARIANTS
  HandlersTakeTurns
  SoundStaysInService
PROPERTIES
  ImplementsSolo
  LiveOnlyIfCanonical
CHECK_DEADLOCK FALSE
