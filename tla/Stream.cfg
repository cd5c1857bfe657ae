SPECIFICATION FairSpec
CONSTANTS
  Tournament = {t1, t2}
  Own = t1
  Games = 2
  MaxRetries = 2
  MaxBreaks = 2
  MaxRestarts = 1
  NoStream = NoStream
  NoSession = NoSession
INVARIANTS
  FoldIsPrefix
  NoSpoiler
PROPERTIES
  PageComesToRest
CHECK_DEADLOCK FALSE
