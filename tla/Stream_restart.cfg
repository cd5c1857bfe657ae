SPECIFICATION Spec
CONSTANTS
  Tournament = {t1, t2}
  Own = t1
  Games = 1
  MaxRetries = 2
  MaxBreaks = 0
  MaxRestarts = 1
  NoStream = NoStream
  NoSession = NoSession
INVARIANTS
  ServedOwnSession
CHECK_DEADLOCK FALSE
