SPECIFICATION FairSpec
CONSTANTS
  Session = {s1, s2, s3}
  Stuck = {s1}
  MaxSessions = 2
  Bounded = TRUE
  Deleter = {d}
  Reclaimer = Reclaimer
  Exit = Exit
  None = None
INVARIANTS
  ReservationsAddUp
  CapHolds
  NothingRunsUnseen
PROPERTIES
  WatchedStays
  IdleIsReclaimed
CHECK_DEADLOCK FALSE
