SPECIFICATION FairSpec
CONSTANTS
  Intervals = {0, 1, 2}
  MaxCredits = 2
INVARIANTS
  NoLostWakeup
  AtMostOneOverrun
  CreditsAreTheAllowance
CHECK_DEADLOCK FALSE
PROPERTIES
  StepsAreHonoured
  ResumeReleases
