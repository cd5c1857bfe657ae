SPECIFICATION RehearsalSpec
CONSTANTS
  Nil = Nil
  AllStrategies <- MCStrategies
  Draw <- MCDraw
  MaxGames = 3
  Candidates = {"game-injector", "flipper"}
  Defects <- MCDefects
INVARIANTS
  SoundReplicasRejoin
CHECK_DEADLOCK FALSE
