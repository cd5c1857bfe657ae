SPECIFICATION RehearsalSpec
CONSTANTS
  Nil = Nil
  AllStrategies <- MCStrategies
  Draw <- MCDraw
  MaxGames = 3
  Candidates = {"flipper", "retaliator", "copy-leader", "cooperator"}
  Defects <- MCDefects
INVARIANTS
  SoundPlayersPass
  DefectsCaught
CHECK_DEADLOCK FALSE
