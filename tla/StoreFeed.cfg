SPECIFICATION Spec
CONSTANTS
  Nil = Nil
  Players = {"flipper", "retaliator", "copy-leader"}
  Bugs <- MCBugs
  Games = 2
INVARIANTS
  ChainTellsApart
  WatermarkIsDormant
  BoardIsTheSum
CHECK_DEADLOCK FALSE
