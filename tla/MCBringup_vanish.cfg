SPECIFICATION BringupSpec
CONSTANTS
  Width = 5
  Names <- MCNames
  Boards <- VanishingBoards
  MaxTools = 1
  MaxDrops = 0
  Rounds = 2
CHECK_DEADLOCK FALSE
INVARIANT VanishedWritesAreHard
