SPECIFICATION BringupSpec
CONSTANTS
  Width = 5
  Names <- MCNames
  Boards <- MCBoards
  MaxTools = 3
  MaxDrops = 1
  Rounds = 2
CHECK_DEADLOCK FALSE
INVARIANTS VerdictNamesTheFault IntermittentIsReal DeadPathNeverPasses CleanAfterPass
