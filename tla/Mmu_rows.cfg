SPECIFICATION MmuSpec
CONSTANTS
  M = 4
  N = 2
  K = 2
  Nothing = Nothing
  Banks = 2
  MaxStarts = 1
INVARIANT RowsMeetTheirData
