SPECIFICATION MmuSpec
CONSTANTS
  M = 4
  N = 3
  K = 3
  Nothing = Nothing
  Banks = 2
  MaxStarts = 1
INVARIANT LatchesItsRow
