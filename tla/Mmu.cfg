SPECIFICATION MmuFairSpec
CONSTANTS
  M = 4
  N = 2
  K = 3
  Nothing = Nothing
  Banks = 2
  MaxStarts = 4
INVARIANTS LoadedBeforeCompute CapturesWhatWasDriven DoneMeansStored
PROPERTY KernelCompletes
