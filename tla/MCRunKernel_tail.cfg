SPECIFICATION KernelSpec
CONSTANTS
  Backends = {"hw"}
  Vectors <- MCVectors
  Sweeps <- TailSweeps
  LineWords = 2
  RegionWords = 4
  BeatWords = 2
  EchoTop = 2
  Garbage = {0}
  WrongData = 2
  MaxFaults = 0
INVARIANT TailReadsZero
