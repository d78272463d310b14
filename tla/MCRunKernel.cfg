SPECIFICATION KernelSpec
CONSTANTS
  Backends = {"hw", "cosim", "mock"}
  Vectors <- MCVectors
  Sweeps <- MCSweeps
  LineWords = 2
  RegionWords = 4
  BeatWords = 2
  EchoTop = 2
  Garbage = {9}
  WrongData = 2
  MaxFaults = 2
INVARIANTS PassMeansStored RunsOnItsImages DiagnosisIsTrue
INVARIANTS ReportShowsEveryFailure OverridesDoNotLeak
PROPERTIES NoPassOutOfStep MainEnds
