SPECIFICATION BridgeSpec
CONSTANTS
  STRB = 32
  LITESTRB = 4
  HDR = 23
  CONT = 32
  SLACK = 64
  TXMOD = 128
  RXMOD = 256
  MaxBursts = 3
  MaxBeats = 2
  MaxLite = 3
CHECK_DEADLOCK FALSE
INVARIANTS HeaderIsNeverData AnsweredMeansStored LandedIntact MisreadOnlyAfterLoss
