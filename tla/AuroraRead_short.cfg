SPECIFICATION ReadSpec
CONSTANTS
  STRB = 16
  LITESTRB = 4
  HDR = 23
  RHDR = 30
  CONT = 32
  SLACK = 64
  TXMOD = 64
  RXMOD = 128
  MaxReads = 1
  MaxReadBeats = 1
  MaxLiteReads = 0
INVARIANT LastBeatHasRlast
