SPECIFICATION ReadSpec
CONSTANTS
  STRB = 32
  LITESTRB = 4
  HDR = 23
  RHDR = 30
  CONT = 32
  SLACK = 64
  TXMOD = 128
  RXMOD = 256
  MaxReads = 3
  MaxReadBeats = 2
  MaxLiteReads = 2
CHECK_DEADLOCK FALSE
INVARIANTS ReadBytesInOrder NoHeaderBeforeDrained NoReadOverrun
PROPERTY ImplementsReadService
