SPECIFICATION DuplexSpec
CONSTANTS
  STRB = 32
  LITESTRB = 4
  HDR = 23
  RHDR = 30
  CONT = 32
  SLACK = 64
  TXMOD = 128
  RXMOD = 256
  MaxBursts = 2
  MaxBeats = 2
  MaxReads = 2
  MaxReadBeats = 2
  MaxLiteReads = 0
INVARIANT EachFlitHasOneTaker
PROPERTIES ImplementsService BothDirectionsComplete
