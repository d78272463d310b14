SPECIFICATION Spec
CONSTANTS
  STRB = 64
  LITESTRB = 4
  HDR = 21
  CONT = 32
  SLACK = 64
  TXMOD = 128
  RXMOD = 256
  MaxBursts = 1
  MaxBeats = 2
INVARIANT PushOnlyIntoRoom
