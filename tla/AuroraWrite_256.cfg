SPECIFICATION FairSpec
CONSTANTS
  STRB = 32
  LITESTRB = 4
  HDR = 23
  CONT = 32
  SLACK = 64
  TXMOD = 128
  RXMOD = 256
  MaxBursts = 3
  MaxBeats = 4
INVARIANTS TypeOK NoFlitIgnored BytesInOrder NoRxOverrun
PROPERTIES ImplementsService EveryBurstAnswered
