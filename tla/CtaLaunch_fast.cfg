SPECIFICATION LaunchSpec
CONSTANTS
  Backends = {"hw"}
  NRegs = 2
  Shared = {1}
  MaxCta = 2
  MaxDrops = 0
  MaxUnderWay = 2
INVARIANT NeverDroppedIsTrue
