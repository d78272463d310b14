SPECIFICATION LaunchSpec
CONSTANTS
  Backends = {"hw", "cosim", "mock"}
  NRegs = 3
  Shared = {1}
  MaxCta = 3
  MaxDrops = 2
  MaxUnderWay = 2
INVARIANTS DoneMeansThisCta NoSilentGarbageStart
PROPERTIES WaitReturns ImplementsCtaService
