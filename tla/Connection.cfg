SPECIFICATION Spec
CONSTANTS
  Capacity = 2
  MinDelay = 2
  MaxDelay = 3
  MaxShift = 2
  AttemptMax = 4
  DiscoverTimeout = 1
  HandshakeTimeout = 2
  Records = TRUE
  KernelProbes = TRUE
  SessionTags = 3
  MaxFrames = 2
INVARIANTS
  NoEventLost
  CaptureIsComplete
  WaitWithinCeiling
PROPERTIES
  KeepsThePromise
  AttemptTellsFlappingFromDown
  RetryIsHonouredOnce
