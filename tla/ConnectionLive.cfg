SPECIFICATION FairSpec
CONSTANTS
  Capacity = 1
  MinDelay = 2
  MaxDelay = 3
  MaxShift = 2
  AttemptMax = 4
  DiscoverTimeout = 1
  HandshakeTimeout = 1
  Records = FALSE
  KernelProbes = TRUE
  SessionTags = 2
  MaxFrames = 1
PROPERTIES
  EveryAttemptEnds
  SeveredIsNoticed
  QuitStopsTheTask
  Reconnects
