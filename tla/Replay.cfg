SPECIFICATION FairSpec
CONSTANTS
  None = None
  Versions = {20, 28, 38, 50}
  Messages <- MCMessages
  MaxFrames = 2
  MaxSessions = 2
  Cuts = {11, 17}
  Capacity = 1
INVARIANTS
  HeardAsSaid
  ReplayTellsTheSession
PROPERTIES
  ReplayKeepsThePromise
  ReplayEnds
