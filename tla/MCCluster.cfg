CONSTANTS
  Hosts = {h1, h2}
  JobIds = {j1, j2}
  Targets = {t1}
  MsgTypes = {m1}
  NoHost = NoHost
  NoTarget = NoTarget
  JobTimeout = 1
  BuildIdle = 1
  CompletionWindow = 2
  RateWindow = 2
  ThroughputSamples = 1
  TickGaps = {1}
  MaxSteps = 8
SPECIFICATION MCSpec
SYMMETRY Symmetry
INVARIANTS
  JobsAccounted
  ColumnWithinRate
  BuildsShareNoFile
CHECK_DEADLOCK FALSE
