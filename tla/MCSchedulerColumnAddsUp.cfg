CONSTANTS
  Hosts = {h1, h2}
  JobIds = {j1, j2}
  Targets = {t1}
  MsgTypes = {}
  NoHost = NoHost
  NoTarget = NoTarget
  JobTimeout = 1
  BuildIdle = 1
  CompletionWindow = 1
  RateWindow = 1
  ThroughputSamples = 1
  TickGaps = {1}
  MaxRestarts = 1
SPECIFICATION WorldSpec
INVARIANTS
  ColumnAddsUp
