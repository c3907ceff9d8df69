SPECIFICATION Spec
CONSTANTS
  Gap = Gap
  TrendMin = 6
  MinDelta = 120
  Sizes = {0, 1}
  Unsaid = Unsaid
  MaxActive = 2
  Outputs = {0, 3}
  Times = {1}
  ThroughputSamples = 2
  ThroughputMin = 2
  NoRate = NoRate
  Speeds = {0, 1, 2, 3, 5}
  Platforms = {"x86", "arm"}
  Group = {1, 2, 3, 4}
  HistorySize = 6
  Widths = {1, 2, 3, 4, 5, 7, 9}
INVARIANTS
  CapacityIsLastWord
  SpeedIsMeasured
  AxisIsTime
  SparklineCoversHistory
