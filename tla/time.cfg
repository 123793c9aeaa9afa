SPECIFICATION MCSpec
CONSTANTS
  OneShot = {"op_delay"}
  Periodic = {"stamp", "index"}
  Period <- MCPeriod
  Delays <- MCDelays
  Slack = 2
  FineLimit = 6
  Unit = 2
  Margin = 2
  Half = 32
  Lag = 1
  MaxLatency = 2
  Low = 16
  High = 3
  UpdatePeriod = 8
  Early = 1
  UpdateLate = 1
  MaxRead = 2
  Rev = 24
  Sectors <- ThreeSectors
  IndexHole = 20
  Latency = 1
  Mask = 2
  Thresh = 6
  IndexPeriod = 10
  IndexLate = 1
  MaxRun = 1
  Wrap = 24
  StartUp = 4
  Width = 13
  Gap = 4
  MinFlux = 2
  MaxLoop = 4
  Ring = 6
INVARIANTS Sorted HeadCovered TrueTime StampFresh TriggerAgeBounded AgeTrue HardIndexTrue FluxTrue IndexTrue
PROPERTY MeetsDeadlines
