\* Small buffers, a flaky database, handlers that may outlive the grace period.
CONSTANTS
  o1 = o1
  o2 = o2
  o3 = o3
  NoOrder = NoOrder
  Orders <- TwoOrders
  Prices <- OnePrice
  Quantities <- OneQty
  ChanCap = 2
  DepthLevels = 1
  Failures <- NoFailures
  GraceExpires = TRUE
  BusCap = 1
  QueueCap = 1
  BatchSize = 2
  RetryMax = 1
  DBFlaky = TRUE
  PriceFeed = "none"
  MaxTicks = 0
SPECIFICATION PSpec
VIEW NoPort
SYMMETRY Symmetry2
INVARIANTS PTypeOK DBNeverAhead EnqueuedWritesLand RetryIsHarmless
