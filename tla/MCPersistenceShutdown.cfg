\* Graceful shutdown with ample buffers and a database that never fails.
CONSTANTS
  o1 = o1
  o2 = o2
  o3 = o3
  NoOrder = NoOrder
  Orders <- TwoOrders
  Prices <- OnePrice
  Quantities <- OneQty
  ChanCap = 2
  DepthLevels = 1
  Failures <- NoFailures
  GraceExpires = FALSE
  BusCap = 12
  QueueCap = 6
  BatchSize = 2
  RetryMax = 1
  DBFlaky = FALSE
  PriceFeed = "simulator"
  MaxTicks = 0
SPECIFICATION PSpec
INVARIANT ShutdownKeepsTrades
