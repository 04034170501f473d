\* Two trades of one order, nothing lost: torn copies and late events.
CONSTANTS
  o1 = o1
  o2 = o2
  o3 = o3
  NoOrder = NoOrder
  Orders <- ThreeOrders
  Prices <- OnePrice
  Quantities <- TwoQtys
  ChanCap = 2
  DepthLevels = 1
  Failures <- NoFailures
  GraceExpires = FALSE
  BusCap = 2
  QueueCap = 1
  BatchSize = 2
  RetryMax = 1
  DBFlaky = TRUE
  PriceFeed = "simulator"
  MaxTicks = 1
SPECIFICATION TwoFillsSpec
VIEW NoPort
SYMMETRY Symmetry23
INVARIANTS NoSendOnClosedBus QuietMeansStored
CONSTRAINT Lossless
