\* Shutdown: one order, a flaky database.
\* Hub: two connections from two addresses, of which it takes one at a time.
\* Cluster: two instances, one stock, two orders, one fault.
\* Binance feed: a 6-bit Duration.
CONSTANTS
  o1 = o1
  NoOrder = NoOrder
  Orders <- OneOrder
  Prices <- OnePrice
  Quantities <- OneQty
  ChanCap = 1
  DepthLevels = 1
  Failures <- NoFailures
  GraceExpires = FALSE
  BusCap = 2
  QueueCap = 1
  BatchSize = 2
  RetryMax = 1
  DBFlaky = TRUE
  PriceFeed = "simulator"
  MaxTicks = 0
  c1 = c1
  c2 = c2
  ip1 = ip1
  ip2 = ip2
  Clients <- TwoClients
  IPs <- TwoIPs
  IPOf <- OwnIP
  Topics <- OneTopic
  MaxTotal = 1
  MaxPerIP = 1
  MaxSubs = 1
  ControlCap = 1
  MessageCap = 1
  SendCap = 1
  Total = 2
  Stocks <- OneStock
  Hash <- Hash1
  MaxPlaced = 2
  MaxFaults = 1
  Width = 6
  Second = 4
  MaxBackoff = 20
SPECIFICATION LivenessSpec
PROPERTIES StopsWhenTold DroppedClientEnds OrderReachesEveryone
\* After ctx.Done nobody serves the channels: the hub's world may stop.
CHECK_DEADLOCK FALSE
