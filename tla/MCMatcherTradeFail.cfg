\* PostgreSQL storage: tradeRepo.Save may fail.
CONSTANTS
  o1 = o1
  o2 = o2
  o3 = o3
  NoOrder = NoOrder
  Orders <- ThreeOrders
  Prices <- OnePrice
  Quantities <- TwoQtys
  ChanCap = 2
  DepthLevels = 1
  Failures <- TradeFailures
  GraceExpires = FALSE
SPECIFICATION Spec
SYMMETRY Symmetry3
INVARIANT RemainderRests
