\* In-memory storage: three orders, every side, price and quantity.
CONSTANTS
  o1 = o1
  o2 = o2
  o3 = o3
  NoOrder = NoOrder
  Orders <- ThreeOrders
  Prices <- TwoPrices
  Quantities <- TwoQtys
  ChanCap = 2
  DepthLevels = 1
  Failures <- NoFailures
  GraceExpires = FALSE
SPECIFICATION Spec
SYMMETRY Symmetry3
INVARIANTS TypeOK NoOverfill RowsCatchUp RemainderRests NotCrossed DepthIsAccurate
PROPERTIES PriceTimePriority RowsMoveForward ImplementsLedger
