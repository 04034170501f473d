\* PostgreSQL storage: any storage call may fail; the grace period may expire.
\* Fair scheduling, and therefore no symmetry.
CONSTANTS
  o1 = o1
  o2 = o2
  o3 = o3
  NoOrder = NoOrder
  Orders <- TwoOrders
  Prices <- TwoPrices
  Quantities <- TwoQtys
  ChanCap = 1
  DepthLevels = 1
  Failures <- AllFailures
  GraceExpires = TRUE
SPECIFICATION FairSpec
PROPERTIES ImplementsLedger AcceptedIsMatched StopDrains
