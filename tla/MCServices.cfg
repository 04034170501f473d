\* Simulator: two orders with up to two trades against one tick; a trade channel
\*   of one and a bus of three overflow, and Redis may fail.
\* Binance feed: a 16-bit Duration; attempt runs through all its powers of two.
\* Cluster: three instances, one stock, two orders, one fault.
\* Accounts: three registrations of one name on two servers, two restarts.
\* Rate limiter: two requests at a time from two addresses; five time units, in
\*   which an entry is evicted and made again.
\* Lists: three orders, pages of one, two and three, ints of five bits.
CONSTANTS
  BasePrice <- TLKMBase
  TickSize <- TLKMTick
  TradePrices <- HighPrice
  TradeQtys <- Lots
  TickVolumes <- TickVolume
  TradeChanCap = 1
  BusCap = 3
  RedisFails = TRUE
  MaxOrders = 2
  MaxTrades = 2
  MaxTicks = 1
  Width = 16
  Second = 1000
  MaxBackoff = 30000
  Prices <- OnePrice
  Total = 3
  Stocks <- OneStock
  Hash <- Hash4
  ChanCap = 1
  MaxPlaced = 2
  MaxFaults = 1
  v1 = v1
  v2 = v2
  r1 = r1
  r2 = r2
  r3 = r3
  Servers <- TwoServers
  Names <- OneName
  Registrations <- ThreeRegistrations
  NoUser = NoUser
  MaxRestarts = 2
  proxy = proxy
  ann = ann
  h1 = h1
  h2 = h2
  Peers <- OnePeer
  TrustedPeers <- OnePeer
  Forwarded <- OneClient
  NoAddress = NoAddress
  Handlers <- TwoHandlers
  Rate = 1
  Burst = 2
  CleanupInterval = 2
  IdleTTL = 3
  Stall = 1
  MaxClock = 5
  Rows <- ThreeRows
  IntLimit = 16
  PageParams <- PageNumbers
  PerPageParams <- PerPages
  DefaultPerPage = 2
  MaxPerPage = 3
SPECIFICATION ServicesSpec
INVARIANTS
  ServicesTypeOK
  TickersCoherent QuietTickerIsSession BookCacheCatchesUp
  StopsOnlyWhenCancelled
  OneBookPerStock OrdersAccountedFor SnapshotsInOrder
  OneUserPerName RegistrationHolds
  WithinLimit IdleAreForgotten
  PagesTile WalkMissesNone
PROPERTIES BackoffGrows
