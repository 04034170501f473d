\* Two instances; one is shut down while the other forwards it an order.
CONSTANTS
  Total = 2
  Stocks <- OneStock
  Hash <- Hash1
  ChanCap = 1
  MaxPlaced = 1
  MaxFaults = 1
SPECIFICATION ClusterSpec
INVARIANT ShutsDownCleanly
