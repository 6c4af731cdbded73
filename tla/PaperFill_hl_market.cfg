\* Hyperliquid paper node: market orders with IOC.
SPECIFICATION Spec
CONSTANTS
  Orders = {o1, o2}
  i1 = i1
  i2 = i2
  Instruments = {i1}
  PreRegistered = {i1}
  MaxPrice = 3
  OrderSpecs <- HlMarket
  IocMaxBookUpdates = 1
  FeedClears = FALSE
  MaxLost = 0
  NoSpec = NoSpec
CHECK_DEADLOCK FALSE
INVARIANT
  IocResolved
