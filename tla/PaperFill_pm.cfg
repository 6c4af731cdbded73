\* Polymarket paper node: two orders of three kinds on one instrument, which
\* is subscribed when its first order registers, at two price levels; an
\* IOC order may wait for two book updates; one closing event cannot be made.
SPECIFICATION FairSpec
CONSTANTS
  Orders = {o1, o2}
  i1 = i1
  i2 = i2
  Instruments = {i1}
  PreRegistered = {}
  MaxPrice = 2
  OrderSpecs <- PmSpecs
  IocMaxBookUpdates = 2
  FeedClears = TRUE
  MaxLost = 1
  NoSpec = NoSpec
CHECK_DEADLOCK FALSE
INVARIANTS
  TypeOK
  PendingIsAccepted
  NoMarketablePending
  IocResolved
PROPERTIES
  FillsAtTheBook
  ImplementsOrderLife
  IocEventuallyClosed
