SPECIFICATION TradingSpec
CONSTANTS
  \* BinaryArb: two pairs, two attempts between them, with and without
  \* allow_concurrent; asks of one or two ticks, of which only one and one
  \* leave a profit.
  Pairs = {p1, p2}
  MaxAsk = 2
  MaxCost = 2
  MaxArbs = 2
  Concurrency = {TRUE, FALSE}
  \* LiveExec: two orders in flight, a connected user channel.
  LiveOrders = {l1, l2}
  UserChannel = TRUE
  StatusNamesOrder = FALSE
  \* Strategies: every strategy, sizes of none, one or two units, two orders in
  \* flight; the lowest print rounds to no price at all.
  Kinds <- AllKinds
  Window = 2
  HoldCap = 2
  Cooldown = 2
  MinSize = 1
  MaxSize = 2
  Prints = {4, 500}
  MaxQuote = 4
  MaxInv = 2
  MaxInFlight = 2
  MaxSlips = 2
  MaxUnfilled = 1
  \* HaltPath: two processes, two halts.
  Runners = {r1, r2}
  MaxHalts = 2
  \* Feed: two tokens, two price levels.
  Tokens = {t1, t2}
  Levels = {v1, v2}
  MaxSends = 2
  MaxTurns = 4
CHECK_DEADLOCK FALSE
INVARIANTS
  TradingTypeOK
  SurvivorExplained
  StuckIsNaked
  OneAttemptAtATime
  WorkingIsKnown
  EndedIsGone
  FillsMatch
  BeliefIsClose
  FadeOvershoot
  OldRunnersOnly
  HaltOutlivesCrash
  ScopeIsComplete
