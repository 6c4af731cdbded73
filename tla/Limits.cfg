SPECIFICATION LimitsSpec
CONSTANTS
  \* CapGate: two instruments, three orders of one or two units, two of them
  \* open at once, under a cap of two units or an equity never read.
  Orders = {o1, o2, o3}
  i1 = i1
  i2 = i2
  Instruments = {i1, i2}
  Caps = {0, 2}
  MaxQty = 2
  MaxOpen = 2
  ReadsMayFail = TRUE
  OrderShapes <- AnyShape
  NoShape = NoShape
  \* Lifecycle: one slug, two scripts at a time, two backtests a day, jobs of
  \* up to two.
  N = 1
  Jobs = {j1, j2}
  Cap = 2
  MaxBacktests = 2
  MayFail = {1}
  HlSlugs = {}
  InitialStates = {"PROPOSED", "BACKTEST"}
  UserMoves <- Promotions
  AgentMoves <- Attempts
SYMMETRY Symmetry
CHECK_DEADLOCK FALSE
INVARIANTS
  CapHoldsUnlessOutrun
  OvershootBounded
  NoResumeUnreviewed
  BudgetBounded
