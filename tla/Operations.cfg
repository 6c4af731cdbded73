SPECIFICATION OperationsSpec
CONSTANTS
  \* PaperOps: two slugs, the older one's name a prefix of the other's, runners
  \* that end as often as they will, two other faults, the kill flag set once.
  a = a
  b = b
  PaperSlugs <- TwoSlugs
  SlugPrefixes <- Namesakes
  MaxFaults = 2
  MaxFlags = 1
  NoSlug = NoSlug
  \* Lifecycle: two slugs in the queues and one script at a time; the backtests
  \* of the newer slug may fail.
  N = 2
  Jobs = {j1}
  Cap = 1
  MaxBacktests = 1
  MayFail = {2}
  HlSlugs = {1}
  InitialStates = {"PROPOSED", "BACKTEST"}
  UserMoves <- Promotions
  AgentMoves <- Attempts
CHECK_DEADLOCK FALSE
INVARIANTS
  AuditorStartsOne
PROPERTIES
  MissingComesBack
  QueueDrains
