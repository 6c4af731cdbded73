SPECIFICATION ResearchSpec
CONSTANTS
  \* Backtest: a market without a token and one that runs, up to three fills of
  \* one or two lots.
  MarketIds <- TwoMarkets
  Untokened = {"m1"}
  One = 5
  TickPrices = {1, 3}
  Lots = {1, 2}
  MaxFills = 3
  \* HlBacktest: two coins, three slots, a bar every second one.
  Coins <- TwoCoins
  Slots = 3
  Grid = 2
  HlPrices = {1, 2}
  MaxMoves = 3
  \* Ingest: five trades, pages of two, offsets past three refused.
  PageSize = 2
  OffsetWall = 3
  Inclusive = FALSE
  MaxTime = 3
  MaxTrades = 5
  \* HlHistory: bars of two in a window of five, slices of four, pages of two
  \* rows; a second walk over what the first stored.
  Period = 2
  Span = 4
  PageRows = 2
  Attempts = 2
  Horizon = 5
  MaxWalks = 2
  \* Optimize: two points, two windows, two folds.
  Points = {p1, p2}
  Windows = 2
  TopK = 1
  Floor = 30
  Sample = 100
  Outcomes <- Mixed
  Folds = 2
  Embargo = 1
  MinTrain = 2
  MinTest = 2
  FoldTrades = 10
  MaxSpan = 8
  \* CronCommit: the four jobs that commit, over paths they share; a capture
  \* drops its file into the inbox only, the summary finds none of its own.
  Captures = {}
  Inbox = {f2}
  Hypotheses = {f3}
  Outputs = {f4}
  Reports = {}
  \* Intake: two sources, two scripts, one thing that goes wrong or one overlap
  \* of scripts, and two flat files of the old layout.
  s1 = s1
  s2 = s2
  a = a
  b = b
  Sources = {s1, s2}
  Names = {a, b}
  CaptureSlug <- OwnSlugs
  MaxPerRun = 1
  MaxOdd = 1
  Scripts = {1, 2}
  Legacy <- LegacyFiles
  FileUrls = {s1, NoSource}
  NoSource = NoSource
  NoName = NoName
  NoRow = NoRow
  NoHyp = NoHyp
  NoFlat = NoFlat
  \* PaperBook: four signals over two days, the two last rows.
  Prices = {1, 3}
  Qtys = {1, 2}
  MaxSignals = 4
  MaxDay = 2
  RowLimit = 2
  WindowDays = 7
  DayLimit = 4
  RollingLimit = 6
CHECK_DEADLOCK FALSE
INVARIANTS
  ResearchTypeOK
  SeriesIsTerminal
  CoinsAddUp
  TradesComplete
  WalkComplete
  ReadyRanEverywhere
  SpecReadyHasSpec
  ReportedIsCash
  HaltIsEarned
PROPERTIES
  SuccessIsCommitted
  DiscoveredIsRegistered
  RefsKept
  ReadyIsDiscovered
  LossIsHalted
