\* One slug and one script at a time, the rolling evaluation among them.
SPECIFICATION LifeSpec
CONSTANTS
  N = 1
  Jobs = {j1}
  Cap = 1
  MaxBacktests = 1
  MayFail = {}
  HlSlugs = {}
  InitialStates = {"PROPOSED"}
  UserMoves <- Promotions
  AgentMoves = {}
CHECK_DEADLOCK FALSE
PROPERTY
  OnlyWatcherLeavesPaper
