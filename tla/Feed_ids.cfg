\* Two tokens, two price levels.
SPECIFICATION FeedSpec
CONSTANTS
  Tokens = {t1, t2}
  Levels = {v1, v2}
  MaxSends = 2
  MaxTurns = 4
CHECK_DEADLOCK FALSE
INVARIANT PublishesToSubscribers
