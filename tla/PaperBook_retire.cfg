\* Three signals over two days, the three last rows.
SPECIFICATION BookFairSpec
CONSTANTS
  Prices = {1, 3}
  Qtys = {1, 2}
  MaxSignals = 3
  MaxDay = 2
  RowLimit = 3
  WindowDays = 7
  DayLimit = 4
  RollingLimit = 6
CHECK_DEADLOCK FALSE
PROPERTY
  RetireIsEarned
