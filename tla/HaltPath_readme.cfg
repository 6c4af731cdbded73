\* One process, one halt.
SPECIFICATION HaltFairSpec
CONSTANTS
  Runners = {r1}
  MaxHalts = 1
PROPERTIES HaltStopsRunners
CHECK_DEADLOCK FALSE
