CONSTANTS
  N = 3
  MayFail = {}
  MaxRounds = 2
SPECIFICATION LiveSpec
CHECK_DEADLOCK FALSE
PROPERTY StopAlwaysReturns
