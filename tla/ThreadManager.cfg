CONSTANTS
  N = 3
  MayFail = {3}
  MaxRounds = 2
SPECIFICATION LiveSpec
\* The application need not start its threads again.
CHECK_DEADLOCK FALSE
INVARIANTS
  TypeOK
  StopMeansReturned
PROPERTIES
  StopReturns
