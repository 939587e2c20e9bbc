CONSTANTS
  Nodes = {a, b, d}
  Setups <- MCSetups
  NoLetter = NoLetter
  a = a
  b = b
  d = d
SPECIFICATION LiveSpec
INVARIANTS
  TypeOK
  AnswerIsHere
PROPERTIES
  CallReturns
  SameChain
CHECK_DEADLOCK FALSE
