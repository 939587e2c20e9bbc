CONSTANTS
  a = a
  b = b
  d = d
  Nodes = {a, b, d}
  Setups <- MCSetups
  NoNode = NoNode
  NoSocket = NoSocket
SPECIFICATION LiveSpec
INVARIANTS
  TypeOK
  SocketsMatch
  DeafOnlyIfCrossed
PROPERTIES
  KeepsPromise
  HeardBothWays
  ForgetsTheDead
  Delivered
CHECK_DEADLOCK FALSE
