CONSTANTS
  a = a
  b = b
  d = d
  Nodes = {a, b, d}
  Setups <- MCLeaving
  NoNode = NoNode
  NoSocket = NoSocket
SPECIFICATION LiveSpec
PROPERTY BadSocketsRemoved
CHECK_DEADLOCK FALSE
