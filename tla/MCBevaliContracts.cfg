CONSTANTS
  Miners = {self, peer1}
  Targets = {1, 2}
  TxIds = {t1, t2}
  ContractIds = {c1}
  Keys = {k1}
  Values = {0, 1}
  NoTx = NoTx
  Run <- MCCount
  NoState = NoState
  Raised = Raised
  Self = self
  Submissions <- MCCounter
  BatchSize = 1
  DisableChecks = {TRUE, FALSE}
  InitTarget = 1
  NoThread = NoThread
  Bounds <- MCTwoBlocks
  c1 = c1
  k1 = k1
  t1 = t1
  t2 = t2
  peer1 = peer1
  peer2 = peer2
SPECIFICATION Spec
INVARIANTS
  BroadcastAtHead
PROPERTIES
  ValidWhereItJoins
