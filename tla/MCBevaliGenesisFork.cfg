CONSTANTS
  Miners = {self, peer1, peer2}
  Targets = {1}
  TxIds = {t1, t2}
  ContractIds = {c1}
  Keys = {k1}
  Values = {0, 1}
  NoTx = NoTx
  Run <- MCCount
  NoState = NoState
  Raised = Raised
  Self = self
  Submissions <- MCOnePlain
  BatchSize = 1
  DisableChecks = {FALSE}
  InitTarget = 1
  NoThread = NoThread
  Bounds <- MCFourBlocks
  c1 = c1
  k1 = k1
  t1 = t1
  t2 = t2
  peer1 = peer1
  peer2 = peer2
SPECIFICATION Spec
INVARIANT ForkGetsAChain
