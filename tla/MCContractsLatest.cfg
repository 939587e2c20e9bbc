CONSTANTS
  Miners = {self, rival}
  Targets = {0}
  TxIds = {t0, t1, t2, t3}
  ContractIds = {c1}
  Keys = {k1, k2}
  Values = {0, 1}
  NoTx = NoTx
  Run <- MCRun
  NoState = NoState
  Raised = Raised
  c1 = c1
  k1 = k1
  k2 = k2
  t0 = t0
  t1 = t1
  t2 = t2
  t3 = t3
  Submissions <- MCSubmissions
  Self = self
  Rival = rival
  Target = 0
  BatchSize = 2
  MaxLen = 4
SPECIFICATION Spec
CHECK_DEADLOCK FALSE
INVARIANT StateIsLatest
