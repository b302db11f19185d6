SPECIFICATION Spec
CONSTANTS
  p1 = p1
  p2 = p2
  p3 = p3
  t1 = t1
  t2 = t2
  A = A
  B = B
  Peer = {p1}
  Tx = {t1}
  TxSets <- FewSets
  Ledger = {A, B}
  LedgerInfo <- Ledgers
  CloseTimes = {100}
  RoundTimes = {6000}
  PeerSeqs = {0}
  seqLeave <- Leave
  MaxSeq = 2
  MaxRecent = 2
  MaxPending = 2
  MaxReports = 1
INVARIANTS
  WrongLedgerMeansMissing
