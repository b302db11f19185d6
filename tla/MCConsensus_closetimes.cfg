SPECIFICATION Spec
CONSTANTS
  p1 = p1
  p2 = p2
  p3 = p3
  t1 = t1
  t2 = t2
  A = A
  B = B
  Peer = {p1, p2}
  Tx = {t1}
  TxSets <- OneSet
  Ledger = {A}
  LedgerInfo <- Ledgers
  CloseTimes = {100, 115, 135}
  RoundTimes = {1000, 6000}
  PeerSeqs = {1}
  seqLeave <- Leave
  MaxSeq = 2
  MaxRecent = 1
  MaxPending = 1
  MaxReports = 2
SYMMETRY PeerSymmetry
INVARIANTS
  AcceptedCloseTimeAgreed
