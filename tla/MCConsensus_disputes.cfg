SPECIFICATION Spec
CONSTANTS
  p1 = p1
  p2 = p2
  p3 = p3
  t1 = t1
  t2 = t2
  A = A
  B = B
  Peer = {p1, p2}
  Tx = {t1}
  TxSets <- FewSets
  Ledger = {A}
  LedgerInfo <- Ledgers
  CloseTimes = {100}
  RoundTimes = {6000}
  PeerSeqs = {1, 2}
  seqLeave <- Leave
  MaxSeq = 2
  MaxRecent = 1
  MaxPending = 1
  MaxReports = 2
SYMMETRY PeerSymmetry
INVARIANTS
  
  OwnSetExact
  EveryDifferenceDisputed
  AcceptedByConsensus
PROPERTIES
  AcceptedFrozen
  PeerPositionsAdvance
