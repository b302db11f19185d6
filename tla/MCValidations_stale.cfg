SPECIFICATION Spec
CONSTANTS
    L1 = L1
    L2 = L2
    M2 = M2
    NodeID = {n1}
    Ledger = {L1, L2}
    LedgerSeq <- Seqs
    NoLedger = NoLedger
    NoValidation = NoValidation
    validationCURRENT_WALL = 1
    validationCURRENT_LOCAL = 1
    validationCURRENT_EARLY = 1
    validationSET_EXPIRES = 2
    Remote = {L2}
    TrustSets = {{n1}}
    LocalSeqs = {}
    ShutsDown = FALSE
    MaxPending = 1
    MaxTime = 3
    MaxSkew = 0
INVARIANTS
    OnlyCurrentSupport
