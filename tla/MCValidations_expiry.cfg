SPECIFICATION Spec
CONSTANTS
    L1 = L1
    L2 = L2
    M2 = M2
    NodeID = {n1}
    Ledger = {L2, M2}
    LedgerSeq <- Seqs
    NoLedger = NoLedger
    NoValidation = NoValidation
    validationCURRENT_WALL = 2
    validationCURRENT_LOCAL = 1
    validationCURRENT_EARLY = 1
    validationSET_EXPIRES = 4
    Remote = {}
    TrustSets = {{n1}}
    LocalSeqs = {1}
    ShutsDown = TRUE
    MaxPending = 1
    MaxTime = 6
    MaxSkew = 1

    
    
PROPERTIES
    NothingLost
    CurrentAdvances
