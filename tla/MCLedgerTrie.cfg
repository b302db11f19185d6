SPECIFICATION Spec
CONSTANTS
    Ledger <- MCLedger
    History <- MCHistory
    MaxSupport = 5
    MaxCount = 2
INVARIANTS
    NodesExact
    PreferredIsReference
    PreferredOnlyExtends
    FollowingSettles
PROPERTY
    ImplementsSupport
