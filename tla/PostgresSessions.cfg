SPECIFICATION Spec
CONSTANTS
    Hash <- SmallHash
    NoHash = ""
    MaxHeight = 2
    Number <- SmallNumber
    ParentHash <- SmallParent
    TransferId <- TransferIds
    Transfers <- SmallTransfers
    Session = {s1, s2, s3}
    NoSession = NoSession
    RollbackOverlaps = FALSE
INVARIANTS
    HoldsOneBranch
PROPERTIES
    AtomicCalls
    CallEnds
