SPECIFICATION Spec
CONSTANTS
    Hash <- SmallHash
    NoHash = ""
    MaxHeight = 2
    Number <- SmallNumber
    ParentHash <- SmallParent
    TransferId <- ReaderIds
    Transfers <- ReaderTransfers
    MaxReorgDepth = 2
    LogIndex <- ReaderLogIndex
    Token <- ReaderToken
    Parties <- ReaderParties
    Lower <- ReaderLower
    None = None
    Queries <- ReaderQueries
    DefaultLimit = 2
    MaxLimit = 3
    Int64Limit = 4
INVARIANTS
    PagesDescend
    ScanExact
PROPERTIES
    ScanEnds
