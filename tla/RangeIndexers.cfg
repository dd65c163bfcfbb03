SPECIFICATION IndexersSpec
CONSTANTS
    Hash <- TreeHash
    NoHash = ""
    MaxHeight = 3
    Number <- TreeNumber
    ParentHash <- TreeParent
    Chains <- TallChains
    Undecodable <- TreeUndecodable
    TransferId <- TransferIds
    Transfers <- TreeTransfers
    Worker = {w1, w2}
INVARIANTS
    NilMeansComplete
    EachBlockInOnePlace
    NoSendAfterClose
PROPERTIES
    ImplementsRangeIndexer
    CallReturns
