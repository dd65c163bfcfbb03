SPECIFICATION ObservedSpec
CONSTANTS
    Hash <- GrownHash
    NoHash = ""
    MaxHeight = 5
    Number <- GrownNumber
    ParentHash <- GrownParent
    Chains <- GrownChains
    Undecodable <- TipUndecodable
    TransferId <- TransferIds
    Transfers <- GrownTransfers
    MaxReorgDepth = 2
    ConfirmationDepth = 1
    Uint64Wrap = 8
INVARIANTS
    TypeOK
    CheckpointIsTip
    HistoryLinked
    TransfersExact
    ReconcileOutcome
PROPERTIES
    ImplementsStoredChain
    EventuallyCaughtUp
