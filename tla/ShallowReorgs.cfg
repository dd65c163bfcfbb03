SPECIFICATION ShallowSpec
CONSTANTS
    Hash <- ForkedHash
    NoHash = ""
    MaxHeight = 4
    Number <- ForkedNumber
    ParentHash <- ForkedParent
    Chains <- ForkedChains
    Undecodable <- ForkedUndecodable
    TransferId <- TransferIds
    Transfers <- ForkedTransfers
    MaxReorgDepth = 2
    ConfirmationDepth = 1
    Uint64Wrap = 8
INVARIANTS
    FinalizedCanonical
    NoFalseReorg
PROPERTIES
    NeverRollsBack
