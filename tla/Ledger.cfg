SPECIFICATION LedgerSpec
CONSTANTS
    Address <- SmallAddress
    Empty = ""
    Width = 2
    Genesis <- SmallGenesis
    Block <- SmallBlocks
    MaxAttempts = 3
    MaxBlocks = 3
INVARIANTS
    LedgerIsItsBlocks
PROPERTIES
    SyncEnds
