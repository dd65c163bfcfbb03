SPECIFICATION ApplicationSpec
CONSTANTS
    Default <- SmallDefault
    EnvNumber <- SmallNumbers
    EnvText <- Texts
    WellFormed <- UsableTexts
    Absent = Absent
    Blank = Blank
    Malformed = Malformed
    MaxOverrides = 2
    Service = {"indexer", "http", "pprof"}
    Hooked = {"http", "pprof"}
INVARIANTS
    SettingsArrive
    OnlyTextsRefusedLate
    NilOnlyWhenAsked
    JoinedOrTimedOut
    AtMostFirstErrorMissing
PROPERTIES
    BoundedShutdown
