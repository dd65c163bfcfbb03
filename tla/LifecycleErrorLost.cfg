SPECIFICATION Spec
CONSTANTS
    Service = {"indexer", "http"}
    Hooked = {"http"}
INVARIANTS
    FatalErrorReported
