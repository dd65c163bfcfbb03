SPECIFICATION Spec
CONSTANTS
    Caller = {c1, c2}
    MaxAttempts = 4
    InitialBackoff = 1
    MaxBackoff = 3
    MaxDuration = 3
    JitterPercent = 20
    Burst = 2
    Cost = 2
INVARIANTS
    RateBound
    AtMostOneLateRequest
PROPERTIES
    BackoffExact
    OperationEnds
