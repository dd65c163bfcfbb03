SPECIFICATION EnrichmentSpec
CONSTANTS
    Caller = {c1, c2}
    Version = {v1, v2}
    None = None
    Base = 10
    Amounts <- SmallAmounts
    Decimals <- SmallDecimals
    Nil = Nil
INVARIANTS
    AnswersWereSaved
    AgreeWhileStable
    ExactText
