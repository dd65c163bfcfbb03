SPECIFICATION Spec
CONSTANTS
    Request = {q1, q2}
    MaxRows = 2
INVARIANTS
    LogTellsTheTruth
    RowsSurviveMetadata
    ScrapeComplete
    CountersExact
