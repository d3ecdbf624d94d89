CONSTANTS
    MaxElements = 6
    ChunkSize = 2
    Cap = 2
    TasksMayFail = TRUE
    AllocMayFail = FALSE
    FetchMayFail = FALSE
SPECIFICATION Spec
INVARIANTS FailureIsThrown
