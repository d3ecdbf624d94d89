CONSTANTS
    MaxElements = 8
    ChunkSize = 2
    Cap = 2
    TasksMayFail = TRUE
    AllocMayFail = TRUE
    FetchMayFail = TRUE
SPECIFICATION Spec
INVARIANTS TypeOK ReadIsExact BoundedInFlight
PROPERTIES ReadEnds
