CONSTANTS
    Tables = {p}
    Records = {r1, r2}
    Fill = fill
    Scratch = scratch
    Rank = 1
    ChunkRows = 3
    Cols = 1
    MaxRows = 6
    InitRows = {0, 3}
    StringTypes = {FALSE, TRUE}
    Pipelines = {"basic", "pool"}
    Filtered = TRUE
    Cap = 2
    Calls = {"pointer", "swmr"}
    LastRow = 7
    Slack = 2
SPECIFICATION Spec
INVARIANTS TypeOK PositionIsExtent FlushPublishes
PROPERTIES ImplementsAppendLog
