CONSTANTS
    Tables = {p}
    Records = {r1, r2}
    Fill = fill
    Scratch = scratch
    Rank = 2
    ChunkRows = 1
    Cols = 2
    MaxRows = 4
    InitRows = {0, 1}
    StringTypes = {FALSE}
    Pipelines = {"basic", "pool"}
    Filtered = FALSE
    Cap = 2
    Calls = {"pointer", "container", "misfit"}
    LastRow = 5
    Slack = 2
SPECIFICATION Spec
INVARIANTS FailuresAreReported
PROPERTIES GrowsByChunk AppendOnly ImplementsAppendLog
