CONSTANTS
    Tables = {p, q}
    Records = {r1}
    Fill = fill
    Scratch = scratch
    Rank = 2
    ChunkRows = 2
    Cols = 1
    MaxRows = 4
    InitRows = {0, 2}
    StringTypes = {FALSE}
    Pipelines = {"pool"}
    Filtered = TRUE
    Cap = 2
    Calls = {"pointer", "copy", "move", "reset"}
    LastRow = 3
    Slack = 2
SPECIFICATION Spec
INVARIANTS NothingLeftBehind
