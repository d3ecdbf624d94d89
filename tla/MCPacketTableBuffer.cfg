CONSTANTS
    Tables = {p}
    Records = {r1, r2}
    Fill = fill
    Scratch = scratch
    Rank = 1
    ChunkRows = 2
    Cols = 1
    MaxRows = 8
    InitRows = {0}
    StringTypes = {FALSE}
    Pipelines = {"basic"}
    Filtered = TRUE
    Cap = 2
    Calls = {"pointer", "overlap"}
    LastRow = 9
    Slack = 2
SPECIFICATION Spec
PROPERTIES BufferSurvives
