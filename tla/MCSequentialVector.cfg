CONSTANTS
    Word = 16
    Cases <- VectorCases
    MaxFaults = 0
    Iterators = {it, copy}
SPECIFICATION ViewSpec
INVARIANTS EveryShuffleReadBack
