CONSTANTS
    Word = 16
    Cases <- MCCases
    MaxFaults = 1
    Iterators = {it, copy}
SPECIFICATION ViewSpec
INVARIANTS ViewTypeOK PaddingIsZero ReadAgrees RoundTrip IteratorDelivers
PROPERTIES ImplementsStore
