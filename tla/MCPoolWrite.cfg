CONSTANTS
    Locs = {l1, l2}
    MaxWrites = 5
    Cap = 3
    TasksMayFail = TRUE
    StorageMayFail = TRUE
SPECIFICATION Spec
INVARIANTS
    TypeOK
    FlushedOnDisk
    BoundedInFlight
PROPERTIES
    ImplementsWriteBehind
    CallsReturn
