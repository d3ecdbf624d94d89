CONSTANTS
    Threads = {t1, t2}
    NoThread = none
    Lists = {"l1", "l2"}
    Datasets = {"d1", "d2"}
    Given = {"l1", "d1"}
    Calls = {"copy", "assign", "move", "destroy", "property", "fill value", "open", "gateway"}
    MaxIds = 10
    MaxCalls = 2
    MaxFaults = 1
SPECIFICATION Spec
INVARIANTS
    TypeOK
    Exclusive
    HeldIsOpen
    NothingLeaks
    PipelinesOwned
PROPERTIES
    OperationsEnd
CHECK_DEADLOCK FALSE
