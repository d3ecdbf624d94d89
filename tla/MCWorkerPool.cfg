CONSTANTS
    Workers = {w1, w2}
    Clients = {c1, c2}
    Tasks = {t1, t2}
    SeqMod = 16
    MaxRings <- AllRings
    AllocMayFail = TRUE
SPECIFICATION Spec
INVARIANTS
    TypeOK
    NoLostWakeup
    IdleMeansDone
    ExitOnlyWhenDrained
    OneHolder
PROPERTIES
    ImplementsExecutor
    DestructorReturns
