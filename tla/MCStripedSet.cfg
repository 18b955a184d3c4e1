SPECIFICATION Spec
CONSTANTS
    t1 = t1
    t2 = t2
    t3 = t3
    Threads = {t1, t2}
    NULL = NULL
    Key <- ThreeKeys
    lock_size = 2
    Load = 0
    MaxTable = 4
    MaxDrift = 0
    Ops <- AllOps
    OutOfMemory = TRUE
SYMMETRY Symmetry
INVARIANTS TypeOK InItsBucket StripesGuard SomeoneRuns
PROPERTIES AtomicSet
