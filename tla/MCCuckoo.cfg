SPECIFICATION Spec
CONSTANTS
    t1 = t1
    t2 = t2
    Threads = {t1, t2}
    NULL = NULL
    Key <- Keys
    mtx_size = 4
    LIMIT = 2
    Params <- SmallLists
    MaxTable = 16
    Ops <- AllOps
    OutOfMemory = TRUE
SYMMETRY Symmetry
INVARIANTS TypeOK InItsLists ListsGuarded StuckInResizeOnly
PROPERTIES AtomicSet
CHECK_DEADLOCK FALSE
