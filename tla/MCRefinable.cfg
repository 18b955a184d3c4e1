SPECIFICATION Spec
CONSTANTS
    t1 = t1
    t2 = t2
    Threads = {t1, t2}
    NULL = NULL
    Key <- Keys
    FirstSize = 1
    MaxTable = 4
    OutOfMemory = TRUE
SYMMETRY Symmetry
INVARIANTS TypeOK BucketsGuarded
PROPERTIES KeysKept
