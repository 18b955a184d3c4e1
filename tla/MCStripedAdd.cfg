SPECIFICATION Spec
CONSTANTS
    t1 = t1
    t2 = t2
    t3 = t3
    Threads = {t1, t2}
    NULL = NULL
    Key <- FiveKeys
    lock_size = 1
    Load = 0
    MaxTable = 8
    MaxDrift = 1
    Ops <- AddOnly
    OutOfMemory = FALSE
SYMMETRY Symmetry
INVARIANTS AddAnswers
