SPECIFICATION FairSpec
CONSTANTS
    v1 = v1
    v2 = v2
    Threads = {t1, t2}
    Val = {v1}
    NULL = NULL
    MaxNodes = 4
PROPERTIES LockFree
CHECK_DEADLOCK FALSE
