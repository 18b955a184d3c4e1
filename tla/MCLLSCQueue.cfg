SPECIFICATION FairSpec
CONSTANTS
    v1 = v1
    v2 = v2
    Threads = {t1, t2}
    Val = {v1, v2}
    NULL = NULL
    MaxNodes = 5
CONSTRAINT FirstIsV1
INVARIANTS TypeOK EndsFollowList ReferencesCounted NoUseAfterFree
PROPERTIES RefinesFIFO LockFreeButForEmpty
CHECK_DEADLOCK FALSE
