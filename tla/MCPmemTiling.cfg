SPECIFICATION FairSpec
CONSTANTS
    d1 = d1
    d2 = d2
    Cell = {d1}
    HDR = HDR
    NULL = NULL
    LastClump = 6
    PMEM_NUM_ON = 1
    Request <- Small
    FailureModes <- PowerOnly
INVARIANTS PoolTiled CallsSettle
PROPERTIES CallsReturn
