SPECIFICATION Spec
CONSTANTS
    d1 = d1
    d2 = d2
    Cell = {d1, d2}
    HDR = HDR
    NULL = NULL
    LastClump = 4
    PMEM_NUM_ON = 2
    Request <- Small
    FailureModes <- PowerAndKill
SYMMETRY Symmetry
INVARIANTS NoLeak
