SPECIFICATION Spec
CONSTANTS
    Block = {b1, b2, b3}
    Word = {1, 2, 3}
    NULL = NULL
    PMEM_NUM_ON = 3
    MaxCount = 2
    FailureModes <- EitherFailure
SYMMETRY Symmetry
INVARIANTS TypeOK TreeOwnsHeap
PROPERTIES CountsWords
