SPECIFICATION BenchSpec
CONSTANTS
    thread_num = 2
    item_num = 2
    Threads <- MCThreads
    Val <- MCVal
    Node = {n1, n2, n3, n4, n5}
    NULL = NULL
SYMMETRY Symmetry
INVARIANTS BenchResult FreedAfterUse
