SPECIFICATION FairBenchSpec
CONSTANTS
    thread_num = 2
    item_num = 1
    Threads <- MCThreads
    Val <- MCVal
    Node = {n1, n2, n3}
    NULL = NULL
PROPERTIES BenchEnds
