SPECIFICATION FairSpec
CONSTANTS
    n1 = n1
    n2 = n2
    n3 = n3
    n4 = n4
    v2 = v2
    v3 = v3
    v4 = v4
    Threads = {t1, t2}
    Node = {n1, n2, n3, n4}
    Val = {v2, v3, v4}
    NULL = NULL
CONSTRAINT InOrder
INVARIANTS TypeOK ChainLinked EndsInOrder NoNullDeref LocalKnowledge
PROPERTIES EndsAdvance RefinesFIFO LockFree
