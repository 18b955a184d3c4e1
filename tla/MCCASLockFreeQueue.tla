------------------------ MODULE MCCASLockFreeQueue ------------------------
(* Instance of the lock-free queue for TLC. *)
EXTENDS CASLockFreeQueue

CONSTANTS n1, n2, n3, n4, v2, v3, v4

\* calloc may return any node that was not returned before, and the queue only
\* copies values.  A behaviour is got from one that takes the nodes in order and
\* never adds a value twice by an exchange of addresses and a function of values:
\* the latter are enough.
InOrder ==
    /\ n1 \in allocated
    /\ n3 \in allocated => n2 \in allocated
    /\ n4 \in allocated => n3 \in allocated
    /\ val[n2] \in {v2, NULL} /\ val[n3] \in {v3, NULL} /\ val[n4] \in {v4, NULL}
=============================================================================
