--------------------------- MODULE MCLLSCQueue ---------------------------
(* Instance of the LL/SC queue for TLC. *)
EXTENDS LLSCLockFreeQueue

CONSTANTS v1, v2

\* The queue only copies values: of two behaviours that differ by an exchange of
\* v1 and v2, the one whose first addition is of v1 is enough.
FirstIsV1 == val[2] \in {v1, NULL}
=============================================================================
