---------------------------- MODULE MCRefinable ----------------------------
(* The refinable hash table with two threads and three keys. *)
EXTENDS RefinableHash, TLC

CONSTANTS t1, t2

Keys == {0, 1, 2}

Symmetry == Permutations(Threads)
=============================================================================
