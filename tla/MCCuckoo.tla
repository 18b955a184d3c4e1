------------------------------ MODULE MCCuckoo ------------------------------
(* The cuckoo hash table with two threads, and keys that meet in their lists. *)
EXTENDS ConcurrentCuckooHash, TLC

CONSTANTS t1, t2

Keys == {1, 5, 9}
AllOps == {"add", "delete", "find"}
SmallLists == {[probe |-> 1, threshold |-> 1], [probe |-> 2, threshold |-> 1]}

Symmetry == Permutations(Threads)
=============================================================================
