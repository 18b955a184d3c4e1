---------------------------- MODULE MCStripedHash ----------------------------
(* The striped hash table with a few threads and keys. *)
EXTENDS StripedHash, TLC

CONSTANTS t1, t2, t3

TwoKeys == {0, 1}
ThreeKeys == {0, 1, 3}
FiveKeys == 0..4
AddOnly == {"add"}
AllOps == {"add", "delete", "find"}

Symmetry == Permutations(Threads)
=============================================================================
