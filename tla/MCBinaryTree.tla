---------------------------- MODULE MCBinaryTree ----------------------------
(* The tree with a few words and blocks, under either kind of failure. *)
EXTENDS BinaryTree, TLC

\* Blocks are interchangeable.
Symmetry == Permutations(Block)

EitherFailure == {{"power"}, {"kill"}}
=============================================================================
