---------------------------- MODULE MCPmemAlloc ----------------------------
(* The allocator on a pool of a few chunks. *)
EXTENDS PmemAlloc

CONSTANTS d1, d2

SmallAndLarge == {2, 3}
Small == {2}
PowerOrKill == {{"power"}, {"kill"}}
PowerOnly == {{"power"}}
PowerAndKill == {{"power", "kill"}}

Symmetry == Permutations(Cell)
=============================================================================
