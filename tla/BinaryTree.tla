----------------------------- MODULE BinaryTree -----------------------------
(***************************************************************************)
(* binarytree/tree.c: a binary search tree of words in persistent memory,  *)
(* whose nodes are blocks of the allocator.                                *)
(*                                                                         *)
(* The allocator is what PmemAlloc is shown to be: pmemalloc_activate and  *)
(* pmemalloc_free are the calls of a DurableHeap, atomic whatever fails.   *)
(* What the tree adds is the order of its own steps: a node is filled in,  *)
(* linked and freed, and a count is incremented and then persisted.  Words *)
(* are numbers, in the order of strcmp.  The recursions over the tree only *)
(* read it on their way down; at is the rootp_ they have reached.          *)
(***************************************************************************)
EXTENDS Naturals

CONSTANTS
    Block,        \* the blocks pmemalloc_reserve may return
    Word,         \* the words that are inserted, natural numbers
    NULL,
    PMEM_NUM_ON,  \* the length of a block's on list (3 in the code)
    MaxCount,     \* bound: a word that was counted this often is not inserted
    FailureModes  \* what fails: {"power"} or {"kill"}, in a behaviour

ASSUME TreeAssumption ==
    /\ Word \subseteq Nat /\ NULL \notin Block /\ NULL \notin Word
    /\ PMEM_NUM_ON \in Nat \ {0} /\ MaxCount \in Nat \ {0}
    /\ FailureModes \subseteq {{"power"}, {"kill"}}

VARIABLES
    live, cell, call, up,  \* the heap, and whether a process runs
    word, count,       \* the fields of every node, as a load sees them
    pcount,            \* count, as a power failure would leave it
    on,                \* the entries in the on list of every block in use
    failures,          \* the failures of this behaviour
    pc, arg, at, tnp   \* the step of the process, s, rootp_ and tnp_

heap == <<live, cell, call, up>>
fields == <<word, count, pcount, on>>
vars == <<heap, fields, failures, pc, arg, at, tnp>>

root_ == <<NULL, "root">>
left_(b) == <<b, "left">>
right_(b) == <<b, "right">>
Cell == {root_} \union (Block \X {"left", "right"})

Heap == INSTANCE DurableHeap

Leaf(b) == cell[left_(b)] = NULL /\ cell[right_(b)] = NULL
-----------------------------------------------------------------------------
Init ==
    /\ Heap!Init
    /\ word = [b \in Block |-> NULL]
    /\ count = [b \in Block |-> 0]
    /\ pcount = count
    /\ on = [b \in Block |-> 0]
    /\ failures \in FailureModes
    /\ pc = "idle" /\ arg = NULL /\ at = root_ /\ tnp = NULL

\* tree_insert or tree_free returns.
Done == pc' = "idle" /\ arg' = NULL /\ at' = root_ /\ tnp' = NULL

\* FATAL, FATALSYS, exit or a signal: the process is gone with its variables.
ProcessEnds == Heap!Fail /\ Done

\* tree_init; pmemalloc_init is part of what PmemAlloc is shown to do.
TreeInit ==
    /\ Heap!Start
    /\ UNCHANGED <<fields, failures, pc, arg, at, tnp>>

Exit == up /\ pc = "idle" /\ ProcessEnds /\ UNCHANGED <<fields, failures>>

Counted(w) == {b \in live : word[b] = w /\ count[b] >= MaxCount}
-----------------------------------------------------------------------------
(* tree_insert *)

InsertCall(w) ==
    /\ up /\ pc = "idle"
    /\ Counted(w) = {}
    /\ pc' = "insert" /\ arg' = w
    /\ UNCHANGED <<heap, fields, failures, at, tnp>>

InsertDescend ==
    LET b == cell[at] IN
    /\ pc = "insert"
    /\ b # NULL /\ word[b] # arg
    /\ at' = IF arg < word[b] THEN left_(b) ELSE right_(b)
    /\ UNCHANGED <<heap, fields, failures, pc, arg, tnp>>

\* pmemalloc_reserve, and the fields of the new node.  Until the block is
\* activated a failure gives it back.  Without memory FATALSYS.
InsertReserve ==
    /\ pc = "insert"
    /\ cell[at] = NULL
    /\ \/ \E b \in Block \ live :
            /\ tnp' = b
            /\ cell' = [cell EXCEPT ![left_(b)] = NULL, ![right_(b)] = NULL]
            /\ word' = [word EXCEPT ![b] = arg]
            /\ count' = [count EXCEPT ![b] = 1]
            /\ pc' = "activate"
            /\ UNCHANGED <<live, call, up, pcount, on, failures, arg, at>>
       \/ /\ live = Block
          /\ ProcessEnds
          /\ UNCHANGED <<fields, failures>>

\* Mutant: the block is activated without the assignment to *rootp_, which is
\* made afterwards.
InsertActivateThenLink ==
    /\ pc = "activate"
    /\ call = Heap!NoCall
    /\ live' = live \union {tnp}
    /\ cell' = [cell EXCEPT ![at] = IF tnp \in live THEN tnp ELSE @]
    /\ pcount' = [pcount EXCEPT ![tnp] = count[tnp]]
    /\ IF tnp \in live THEN Done ELSE UNCHANGED <<pc, arg, at, tnp>>
    /\ UNCHANGED <<call, up, word, count, on, failures>>

\* pmemalloc_onactive(tnp_, rootp_, tnp_); pmemalloc_activate(tnp_), which makes
\* the block durable before it puts it in use.
InsertActivate ==
    /\ pc = "activate"
    /\ Heap!CallActivate(tnp, {at})
    /\ pcount' = [pcount EXCEPT ![tnp] = count[tnp]]
    /\ pc' = "activating"
    /\ UNCHANGED <<word, count, on, failures, arg, at, tnp>>

\* count++ of a word that is already in the tree.
InsertBump ==
    LET b == cell[at] IN
    /\ pc = "insert"
    /\ b # NULL /\ word[b] = arg
    /\ count' = [count EXCEPT ![b] = @ + 1]
    /\ pc' = "persist"
    /\ UNCHANGED <<heap, word, pcount, on, failures, arg, at, tnp>>

\* Mutant: the count is not persisted.
InsertPersistNot ==
    /\ pc = "persist"
    /\ pc' = "ret"
    /\ UNCHANGED <<heap, fields, failures, arg, at, tnp>>

InsertPersist ==
    LET b == cell[at] IN
    /\ pc = "persist"
    /\ pcount' = [pcount EXCEPT ![b] = count[b]]
    /\ pc' = "ret"
    /\ UNCHANGED <<heap, word, count, on, failures, arg, at, tnp>>

InsertReturn == pc = "ret" /\ Done /\ UNCHANGED <<heap, fields, failures>>
-----------------------------------------------------------------------------
(* tree_free *)

FreeCall ==
    /\ up /\ pc = "idle"
    /\ pc' = "free"
    /\ UNCHANGED <<heap, fields, failures, arg, at, tnp>>

\* Left, right, then the node itself; an empty tree is freed.
FreeDescend ==
    LET b == cell[at] IN
    /\ pc = "free"
    /\ \/ /\ b # NULL /\ ~Leaf(b)
          /\ at' = IF cell[left_(b)] # NULL THEN left_(b) ELSE right_(b)
          /\ UNCHANGED <<pc, arg, tnp>>
       \/ /\ b # NULL /\ Leaf(b)
          /\ pc' = "onfree"
          /\ UNCHANGED <<arg, at, tnp>>
       \/ b = NULL /\ Done
    /\ UNCHANGED <<heap, fields, failures>>

\* Mutant: the on list has no end.
FreeOnFreeUnlimited ==
    LET b == cell[at] IN
    /\ pc = "onfree"
    /\ on' = [on EXCEPT ![b] = @ + 1]
    /\ pc' = "free_node"
    /\ UNCHANGED <<heap, word, count, pcount, failures, arg, at, tnp>>

\* pmemalloc_onfree(*rootp_, rootp_, NULL).  An entry stays when the process
\* ends before the block is freed; when the list is full, FATAL.
FreeOnFree ==
    LET b == cell[at] IN
    /\ pc = "onfree"
    /\ \/ /\ on[b] < PMEM_NUM_ON
          /\ on' = [on EXCEPT ![b] = @ + 1]
          /\ pc' = "free_node"
          /\ UNCHANGED <<heap, arg, at, tnp>>
       \/ /\ on[b] = PMEM_NUM_ON
          /\ ProcessEnds
          /\ UNCHANGED on
    /\ UNCHANGED <<word, count, pcount, failures>>

\* pmemalloc_free(*rootp_)
FreeNode ==
    /\ pc = "free_node"
    /\ Heap!CallFree(cell[at])
    /\ pc' = "freeing"
    /\ UNCHANGED <<fields, failures, arg, at, tnp>>
-----------------------------------------------------------------------------
\* The one instant in which the heap does what it was called for; the on list
\* is then empty.
HeapEffect ==
    /\ Heap!Effect
    /\ on' = [on EXCEPT ![call.block] = 0]
    /\ UNCHANGED <<word, count, pcount, failures, pc, arg, at, tnp>>

\* The heap's call returns: the insertion is done, or the next node is looked
\* for (from the root, which reads more than the code and changes nothing).
HeapReturn ==
    /\ Heap!Return
    /\ \/ pc = "activating" /\ Done
       \/ pc = "freeing" /\ pc' = "free" /\ at' = root_ /\ UNCHANGED <<arg, tnp>>
    /\ UNCHANGED <<fields, failures>>

\* The processor writes the line of a count back by itself.
Evict ==
    /\ \E b \in live :
        pcount[b] # count[b] /\ pcount' = [pcount EXCEPT ![b] = count[b]]
    /\ UNCHANGED <<heap, word, count, on, failures, pc, arg, at, tnp>>

\* The process dies, or the power fails with what was not written back.
Kill ==
    /\ "kill" \in failures
    /\ up
    /\ ProcessEnds
    /\ UNCHANGED <<fields, failures>>

PowerFailure ==
    /\ "power" \in failures
    /\ ProcessEnds
    /\ count' = [b \in Block |-> IF b \in live THEN pcount[b] ELSE count[b]]
    /\ UNCHANGED <<word, pcount, on, failures>>

Next ==
    \/ TreeInit \/ Exit
    \/ FreeCall \/ \E w \in Word : InsertCall(w)
    \/ InsertDescend \/ InsertReserve \/ InsertActivate \/ InsertBump \/ InsertPersist
    \/ InsertReturn
    \/ FreeDescend \/ FreeOnFree \/ FreeNode
    \/ HeapEffect \/ HeapReturn
    \/ Evict \/ Kill \/ PowerFailure

Spec == Init /\ [][Next]_vars
-----------------------------------------------------------------------------
(* What must hold *)

TypeOK ==
    /\ live \subseteq Block
    /\ cell \in [Cell -> Block \union {NULL}]
    /\ word \in [Block -> Word \union {NULL}]
    /\ count \in [Block -> 0..MaxCount] /\ pcount \in [Block -> 0..MaxCount]
    /\ on \in [Block -> 0..PMEM_NUM_ON]
    /\ at \in Cell /\ tnp \in Block \union {NULL}

\* The blocks of the subtree below a cell: the least set that has what the cell
\* points at and, with a block, what the block points at.
Below(d) ==
    {b \in Block : \A S \in SUBSET Block :
        (\A e \in {d} \union (S \X {"left", "right"}) : cell[e] \in S \union {NULL})
            => b \in S}

\* Whatever failed and wherever, the blocks in use are those of the tree, and
\* one pointer leads to each: nothing is leaked, shared or dangling.
TreeOwnsHeap ==
    LET inTree == {root_} \union (Below(root_) \X {"left", "right"}) IN
    /\ live = Below(root_)
    /\ \A d, e \in inTree : cell[d] = cell[e] /\ cell[d] # NULL => d = e

\* It is a search tree, so that an insertion finds a word that is there.
SearchTree ==
    \A b \in live :
        /\ \A c \in Below(left_(b)) : word[c] < word[b]
        /\ \A c \in Below(right_(b)) : word[c] > word[b]

\* The count of a word that survives a failure.
Survivor(b) == IF "power" \in failures THEN pcount[b] ELSE count[b]

Counts ==
    [w \in Word |->
        LET nodes == {b \in live : word[b] = w}
        IN  IF nodes = {} THEN 0 ELSE Survivor(CHOOSE b \in nodes : TRUE)]

Inserting == {"insert", "activate", "activating", "persist", "ret"}

\* The word counts: before is what the process found.
Before ==
    IF pc \in {"insert", "activate"} THEN Counts[arg]
    ELSE IF pc = "activating" THEN 0
    ELSE count[cell[at]] - 1

Job ==
    IF pc \in Inserting THEN [op |-> "insert", word |-> arg, before |-> Before]
    ELSE IF pc = "idle" THEN [op |-> "none", word |-> NULL, before |-> 0]
    ELSE [op |-> "free", word |-> NULL, before |-> 0]

\* An insertion counts its word once and durably when it returns, or fails with
\* that done or not; freeing forgets words, and has forgotten all at its end.
Words == INSTANCE WordCount WITH counts <- Counts, job <- Job

CountsWords == Words!Spec
=============================================================================
