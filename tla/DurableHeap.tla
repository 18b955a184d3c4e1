----------------------------- MODULE DurableHeap -----------------------------
(***************************************************************************)
(* What pmemalloc_activate and pmemalloc_free promise a program whose data *)
(* must survive failures (PMEMALLOC_API.txt): putting a block in use, or   *)
(* giving it back, and all the pointer assignments that go with it, happen *)
(* in one instant.  A failure finds all of it done or none of it.          *)
(***************************************************************************)
CONSTANTS
    Block,  \* the blocks of memory
    Cell,   \* the durable pointers
    NULL

VARIABLES
    live,   \* the blocks in use
    cell,   \* the value of every durable pointer
    call,   \* the call being executed
    up      \* the program runs

vars == <<live, cell, call, up>>

NoCall == [op |-> "none", block |-> NULL, cells |-> {}]

Init ==
    /\ live = {}
    /\ cell = [d \in Cell |-> NULL]
    /\ call = NoCall
    /\ up = FALSE

Holding(b) == {d \in Cell : cell[d] = b}

\* The program asks to put b in use and to point the cells S at it.
CallActivate(b, S) ==
    /\ up /\ call = NoCall
    /\ b \notin live
    /\ S # {} /\ \A d \in S : cell[d] = NULL
    /\ call' = [op |-> "activate", block |-> b, cells |-> S]
    /\ UNCHANGED <<live, cell, up>>

\* The program asks to free b and to clear every cell that points at it.
CallFree(b) ==
    /\ up /\ call = NoCall
    /\ b \in live
    /\ call' = [op |-> "free", block |-> b, cells |-> Holding(b)]
    /\ UNCHANGED <<live, cell, up>>

Effect ==
    /\ \/ /\ call.op = "activate"
          /\ call.block \notin live
          /\ live' = live \union {call.block}
          /\ cell' = [d \in Cell |-> IF d \in call.cells THEN call.block ELSE cell[d]]
       \/ /\ call.op = "free"
          /\ call.block \in live
          /\ live' = live \ {call.block}
          /\ cell' = [d \in Cell |-> IF d \in call.cells THEN NULL ELSE cell[d]]
    /\ UNCHANGED <<call, up>>

\* The call returns, and what it promised has happened.
Return ==
    /\ \/ call.op = "activate" /\ call.block \in live
       \/ call.op = "free" /\ call.block \notin live
    /\ call' = NoCall
    /\ UNCHANGED <<live, cell, up>>

Start ==
    /\ ~up
    /\ up' = TRUE
    /\ UNCHANGED <<live, cell, call>>

\* The program ends.  If it was in a call nobody is left to be told the outcome.
Fail ==
    /\ up' = FALSE
    /\ call' = NoCall
    /\ UNCHANGED <<live, cell>>

Next ==
    \/ \E b \in Block : CallFree(b) \/ \E S \in SUBSET Cell : CallActivate(b, S)
    \/ Effect \/ Return \/ Start \/ Fail

Spec == Init /\ [][Next]_vars
=============================================================================
