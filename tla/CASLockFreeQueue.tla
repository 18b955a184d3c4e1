-------------------------- MODULE CASLockFreeQueue --------------------------
(***************************************************************************)
(* The unbounded lock-free queue of queue/CASLockFreeQueue.c: Michael and  *)
(* Scott's queue with counted pointers.                                    *)
(*                                                                         *)
(* The code is built without optimisation (CFLAGS = -g -Wall), so every    *)
(* access is a load or a store of its own, in program order.  A pointer_t  *)
(* is two words: copying one is two loads, and another thread may change   *)
(* it in between.  C does not say which word of a struct assignment is     *)
(* loaded first, so either may be, every time.  Only cas works on both     *)
(* words at once.  Each load, cas or comparison with a shared word is one  *)
(* action; pc names the next one.                                          *)
(* free_node is empty (_FREE_ is not defined), so a node is never reused.  *)
(***************************************************************************)
EXTENDS Naturals, Sequences

CONSTANTS
    Threads,   \* the threads that share the queue
    Node,      \* the addresses calloc may return for a node_t
    Val,       \* the values that are enqueued
    NULL       \* the null pointer, and the value of the dummy node

ASSUME NullAssumption == NULL \notin Node /\ NULL \notin Val

VARIABLES
    head, tail,   \* q->head and q->tail, counted pointers
    next, val,    \* the fields of every node
    allocated,    \* the nodes calloc has handed out
    pc,           \* the next access of each thread
    newNode,      \* enq's node
    lhead, ltail, lnext,  \* the local pointer_t variables head, tail, next
    out,          \* the *val a deq writes
    ret,          \* what the call returns
    chain,        \* history: the nodes ever linked, dummy first
    sawEmpty      \* history: this deq read the last node while it was head

shared == <<head, tail, next, val, allocated, chain>>
locals == <<newNode, lhead, ltail, lnext, out, ret, sawEmpty>>
vars == <<shared, pc, locals>>

Ptr(p, c) == [ptr |-> p, count |-> c]
Pointer == [ptr : Node \union {NULL}, count : Nat]

\* A copy of a pointer_t begins at x_head, x_tail or x_next.  When one word is
\* loaded, the label says which is left: x_hc, x_tc, x_nc for the count, x_hp,
\* x_tp, x_np for the pointer.
EnqLabels == {"e_tail", "e_tc", "e_tp", "e_next", "e_nc", "e_np",
              "e_chkc", "e_chkp", "e_link", "e_help", "e_swing"}
DeqLabels == {"d_head", "d_hc", "d_hp", "d_tail", "d_tc", "d_tp",
              "d_next", "d_nc", "d_np", "d_chkc", "d_chkp",
              "d_help", "d_val", "d_cas"}
Labels == EnqLabels \union DeqLabels \union {"idle", "enq_ret", "deq_ret"}

Goto(t, l) == pc' = [pc EXCEPT ![t] = l]

\* One load of a copy that begins at label copy: the word that is left at label
\* this.  It is the first of the two or, the other word being loaded, the last.
LoadWord(t, copy, this, other, done) ==
    /\ pc[t] \in {copy, this}
    /\ Goto(t, IF pc[t] = copy THEN other ELSE done)

\* cas(addr, oldp, newp): the word pair at addr after the instruction.
Cas(cur, oldp, newp) == IF cur = oldp THEN newp ELSE cur
-----------------------------------------------------------------------------
\* init_queue: one dummy node, both ends point at it.
Init ==
    \E d \in Node :
        /\ head = Ptr(d, 0)
        /\ tail = Ptr(d, 0)
        /\ next = [n \in Node |-> Ptr(NULL, 0)]
        /\ val = [n \in Node |-> NULL]
        /\ allocated = {d}
        /\ chain = <<d>>
        /\ pc = [t \in Threads |-> "idle"]
        /\ newNode = [t \in Threads |-> NULL]
        /\ lhead = [t \in Threads |-> Ptr(NULL, 0)]
        /\ ltail = [t \in Threads |-> Ptr(NULL, 0)]
        /\ lnext = [t \in Threads |-> Ptr(NULL, 0)]
        /\ out = [t \in Threads |-> NULL]
        /\ ret = [t \in Threads |-> FALSE]
        /\ sawEmpty = [t \in Threads |-> FALSE]
-----------------------------------------------------------------------------
(* enq *)

\* enq(q, v) begins: create_node gets a fresh node and fills it in.
EnqCall(t, v) ==
    /\ pc[t] = "idle"
    /\ \E n \in Node \ allocated :
        /\ allocated' = allocated \union {n}
        /\ val' = [val EXCEPT ![n] = v]
        /\ next' = [next EXCEPT ![n] = Ptr(NULL, 0)]
        /\ newNode' = [newNode EXCEPT ![t] = n]
    /\ Goto(t, "e_tail")
    /\ UNCHANGED <<head, tail, chain, lhead, ltail, lnext, out, ret, sawEmpty>>

\* calloc fails in create_node: enq returns false.
EnqNoMemory(t) ==
    /\ pc[t] = "idle"
    /\ ret' = [ret EXCEPT ![t] = FALSE]
    /\ Goto(t, "enq_ret")
    /\ UNCHANGED <<shared, newNode, lhead, ltail, lnext, out, sawEmpty>>

\* tail = q->tail
EnqReadTailCount(t) ==
    /\ LoadWord(t, "e_tail", "e_tc", "e_tp", "e_next")
    /\ ltail' = [ltail EXCEPT ![t].count = tail.count]
    /\ UNCHANGED <<shared, newNode, lhead, lnext, out, ret, sawEmpty>>

EnqReadTailPtr(t) ==
    /\ LoadWord(t, "e_tail", "e_tp", "e_tc", "e_next")
    /\ ltail' = [ltail EXCEPT ![t].ptr = tail.ptr]
    /\ UNCHANGED <<shared, newNode, lhead, lnext, out, ret, sawEmpty>>

\* next = tail.ptr->next
EnqReadNextCount(t) ==
    /\ LoadWord(t, "e_next", "e_nc", "e_np", "e_chkc")
    /\ lnext' = [lnext EXCEPT ![t].count = next[ltail[t].ptr].count]
    /\ UNCHANGED <<shared, newNode, lhead, ltail, out, ret, sawEmpty>>

EnqReadNextPtr(t) ==
    /\ LoadWord(t, "e_next", "e_np", "e_nc", "e_chkc")
    /\ lnext' = [lnext EXCEPT ![t].ptr = next[ltail[t].ptr].ptr]
    /\ UNCHANGED <<shared, newNode, lhead, ltail, out, ret, sawEmpty>>

\* tail.count == q->tail.count && tail.ptr == q->tail.ptr
EnqCheckCount(t) ==
    /\ pc[t] = "e_chkc"
    /\ Goto(t, IF ltail[t].count = tail.count THEN "e_chkp" ELSE "e_tail")
    /\ UNCHANGED <<shared, locals>>

\* Mutant: equal counts are taken for a copy that is not torn.
EnqCheckCountOnly(t) ==
    /\ pc[t] = "e_chkp"
    /\ Goto(t, IF lnext[t].ptr = NULL THEN "e_link" ELSE "e_help")
    /\ UNCHANGED <<shared, locals>>

EnqCheckPtr(t) ==
    /\ pc[t] = "e_chkp"
    /\ Goto(t, IF ltail[t].ptr # tail.ptr THEN "e_tail"
               ELSE IF lnext[t].ptr = NULL THEN "e_link" ELSE "e_help")
    /\ UNCHANGED <<shared, locals>>

\* Mutant: the link is a plain store, not a cas.
EnqLinkBlind(t) ==
    /\ pc[t] = "e_link"
    /\ next' = [next EXCEPT ![ltail[t].ptr] = Ptr(newNode[t], lnext[t].count + 1)]
    /\ chain' = Append(chain, newNode[t])
    /\ Goto(t, "e_swing")
    /\ UNCHANGED <<head, tail, val, allocated, locals>>

\* cas(&tail.ptr->next, next, newNode): the node becomes part of the queue.
EnqLink(t) ==
    LET linked == next[ltail[t].ptr] = lnext[t]
        tmp == Ptr(newNode[t], lnext[t].count + 1)
    IN  /\ pc[t] = "e_link"
        /\ next' = [next EXCEPT ![ltail[t].ptr] = Cas(@, lnext[t], tmp)]
        /\ chain' = IF linked THEN Append(chain, newNode[t]) ELSE chain
        /\ Goto(t, IF linked THEN "e_swing" ELSE "e_tail")
        /\ UNCHANGED <<head, tail, val, allocated, locals>>

\* Mutant: a lagging tail is left for its own enq to move.
EnqHelpNot(t) ==
    /\ pc[t] = "e_help"
    /\ Goto(t, "e_tail")
    /\ UNCHANGED <<shared, locals>>

\* The tail lags: cas(&q->tail, tail, next) helps the enq that left it.
EnqHelp(t) ==
    /\ pc[t] = "e_help"
    /\ tail' = Cas(tail, ltail[t], Ptr(lnext[t].ptr, ltail[t].count + 1))
    /\ Goto(t, "e_tail")
    /\ UNCHANGED <<head, next, val, allocated, chain, locals>>

\* Mutant: the tail is stored, as if nobody could have helped meanwhile.
EnqSwingBlind(t) ==
    /\ pc[t] = "e_swing"
    /\ tail' = Ptr(newNode[t], ltail[t].count + 1)
    /\ ret' = [ret EXCEPT ![t] = TRUE]
    /\ Goto(t, "enq_ret")
    /\ UNCHANGED <<head, next, val, allocated, chain,
                   newNode, lhead, ltail, lnext, out, sawEmpty>>

\* cas(&q->tail, tail, newNode) after the loop; enq returns true.
EnqSwing(t) ==
    /\ pc[t] = "e_swing"
    /\ tail' = Cas(tail, ltail[t], Ptr(newNode[t], ltail[t].count + 1))
    /\ ret' = [ret EXCEPT ![t] = TRUE]
    /\ Goto(t, "enq_ret")
    /\ UNCHANGED <<head, next, val, allocated, chain,
                   newNode, lhead, ltail, lnext, out, sawEmpty>>
-----------------------------------------------------------------------------
(* deq *)

DeqCall(t) ==
    /\ pc[t] = "idle"
    /\ Goto(t, "d_head")
    /\ UNCHANGED <<shared, locals>>

\* head = q->head
DeqReadHeadCount(t) ==
    /\ LoadWord(t, "d_head", "d_hc", "d_hp", "d_tail")
    /\ lhead' = [lhead EXCEPT ![t].count = head.count]
    /\ UNCHANGED <<shared, newNode, ltail, lnext, out, ret, sawEmpty>>

DeqReadHeadPtr(t) ==
    /\ LoadWord(t, "d_head", "d_hp", "d_hc", "d_tail")
    /\ lhead' = [lhead EXCEPT ![t].ptr = head.ptr]
    /\ UNCHANGED <<shared, newNode, ltail, lnext, out, ret, sawEmpty>>

\* tail = q->tail
DeqReadTailCount(t) ==
    /\ LoadWord(t, "d_tail", "d_tc", "d_tp", "d_next")
    /\ ltail' = [ltail EXCEPT ![t].count = tail.count]
    /\ UNCHANGED <<shared, newNode, lhead, lnext, out, ret, sawEmpty>>

DeqReadTailPtr(t) ==
    /\ LoadWord(t, "d_tail", "d_tp", "d_tc", "d_next")
    /\ ltail' = [ltail EXCEPT ![t].ptr = tail.ptr]
    /\ UNCHANGED <<shared, newNode, lhead, lnext, out, ret, sawEmpty>>

\* next = head.ptr->next
DeqReadNextCount(t) ==
    /\ LoadWord(t, "d_next", "d_nc", "d_np", "d_chkc")
    /\ lnext' = [lnext EXCEPT ![t].count = next[lhead[t].ptr].count]
    /\ UNCHANGED <<shared, newNode, lhead, ltail, out, ret, sawEmpty>>

DeqReadNextPtr(t) ==
    /\ LoadWord(t, "d_next", "d_np", "d_nc", "d_chkc")
    /\ lnext' = [lnext EXCEPT ![t].ptr = next[lhead[t].ptr].ptr]
    /\ sawEmpty' = [sawEmpty EXCEPT ![t] = @ \/ head.count + 1 = Len(chain)]
    /\ UNCHANGED <<shared, newNode, lhead, ltail, out, ret>>

\* head.count == q->head.count && head.ptr == q->head.ptr
DeqCheckCount(t) ==
    /\ pc[t] = "d_chkc"
    /\ Goto(t, IF lhead[t].count = head.count THEN "d_chkp" ELSE "d_head")
    /\ UNCHANGED <<shared, locals>>

\* Mutant: deq does not compare head with tail, only asks whether next is NULL.
DeqCheckNextOnly(t) ==
    /\ pc[t] = "d_chkp"
    /\ ret' = [ret EXCEPT ![t] = IF lhead[t].ptr = head.ptr /\ lnext[t].ptr = NULL
                                THEN FALSE ELSE @]
    /\ Goto(t, IF lhead[t].ptr # head.ptr THEN "d_head"
               ELSE IF lnext[t].ptr = NULL THEN "deq_ret" ELSE "d_val")
    /\ UNCHANGED <<shared, newNode, lhead, ltail, lnext, out, sawEmpty>>

\* The snapshot holds: the queue is empty, or its tail lags, or *val is read.
DeqCheckPtr(t) ==
    /\ pc[t] = "d_chkp"
    /\ \/ /\ lhead[t].ptr # head.ptr
          /\ Goto(t, "d_head")
          /\ UNCHANGED ret
       \/ /\ lhead[t].ptr = head.ptr
          /\ lhead[t].ptr = ltail[t].ptr
          /\ lnext[t].ptr = NULL
          /\ ret' = [ret EXCEPT ![t] = FALSE]
          /\ Goto(t, "deq_ret")
       \/ /\ lhead[t].ptr = head.ptr
          /\ lhead[t].ptr = ltail[t].ptr
          /\ lnext[t].ptr # NULL
          /\ Goto(t, "d_help")
          /\ UNCHANGED ret
       \/ /\ lhead[t].ptr = head.ptr
          /\ lhead[t].ptr # ltail[t].ptr
          /\ Goto(t, "d_val")
          /\ UNCHANGED ret
    /\ UNCHANGED <<shared, newNode, lhead, ltail, lnext, out, sawEmpty>>

\* cas(&q->tail, tail, next), with the count of head plus one.
DeqHelp(t) ==
    /\ pc[t] = "d_help"
    /\ tail' = Cas(tail, ltail[t], Ptr(lnext[t].ptr, lhead[t].count + 1))
    /\ Goto(t, "d_head")
    /\ UNCHANGED <<head, next, val, allocated, chain, locals>>

\* *val = next.ptr->val
DeqReadVal(t) ==
    /\ pc[t] = "d_val"
    /\ out' = [out EXCEPT ![t] = val[lnext[t].ptr]]
    /\ Goto(t, "d_cas")
    /\ UNCHANGED <<shared, newNode, lhead, ltail, lnext, ret, sawEmpty>>

\* Mutant: head is stored without a cas.
DeqSwingBlind(t) ==
    /\ pc[t] = "d_cas"
    /\ head' = Ptr(lnext[t].ptr, lhead[t].count + 1)
    /\ ret' = [ret EXCEPT ![t] = TRUE]
    /\ Goto(t, "deq_ret")
    /\ UNCHANGED <<tail, next, val, allocated, chain,
                   newNode, lhead, ltail, lnext, out, sawEmpty>>

\* Mutant: the counter counts down.
DeqSwingDown(t) ==
    LET swung == head = lhead[t] IN
    /\ pc[t] = "d_cas"
    /\ head' = Cas(head, lhead[t], Ptr(lnext[t].ptr, lhead[t].count - 1))
    /\ ret' = [ret EXCEPT ![t] = IF swung THEN TRUE ELSE @]
    /\ Goto(t, IF swung THEN "deq_ret" ELSE "d_head")
    /\ UNCHANGED <<tail, next, val, allocated, chain,
                   newNode, lhead, ltail, lnext, out, sawEmpty>>

\* cas(&q->head, head, next); deq returns true when it succeeds.
DeqSwing(t) ==
    LET swung == head = lhead[t] IN
    /\ pc[t] = "d_cas"
    /\ head' = Cas(head, lhead[t], Ptr(lnext[t].ptr, lhead[t].count + 1))
    /\ ret' = [ret EXCEPT ![t] = IF swung THEN TRUE ELSE @]
    /\ Goto(t, IF swung THEN "deq_ret" ELSE "d_head")
    /\ UNCHANGED <<tail, next, val, allocated, chain,
                   newNode, lhead, ltail, lnext, out, sawEmpty>>
-----------------------------------------------------------------------------
\* The call gives control back to its thread, and its variables are gone.
Return(t) ==
    /\ pc[t] \in {"enq_ret", "deq_ret"}
    /\ Goto(t, "idle")
    /\ newNode' = [newNode EXCEPT ![t] = NULL]
    /\ lhead' = [lhead EXCEPT ![t] = Ptr(NULL, 0)]
    /\ ltail' = [ltail EXCEPT ![t] = Ptr(NULL, 0)]
    /\ lnext' = [lnext EXCEPT ![t] = Ptr(NULL, 0)]
    /\ out' = [out EXCEPT ![t] = NULL]
    /\ ret' = [ret EXCEPT ![t] = FALSE]
    /\ sawEmpty' = [sawEmpty EXCEPT ![t] = FALSE]
    /\ UNCHANGED shared

EnqStep(t) ==
    \/ EnqReadTailCount(t) \/ EnqReadTailPtr(t)
    \/ EnqReadNextCount(t) \/ EnqReadNextPtr(t)
    \/ EnqCheckCount(t) \/ EnqCheckPtr(t)
    \/ EnqLink(t) \/ EnqHelp(t) \/ EnqSwing(t)

DeqStep(t) ==
    \/ DeqReadHeadCount(t) \/ DeqReadHeadPtr(t)
    \/ DeqReadTailCount(t) \/ DeqReadTailPtr(t)
    \/ DeqReadNextCount(t) \/ DeqReadNextPtr(t)
    \/ DeqCheckCount(t) \/ DeqCheckPtr(t)
    \/ DeqHelp(t) \/ DeqReadVal(t) \/ DeqSwing(t)

Next ==
    \E t \in Threads :
        \/ \E v \in Val : EnqCall(t, v)
        \/ EnqNoMemory(t) \/ DeqCall(t)
        \/ EnqStep(t) \/ DeqStep(t) \/ Return(t)

Spec == Init /\ [][Next]_vars

\* The weakest scheduling there is: some thread that is inside a call runs.
\* No single thread is promised the processor.
FairSpec == Spec /\ WF_vars(\E t \in Threads : EnqStep(t) \/ DeqStep(t))
-----------------------------------------------------------------------------
(* What must hold *)

TypeOK ==
    /\ head \in Pointer /\ tail \in Pointer
    /\ next \in [Node -> Pointer]
    /\ val \in [Node -> Val \union {NULL}]
    /\ allocated \subseteq Node
    /\ pc \in [Threads -> Labels]
    /\ newNode \in [Threads -> Node \union {NULL}]
    /\ lhead \in [Threads -> Pointer]
    /\ ltail \in [Threads -> Pointer]
    /\ lnext \in [Threads -> Pointer]
    /\ out \in [Threads -> Val \union {NULL}]
    /\ ret \in [Threads -> BOOLEAN]
    /\ chain \in Seq(Node)
    /\ sawEmpty \in [Threads -> BOOLEAN]

\* The list the nodes form in memory is the order in which they were linked:
\* each points at its successor, the last at nothing, and none occurs twice,
\* so no interleaving of enq's link cas loses, forks or closes the list.
ChainLinked ==
    /\ \A i, j \in 1..Len(chain) : chain[i] = chain[j] => i = j
    /\ \A i \in 1..Len(chain) :
        next[chain[i]].ptr = IF i < Len(chain) THEN chain[i + 1] ELSE NULL

\* The ends point into the list at the position their count says (deq's help
\* writes tail with head's count plus one, so this is not a matter of one
\* assignment), head never overtakes tail, and tail lags by one node at most.
EndsInOrder ==
    /\ head.count <= tail.count
    /\ tail.count < Len(chain)
    /\ Len(chain) <= tail.count + 2
    /\ head.ptr = chain[head.count + 1]
    /\ tail.ptr = chain[tail.count + 1]

\* deq reads next.ptr->val only when next.ptr is a node, although head, tail
\* and next were read at four different moments and none is read again.
NoNullDeref == \A t \in Threads : pc[t] = "d_val" => lnext[t].ptr # NULL

\* p is one of the first k nodes of the list.
Among(p, k) == \E j \in 1..k : chain[j] = p

\* A copy is whole when its pointer is at the position its count says.  A torn
\* one may be (count + 1, old pointer) or (old count, pointer further on).
Whole(copy) == copy.count < Len(chain) /\ copy.ptr = chain[copy.count + 1]

Unlinked(t) == pc[t] \in EnqLabels \ {"e_swing"}

\* The node of an enq is its own until the enq links it.
Private(t) ==
    Unlinked(t) =>
        /\ newNode[t] \in allocated
        /\ next[newNode[t]].ptr = NULL
        /\ ~Among(newNode[t], Len(chain))
        /\ \A u \in Threads \ {t} : Unlinked(u) => newNode[u] # newNode[t]

\* What enq knows about its copies of q->tail and tail.ptr->next.  Between the
\* two comparisons the pointer may still be one of an earlier tail; only when
\* both have succeeded is the copy whole.
EnqKnows(t) ==
    /\ pc[t] \in EnqLabels \ {"e_tail", "e_tc"} => ltail[t].count <= tail.count
    /\ pc[t] \in EnqLabels \ {"e_tail", "e_tp"}
        => Among(ltail[t].ptr, tail.count + 1)
    /\ pc[t] \in {"e_nc", "e_chkc", "e_chkp", "e_link", "e_help"}
        => lnext[t].ptr \in {NULL, next[ltail[t].ptr].ptr}
    /\ pc[t] = "e_chkp" => Among(ltail[t].ptr, ltail[t].count + 1)
    /\ pc[t] \in {"e_link", "e_help", "e_swing"} => Whole(ltail[t])
    /\ pc[t] = "e_link" => lnext[t].ptr = NULL
    /\ pc[t] = "e_help" => lnext[t].ptr # NULL
    /\ pc[t] = "e_swing" =>
        newNode[t] # NULL /\ next[ltail[t].ptr].ptr = newNode[t]

\* What deq knows about its copies of q->head, q->tail and head.ptr->next.
DeqKnows(t) ==
    /\ pc[t] \in DeqLabels \ {"d_head", "d_hc"} => lhead[t].count <= head.count
    /\ pc[t] \in DeqLabels \ {"d_head", "d_hp"}
        => Among(lhead[t].ptr, head.count + 1)
    /\ pc[t] \in {"d_tc", "d_next", "d_nc", "d_np", "d_chkc", "d_chkp",
                  "d_val", "d_cas"}
        => lhead[t].ptr = ltail[t].ptr \/ Among(lhead[t].ptr, tail.count)
    /\ pc[t] \in {"d_nc", "d_chkc", "d_chkp", "d_help", "d_val", "d_cas"}
        => lnext[t].ptr \in {NULL, next[lhead[t].ptr].ptr}
    /\ pc[t] \in {"d_nc", "d_chkc", "d_chkp"} /\ lnext[t].ptr = NULL
        => sawEmpty[t] /\ lhead[t].ptr = ltail[t].ptr
    /\ pc[t] = "d_chkp" => Among(lhead[t].ptr, lhead[t].count + 1)
    /\ pc[t] \in {"d_help", "d_val", "d_cas"} => Whole(lhead[t])
    /\ pc[t] \in {"d_help", "d_val", "d_cas"} => lnext[t].ptr # NULL
    /\ pc[t] = "d_help" => lhead[t].ptr = ltail[t].ptr
    /\ pc[t] \in {"d_val", "d_cas"} => lhead[t].ptr # ltail[t].ptr
    /\ pc[t] = "d_cas" => out[t] = val[lnext[t].ptr]

\* Why the queue is right: what every thread may rely on at every access,
\* whatever the others do.  With the shape of the list it is inductive.
LocalKnowledge ==
    /\ \A j \in 1..Len(chain) : chain[j] \in allocated
    /\ \A t \in Threads : Private(t) /\ EnqKnows(t) /\ DeqKnows(t)

\* No call moves an end backwards, and only one node at a time.
EndsAdvance ==
    [][ /\ head'.count \in {head.count, head.count + 1}
        /\ tail'.count \in {tail.count, tail.count + 1} ]_vars

\* The queue is lock-free: whenever a thread is inside enq or deq, some call
\* completes, whichever thread the scheduler stops for ever.
LockFree ==
    (\E t \in Threads : pc[t] \in EnqLabels \union DeqLabels)
        ~> (\E t \in Threads : pc[t] \in {"enq_ret", "deq_ret"})

\* The queue as its callers see it.
Enqs == [i \in 1..(Len(chain) - 1) |-> val[chain[i + 1]]]

Phase ==
    [t \in Threads |->
        IF Unlinked(t) THEN "enq"
        ELSE IF pc[t] \in {"e_swing", "enq_ret"} THEN "enqRet"
        ELSE IF pc[t] \in DeqLabels THEN "deq"
        ELSE IF pc[t] = "deq_ret" THEN "deqRet" ELSE "idle"]

Arg == [t \in Threads |-> IF Unlinked(t) THEN val[newNode[t]] ELSE NULL]

Res ==
    [t \in Threads |->
        [ok |-> pc[t] = "e_swing" \/ (pc[t] \in {"enq_ret", "deq_ret"} /\ ret[t]),
         val |-> IF pc[t] = "deq_ret" /\ ret[t] THEN out[t] ELSE NULL]]

\* enq and deq are atomic and first-in first-out for their callers: an enq
\* takes effect at the cas that links its node, a deq at the cas that moves
\* head, and a deq that returns false saw the queue empty.
FIFO == INSTANCE FIFOQueue WITH
    enqs <- Enqs, ndeq <- head.count, phase <- Phase, arg <- Arg, res <- Res,
    sawEmpty <- sawEmpty

RefinesFIFO == FIFO!Spec
=============================================================================
