----------------------- MODULE CASLockFreeQueue_proof -----------------------
(***************************************************************************)
(* Proofs about the lock-free queue, for any threads, nodes and values,    *)
(* and about its test bench, for any number of workers and items.          *)
(*                                                                         *)
(* A step of one thread is seen by the others only as Grows: the list      *)
(* keeps its nodes, the ends only move forward, links once made stay.      *)
(* What another thread knows survives Grows (KnowledgeStable), so for each *)
(* action only the knowledge of the thread that takes it is left.          *)
(*                                                                         *)
(* The second part shows that the queue implements the atomic queue        *)
(* FIFOQueue: every step of its code is a step of the atomic queue, or     *)
(* changes nothing that a caller can see.  Only the third part, on the     *)
(* bench, cites the bench's assumption on its constants.                   *)
(*                                                                         *)
(* In the third part a slot is a worker and the number of one of its       *)
(* items.  Which items are in the queue's list and how many have left it   *)
(* are functions of where the workers stand (Filled, Emptied): the list    *)
(* and the count of head have the cardinality of these sets of slots.  A   *)
(* worker in a deq has an item in the list for each of its deqs, this one  *)
(* included, so the list has more items than have left it, and the queue   *)
(* is not empty.  The master's sum is a fold, which FoldIsTotal relates to *)
(* a sum whose changes are easy to follow; Gauss shows that the expected   *)
(* sum is right.                                                           *)
(***************************************************************************)
EXTENDS QueueBench, FiniteSetTheorems, TLAPS

Inv == TypeOK /\ ChainLinked /\ EndsInOrder /\ LocalKnowledge

\* Appending keeps what is there and adds one element at the end.
LEMMA AppendFacts ==
    ASSUME NEW S, NEW s \in Seq(S), NEW x \in S
    PROVE  /\ Append(s, x) \in Seq(S)
           /\ Len(Append(s, x)) = Len(s) + 1
           /\ \A j \in 1..Len(s) : Append(s, x)[j] = s[j]
           /\ Append(s, x)[Len(s) + 1] = x
OBVIOUS

\* The invariant holds of the queue that init_queue returns.
LEMMA InitInv == Init => Inv
<1> SUFFICES ASSUME NEW d \in Node,
                    head = Ptr(d, 0), tail = Ptr(d, 0),
                    next = [n \in Node |-> Ptr(NULL, 0)],
                    val = [n \in Node |-> NULL],
                    allocated = {d}, chain = <<d>>,
                    pc = [t \in Threads |-> "idle"],
                    newNode = [t \in Threads |-> NULL],
                    lhead = [t \in Threads |-> Ptr(NULL, 0)],
                    ltail = [t \in Threads |-> Ptr(NULL, 0)],
                    lnext = [t \in Threads |-> Ptr(NULL, 0)],
                    out = [t \in Threads |-> NULL],
                    ret = [t \in Threads |-> FALSE],
                    sawEmpty = [t \in Threads |-> FALSE]
             PROVE  Inv
  BY DEF Init
<1>1. TypeOK
  BY DEF TypeOK, Pointer, Ptr, Labels
<1>2. ChainLinked /\ EndsInOrder
  BY DEF ChainLinked, EndsInOrder, Ptr
<1>3. LocalKnowledge
  BY DEF LocalKnowledge, Private, Unlinked, EnqKnows, DeqKnows, EnqLabels, DeqLabels
<1> QED BY <1>1, <1>2, <1>3 DEF Inv
-----------------------------------------------------------------------------
(* What a step may do to the shared state *)

Grows ==
    /\ Len(chain) <= Len(chain')
    /\ \A j \in 1..Len(chain) : chain'[j] = chain[j]
    /\ head.count <= head'.count /\ tail.count <= tail'.count
    /\ allocated \subseteq allocated'
    /\ \A n \in allocated :
          /\ val'[n] = val[n]
          /\ next[n].ptr # NULL => next'[n].ptr = next[n].ptr

\* The knowledge of a thread whose variables a step leaves alone.
LEMMA KnowledgeStable ==
    ASSUME Inv, TypeOK', Grows, EndsInOrder', NEW u \in Threads,
           pc'[u] = pc[u], lhead'[u] = lhead[u], ltail'[u] = ltail[u],
           lnext'[u] = lnext[u], newNode'[u] = newNode[u], out'[u] = out[u],
           sawEmpty'[u] = sawEmpty[u]
    PROVE  EnqKnows(u)' /\ DeqKnows(u)'
<1> USE DEF Inv
<1>0. /\ head.count \in Nat /\ tail.count \in Nat
      /\ head'.count \in Nat /\ tail'.count \in Nat
      /\ chain \in Seq(Node) /\ chain' \in Seq(Node)
      /\ Len(chain) \in Nat /\ Len(chain') \in Nat
  BY DEF TypeOK, Pointer
<1>1. ASSUME NEW p, NEW k \in Nat, NEW m \in Nat, k <= Len(chain), k <= m, Among(p, k)
      PROVE  Among(p, m)'
  <2>1. PICK j \in 1..k : chain[j] = p
    BY <1>1 DEF Among
  <2>2. j \in 1..Len(chain) /\ j \in 1..m
    BY <1>0, <1>1
  <2>3. chain'[j] = p
    BY <2>1, <2>2 DEF Grows
  <2> QED BY <2>2, <2>3 DEF Among
<1>2. ASSUME NEW p, NEW k \in Nat, k <= Len(chain), Among(p, k)
      PROVE  p \in allocated
  BY <1>2, <1>0 DEF Among, LocalKnowledge
<1>3. ASSUME NEW c \in Pointer, Whole(c)
      PROVE  Whole(c)'
  <2>1. c.count \in Nat
    BY DEF Pointer
  <2>2. c.count + 1 \in 1..Len(chain) /\ c.count < Len(chain')
    BY <1>0, <1>3, <2>1 DEF Whole, Grows
  <2> QED BY <1>3, <2>2 DEF Whole, Grows
<1>6. /\ lhead[u] \in Pointer /\ ltail[u] \in Pointer /\ lnext[u] \in Pointer
      /\ newNode[u] \in Node \union {NULL}
  BY DEF TypeOK
<1>7. /\ head.count + 1 \in Nat /\ head'.count + 1 \in Nat
      /\ tail.count + 1 \in Nat /\ tail'.count + 1 \in Nat
      /\ head.count + 1 <= Len(chain) /\ tail.count + 1 <= Len(chain)
      /\ head.count + 1 <= head'.count + 1 /\ tail.count + 1 <= tail'.count + 1
      /\ tail.count <= tail'.count /\ tail.count <= Len(chain)
  <2>1. head.count <= head'.count /\ tail.count <= tail'.count
    BY DEF Grows
  <2>2. head.count <= tail.count /\ tail.count < Len(chain)
    BY DEF EndsInOrder
  <2>3. /\ head.count + 1 \in Nat /\ head'.count + 1 \in Nat
        /\ tail.count + 1 \in Nat /\ tail'.count + 1 \in Nat
    BY <1>0
  <2>4. /\ head.count + 1 <= Len(chain) /\ tail.count + 1 <= Len(chain)
        /\ tail.count <= Len(chain)
    BY <1>0, <2>2
  <2>5. head.count + 1 <= head'.count + 1 /\ tail.count + 1 <= tail'.count + 1
    BY <1>0, <2>1
  <2> QED BY <2>1, <2>3, <2>4, <2>5
<1>8. \A p : /\ Among(p, head.count + 1) => Among(p, head.count + 1)' /\ p \in allocated
             /\ Among(p, tail.count + 1) => Among(p, tail.count + 1)' /\ p \in allocated
             /\ Among(p, tail.count) => Among(p, tail.count)'
  <2>1. \A p : Among(p, head.count + 1) => Among(p, head.count + 1)' /\ p \in allocated
    BY <1>7, <1>1, <1>2
  <2>2. \A p : Among(p, tail.count + 1) => Among(p, tail.count + 1)' /\ p \in allocated
    BY <1>7, <1>1, <1>2
  <2>3. \A p : Among(p, tail.count) => Among(p, tail.count)'
    BY <1>7, <1>0, <1>1
  <2> QED BY <2>1, <2>2, <2>3
<1>9. \A p : Among(p, head.count + 1) /\ next[p].ptr # NULL => next[p].ptr \in allocated
  <2> SUFFICES ASSUME NEW j \in 1..(head.count + 1), next[chain[j]].ptr # NULL
               PROVE  next[chain[j]].ptr \in allocated
    BY DEF Among
  <2>1. j \in 1..Len(chain)
    BY <1>0 DEF EndsInOrder
  <2>2. j < Len(chain) /\ next[chain[j]].ptr = chain[j + 1]
    BY <1>0, <2>1 DEF ChainLinked
  <2> QED BY <1>0, <2>1, <2>2 DEF LocalKnowledge
<1>10. EnqKnows(u)'
  <2>1. EnqKnows(u)
    BY DEF LocalKnowledge
  <2>2. (pc[u] \in EnqLabels \ {"e_tail", "e_tc"} => ltail[u].count <= tail.count)'
    <3>1. ltail[u].count \in Nat /\ tail.count <= tail'.count
      BY <1>6, <1>7 DEF Pointer
    <3>2. pc[u] \in EnqLabels \ {"e_tail", "e_tc"} => ltail[u].count <= tail.count
      BY <2>1 DEF EnqKnows
    <3> QED BY <1>0, <3>1, <3>2
  <2>3. pc[u] \in EnqLabels \ {"e_tail", "e_tp"} => ltail[u].ptr \in allocated
    BY <2>1, <1>8 DEF EnqKnows
  <2>4. (pc[u] \in EnqLabels \ {"e_tail", "e_tp"}
          => Among(ltail[u].ptr, tail.count + 1))'
    BY <2>1, <1>8 DEF EnqKnows
  <2>5. (pc[u] \in {"e_nc", "e_chkc", "e_chkp", "e_link", "e_help"}
          => lnext[u].ptr \in {NULL, next[ltail[u].ptr].ptr})'
    BY <2>1, <2>3 DEF EnqKnows, EnqLabels, Grows
  <2>6. (pc[u] = "e_chkp" => Among(ltail[u].ptr, ltail[u].count + 1))'
    <3> SUFFICES ASSUME pc[u] = "e_chkp"
                 PROVE  Among(ltail[u].ptr, ltail[u].count + 1)'
      OBVIOUS
    <3>1. ltail[u].count <= tail.count /\ ltail[u].count \in Nat
          /\ Among(ltail[u].ptr, ltail[u].count + 1)
      BY <2>1, <1>6 DEF EnqKnows, EnqLabels, Pointer
    <3>2. ltail[u].count + 1 \in Nat /\ ltail[u].count + 1 <= Len(chain)
      <4>1. tail.count < Len(chain)
        BY DEF EndsInOrder
      <4> QED BY <1>0, <3>1, <4>1
    <3>3. Among(ltail[u].ptr, ltail[u].count + 1)
          => \E k \in 1..(ltail[u].count + 1) : chain'[k] = ltail[u].ptr
      BY <1>0, <3>2 DEF Among, Grows
    <3> QED BY <3>1, <3>3 DEF Among
  <2>7. (pc[u] \in {"e_link", "e_help", "e_swing"} => Whole(ltail[u]))'
    BY <2>1, <1>3, <1>6 DEF EnqKnows, Whole
  <2>8. (pc[u] = "e_swing" =>
           newNode[u] # NULL /\ next[ltail[u].ptr].ptr = newNode[u])'
    BY <2>1, <2>3 DEF EnqKnows, EnqLabels, Grows
  <2> QED BY <2>1, <2>2, <2>4, <2>5, <2>6, <2>7, <2>8 DEF EnqKnows
<1>11. DeqKnows(u)'
  <2>1. DeqKnows(u)
    BY DEF LocalKnowledge
  <2>2. (pc[u] \in DeqLabels \ {"d_head", "d_hc"} => lhead[u].count <= head.count)'
    <3>1. lhead[u].count \in Nat /\ head.count <= head'.count
      BY <1>6 DEF Grows, Pointer
    <3>2. pc[u] \in DeqLabels \ {"d_head", "d_hc"} => lhead[u].count <= head.count
      BY <2>1 DEF DeqKnows
    <3> QED BY <1>0, <3>1, <3>2
  <2>3. pc[u] \in DeqLabels \ {"d_head", "d_hp"} => lhead[u].ptr \in allocated
    BY <2>1, <1>8 DEF DeqKnows
  <2>4. (pc[u] \in DeqLabels \ {"d_head", "d_hp"}
          => Among(lhead[u].ptr, head.count + 1))'
    BY <2>1, <1>8 DEF DeqKnows
  <2>5. (pc[u] \in {"d_tc", "d_next", "d_nc", "d_np", "d_chkc", "d_chkp",
                   "d_val", "d_cas"}
          => lhead[u].ptr = ltail[u].ptr \/ Among(lhead[u].ptr, tail.count))'
    BY <2>1, <1>8 DEF DeqKnows
  <2>6. (pc[u] \in {"d_nc", "d_chkc", "d_chkp", "d_help", "d_val", "d_cas"}
          => lnext[u].ptr \in {NULL, next[lhead[u].ptr].ptr})'
    BY <2>1, <2>3 DEF DeqKnows, Grows, DeqLabels
  <2>7. (pc[u] = "d_chkp" => Among(lhead[u].ptr, lhead[u].count + 1))'
    <3> SUFFICES ASSUME pc[u] = "d_chkp"
                 PROVE  Among(lhead[u].ptr, lhead[u].count + 1)'
      OBVIOUS
    <3>1. lhead[u].count <= head.count /\ lhead[u].count \in Nat
          /\ Among(lhead[u].ptr, lhead[u].count + 1)
      BY <2>1, <1>6 DEF DeqKnows, DeqLabels, Pointer
    <3>2. lhead[u].count + 1 \in Nat /\ lhead[u].count + 1 <= Len(chain)
      <4>1. head.count < Len(chain)
        BY <1>0 DEF EndsInOrder
      <4> QED BY <1>0, <3>1, <4>1
    <3>3. Among(lhead[u].ptr, lhead[u].count + 1)
          => \E k \in 1..(lhead[u].count + 1) : chain'[k] = lhead[u].ptr
      BY <1>0, <3>2 DEF Among, Grows
    <3> QED BY <3>1, <3>3 DEF Among
  <2>8. (pc[u] \in {"d_help", "d_val", "d_cas"} => Whole(lhead[u]))'
    BY <2>1, <1>3, <1>6 DEF DeqKnows, Whole
  <2>9. (pc[u] = "d_cas" => out[u] = val[lnext[u].ptr])'
    <3>1. pc[u] = "d_cas" => lnext[u].ptr \in allocated
      BY <2>1, <1>9 DEF DeqKnows, DeqLabels
    <3> QED BY <2>1, <3>1 DEF DeqKnows, Grows
  <2> QED BY <2>1, <2>2, <2>4, <2>5, <2>6, <2>7, <2>8, <2>9 DEF DeqKnows
<1> QED BY <1>10, <1>11
-----------------------------------------------------------------------------
(* Putting the pieces of a step of t together *)

Frame(t) ==
    \A u \in Threads \ {t} :
        /\ pc'[u] = pc[u] /\ newNode'[u] = newNode[u]
        /\ lhead'[u] = lhead[u] /\ ltail'[u] = ltail[u] /\ lnext'[u] = lnext[u]
        /\ out'[u] = out[u] /\ sawEmpty'[u] = sawEmpty[u]

\* What is left to show of a step that changes shared state.
LEMMA StepInv ==
    ASSUME Inv, NEW t \in Threads, Frame(t),
           TypeOK', Grows, ChainLinked', EndsInOrder',
           (\A j \in 1..Len(chain) : chain[j] \in allocated)',
           \A u \in Threads : Private(u)', EnqKnows(t)', DeqKnows(t)'
    PROVE  Inv'
<1>1. ASSUME NEW u \in Threads, u # t
      PROVE  EnqKnows(u)' /\ DeqKnows(u)'
  BY <1>1, KnowledgeStable DEF Frame
<1> QED BY <1>1 DEF Inv, LocalKnowledge

\* A step that changes neither nodes nor list, and starts no enq, leaves every
\* node that is still private so.
LEMMA PrivateStable ==
    ASSUME Inv, NEW t \in Threads, Frame(t), UNCHANGED <<next, allocated, chain>>,
           Unlinked(t)' => Unlinked(t) /\ newNode'[t] = newNode[t]
    PROVE  /\ (\A j \in 1..Len(chain) : chain[j] \in allocated)'
           /\ \A u \in Threads : Private(u)'
<1>1. \A w \in Threads : Unlinked(w)' => Unlinked(w) /\ newNode'[w] = newNode[w]
  BY DEF Frame, Unlinked
<1>2. ASSUME NEW u \in Threads PROVE Private(u)'
  <2>1. Private(u)
    BY DEF Inv, LocalKnowledge
  <2> SUFFICES ASSUME Unlinked(u)'
               PROVE  /\ newNode'[u] \in allocated'
                      /\ next'[newNode'[u]].ptr = NULL
                      /\ ~Among(newNode[u], Len(chain))'
                      /\ \A w \in Threads \ {u} :
                            Unlinked(w)' => newNode'[w] # newNode'[u]
    BY DEF Private
  <2>2. Unlinked(u) /\ newNode'[u] = newNode[u]
    BY <1>1
  <2>3. ~Among(newNode[u], Len(chain))'
    BY <2>1, <2>2 DEF Private, Among
  <2> QED BY <1>1, <2>1, <2>2, <2>3 DEF Private
<1>3. (\A j \in 1..Len(chain) : chain[j] \in allocated)'
  BY DEF Inv, LocalKnowledge
<1> QED BY <1>2, <1>3

\* A step that leaves the shared state alone and starts no enq.
LEMMA QuietStepInv ==
    ASSUME Inv, NEW t \in Threads, Frame(t), TypeOK', UNCHANGED shared,
           Unlinked(t)' => Unlinked(t) /\ newNode'[t] = newNode[t],
           EnqKnows(t)', DeqKnows(t)'
    PROVE  Inv'
<1>1. Len(chain) \in Nat /\ head.count \in Nat /\ tail.count \in Nat
  BY DEF Inv, TypeOK, Pointer
<1>2. Grows
  BY <1>1 DEF Grows, shared
<1>3. ChainLinked' /\ EndsInOrder'
  BY DEF Inv, ChainLinked, EndsInOrder, shared
<1>4. /\ (\A j \in 1..Len(chain) : chain[j] \in allocated)'
      /\ \A u \in Threads : Private(u)'
  BY PrivateStable DEF shared
<1> QED BY <1>2, <1>3, <1>4, StepInv

-----------------------------------------------------------------------------
(* The shape of the list *)

\* Where the ends are, and that the nodes of the list are nodes.
LEMMA Basics ==
    ASSUME Inv
    PROVE  /\ chain \in Seq(Node) /\ Len(chain) \in Nat
           /\ head.count \in Nat /\ tail.count \in Nat
           /\ head.count <= tail.count /\ tail.count < Len(chain)
           /\ Len(chain) <= tail.count + 2
           /\ \A j \in 1..Len(chain) : chain[j] \in Node /\ chain[j] \in allocated
           /\ \A p : Among(p, Len(chain)) => p \in Node /\ p \in allocated
           /\ \A p : Among(p, head.count + 1) => Among(p, Len(chain))
           /\ \A p : Among(p, tail.count) => Among(p, Len(chain))
           /\ \A p : Among(p, tail.count + 1) => Among(p, Len(chain))
<1>1. /\ chain \in Seq(Node) /\ Len(chain) \in Nat
      /\ head.count \in Nat /\ tail.count \in Nat
  BY DEF Inv, TypeOK, Pointer
<1>2. /\ head.count <= tail.count /\ tail.count < Len(chain)
      /\ Len(chain) <= tail.count + 2
  BY DEF Inv, EndsInOrder
<1>3. \A j \in 1..Len(chain) : chain[j] \in Node /\ chain[j] \in allocated
  BY <1>1 DEF Inv, LocalKnowledge
<1>4. \A p : Among(p, Len(chain)) => p \in Node /\ p \in allocated
  BY <1>3 DEF Among
<1>5. \A p : Among(p, head.count + 1) => Among(p, Len(chain))
  BY <1>1, <1>2 DEF Among
<1>6. \A p : Among(p, tail.count) => Among(p, Len(chain))
  BY <1>1, <1>2 DEF Among
<1>7. \A p : Among(p, tail.count + 1) => Among(p, Len(chain))
  BY <1>1, <1>2 DEF Among
<1> QED BY <1>1, <1>2, <1>3, <1>4, <1>5, <1>6, <1>7

\* The node after the one at a position, and the position of a node with a
\* successor or without one.
LEMMA Links ==
    ASSUME Inv, NEW k \in Nat, k < Len(chain)
    PROVE  LET p == chain[k + 1] IN
           /\ p \in Node
           /\ next[p].ptr = NULL => k + 1 = Len(chain)
           /\ next[p].ptr # NULL =>
                 k + 1 < Len(chain) /\ next[p].ptr = chain[k + 2]
           /\ \A j \in 1..Len(chain) : chain[j] = p => j = k + 1
<1>1. Len(chain) \in Nat /\ k + 1 \in 1..Len(chain)
  BY Basics
<1>2. next[chain[k + 1]].ptr =
          IF k + 1 < Len(chain) THEN chain[(k + 1) + 1] ELSE NULL
  BY <1>1 DEF Inv, ChainLinked
<1>3. k + 1 < Len(chain) => chain[(k + 1) + 1] # NULL
  BY <1>1, Basics, NullAssumption
<1>4. \A j \in 1..Len(chain) : chain[j] = chain[k + 1] => j = k + 1
  BY <1>1 DEF Inv, ChainLinked
<1> QED BY <1>1, <1>2, <1>3, <1>4, Basics
-----------------------------------------------------------------------------
(* enq *)

\* A copy whose two comparisons succeed is whole, however torn it was between
\* them: its pointer is no further than its count says and the pointer of an end
\* that has moved on at least as far as its count says.
LEMMA Confirmed ==
    ASSUME Inv, NEW c \in Pointer, NEW k \in Nat, k < Len(chain),
           c.count <= k, c.ptr = chain[k + 1], Among(c.ptr, c.count + 1)
    PROVE  Whole(c) /\ c.count = k
<1>1. c.count \in Nat /\ Len(chain) \in Nat
  BY Basics DEF Pointer
<1>2. PICK j \in 1..(c.count + 1) : chain[j] = c.ptr
  BY DEF Among
<1>3. j \in 1..Len(chain) /\ k + 1 \in 1..Len(chain)
  BY <1>1
<1>4. j = k + 1
  BY <1>2, <1>3, Links
<1>5. c.count = k
  BY <1>1, <1>4
<1> QED BY <1>5 DEF Whole

LEMMA EnqReadTailCountInv ==
    ASSUME Inv, NEW t \in Threads, EnqReadTailCount(t) PROVE Inv'
<1> USE DEF EnqReadTailCount, LoadWord
<1>1. TypeOK'
  BY DEF Inv, TypeOK, Goto, Labels, EnqLabels, shared, Pointer
<1>2. Frame(t) /\ UNCHANGED shared /\ newNode' = newNode
      /\ ltail'[t].count = tail.count /\ ltail'[t].ptr = ltail[t].ptr
      /\ \/ pc[t] = "e_tail" /\ pc'[t] = "e_tp"
         \/ pc[t] = "e_tc" /\ pc'[t] = "e_next"
  BY DEF Inv, TypeOK, Goto, Frame, Pointer
<1>3. EnqKnows(t)
  BY DEF Inv, LocalKnowledge
<1>4. EnqKnows(t)' /\ DeqKnows(t)'
  BY <1>2, <1>3, Basics DEF EnqKnows, DeqKnows, EnqLabels, DeqLabels, shared, Among
<1> QED BY <1>1, <1>2, <1>4, QuietStepInv DEF Unlinked, EnqLabels

LEMMA EnqReadTailPtrInv ==
    ASSUME Inv, NEW t \in Threads, EnqReadTailPtr(t) PROVE Inv'
<1> USE DEF EnqReadTailPtr, LoadWord
<1>1. TypeOK'
  BY DEF Inv, TypeOK, Goto, Labels, EnqLabels, shared, Pointer
<1>2. Frame(t) /\ UNCHANGED shared /\ newNode' = newNode
      /\ ltail'[t].count = ltail[t].count /\ ltail'[t].ptr = tail.ptr
      /\ \/ pc[t] = "e_tail" /\ pc'[t] = "e_tc"
         \/ pc[t] = "e_tp" /\ pc'[t] = "e_next"
  BY DEF Inv, TypeOK, Goto, Frame, Pointer
<1>3. EnqKnows(t)
  BY DEF Inv, LocalKnowledge
<1>4. Among(tail.ptr, tail.count + 1)
  <2>1. tail.ptr = chain[tail.count + 1] /\ tail.count + 1 \in 1..(tail.count + 1)
    BY Basics DEF Inv, EndsInOrder
  <2> QED BY <2>1 DEF Among
<1>5. EnqKnows(t)' /\ DeqKnows(t)'
  BY <1>2, <1>3, <1>4 DEF EnqKnows, DeqKnows, EnqLabels, DeqLabels, shared, Among
<1> QED BY <1>1, <1>2, <1>5, QuietStepInv DEF Unlinked, EnqLabels

LEMMA EnqReadNextCountInv ==
    ASSUME Inv, NEW t \in Threads, EnqReadNextCount(t) PROVE Inv'
<1> USE DEF EnqReadNextCount, LoadWord
<1>1. EnqKnows(t) /\ ltail[t].ptr \in Node
  BY Basics DEF Inv, LocalKnowledge, EnqKnows, EnqLabels
<1>2. TypeOK'
  BY <1>1 DEF Inv, TypeOK, Goto, Labels, EnqLabels, shared, Pointer
<1>3. Frame(t) /\ UNCHANGED shared /\ newNode' = newNode /\ ltail' = ltail
      /\ lnext'[t].ptr = lnext[t].ptr
      /\ \/ pc[t] = "e_next" /\ pc'[t] = "e_np"
         \/ pc[t] = "e_nc" /\ pc'[t] = "e_chkc"
  BY DEF Inv, TypeOK, Goto, Frame, Pointer
<1>4. EnqKnows(t)' /\ DeqKnows(t)'
  BY <1>1, <1>3 DEF EnqKnows, DeqKnows, EnqLabels, DeqLabels, shared, Among
<1> QED BY <1>2, <1>3, <1>4, QuietStepInv DEF Unlinked, EnqLabels

LEMMA EnqReadNextPtrInv ==
    ASSUME Inv, NEW t \in Threads, EnqReadNextPtr(t) PROVE Inv'
<1> USE DEF EnqReadNextPtr, LoadWord
<1>1. EnqKnows(t) /\ ltail[t].ptr \in Node
  BY Basics DEF Inv, LocalKnowledge, EnqKnows, EnqLabels
<1>2. TypeOK'
  BY <1>1 DEF Inv, TypeOK, Goto, Labels, EnqLabels, shared, Pointer
<1>3. Frame(t) /\ UNCHANGED shared /\ newNode' = newNode /\ ltail' = ltail
      /\ lnext'[t].ptr = next[ltail[t].ptr].ptr
      /\ \/ pc[t] = "e_next" /\ pc'[t] = "e_nc"
         \/ pc[t] = "e_np" /\ pc'[t] = "e_chkc"
  BY DEF Inv, TypeOK, Goto, Frame, Pointer
<1>4. EnqKnows(t)' /\ DeqKnows(t)'
  BY <1>1, <1>3 DEF EnqKnows, DeqKnows, EnqLabels, DeqLabels, shared, Among
<1> QED BY <1>2, <1>3, <1>4, QuietStepInv DEF Unlinked, EnqLabels

\* Once the count is confirmed the pointer is no further than the count says.
LEMMA EnqCheckCountInv ==
    ASSUME Inv, NEW t \in Threads, EnqCheckCount(t) PROVE Inv'
<1> USE DEF EnqCheckCount
<1>1. EnqKnows(t)
  BY DEF Inv, LocalKnowledge
<1>2. TypeOK'
  BY DEF Inv, TypeOK, Goto, Labels, EnqLabels, shared, locals
<1>3. Frame(t) /\ UNCHANGED <<shared, locals>> /\ pc[t] = "e_chkc"
      /\ pc'[t] = IF ltail[t].count = tail.count THEN "e_chkp" ELSE "e_tail"
  BY DEF Inv, TypeOK, Goto, Frame, locals
<1>4. EnqKnows(t)' /\ DeqKnows(t)'
  BY <1>1, <1>3 DEF EnqKnows, DeqKnows, EnqLabels, DeqLabels, shared, locals, Among
<1> QED BY <1>2, <1>3, <1>4, QuietStepInv DEF Unlinked, EnqLabels, locals

LEMMA EnqCheckPtrInv ==
    ASSUME Inv, NEW t \in Threads, EnqCheckPtr(t) PROVE Inv'
<1> USE DEF EnqCheckPtr
<1>1. EnqKnows(t)
  BY DEF Inv, LocalKnowledge
<1>2. TypeOK'
  BY DEF Inv, TypeOK, Goto, Labels, EnqLabels, shared, locals
<1>3. Frame(t) /\ UNCHANGED <<shared, locals>> /\ pc[t] = "e_chkp"
      /\ pc'[t] \in {"e_tail", "e_link", "e_help"}
      /\ (pc'[t] = "e_link" => lnext[t].ptr = NULL)
      /\ (pc'[t] = "e_help" => lnext[t].ptr # NULL)
      /\ (pc'[t] # "e_tail" => ltail[t].ptr = tail.ptr)
  BY DEF Inv, TypeOK, Goto, Frame, locals
<1>4. ltail[t].ptr = tail.ptr => Whole(ltail[t])
  <2>1. ltail[t] \in Pointer
    BY DEF Inv, TypeOK
  <2>2. ltail[t].count <= tail.count /\ Among(ltail[t].ptr, ltail[t].count + 1)
    BY <1>1, <1>3 DEF EnqKnows, EnqLabels
  <2>3. tail.ptr = chain[tail.count + 1]
    BY DEF Inv, EndsInOrder
  <2> QED BY <2>1, <2>2, <2>3, Confirmed, Basics
<1>5. EnqKnows(t)' /\ DeqKnows(t)'
  BY <1>1, <1>3, <1>4 DEF EnqKnows, DeqKnows, EnqLabels, DeqLabels, shared, locals, Among, Whole
<1> QED BY <1>2, <1>3, <1>5, QuietStepInv DEF Unlinked, EnqLabels, locals

\* A step that at most moves tail to the next node of the list.
LEMMA TailStepInv ==
    ASSUME Inv, NEW t \in Threads, Frame(t), TypeOK',
           UNCHANGED <<head, next, val, allocated, chain>>,
           \/ tail' = tail
           \/ /\ tail.count + 1 < Len(chain)
              /\ tail'.count = tail.count + 1
              /\ tail'.ptr = chain[tail.count + 2],
           Unlinked(t)' => Unlinked(t) /\ newNode'[t] = newNode[t],
           EnqKnows(t)', DeqKnows(t)'
    PROVE  Inv'
<1>1. Grows
  BY Basics DEF Grows
<1>2. ChainLinked'
  BY DEF Inv, ChainLinked
<1>3. EndsInOrder'
  <2>1. CASE tail' = tail
    BY <2>1 DEF Inv, EndsInOrder
  <2>2. CASE tail' # tail
    <3>1. /\ tail.count + 1 < Len(chain) /\ tail'.count = tail.count + 1
          /\ tail'.ptr = chain[(tail.count + 1) + 1]
      BY <2>2, Basics
    <3>2. head.ptr = chain[head.count + 1]
      BY DEF Inv, EndsInOrder
    <3> QED BY <3>1, <3>2, Basics DEF EndsInOrder
  <2> QED BY <2>1, <2>2
<1>4. /\ (\A j \in 1..Len(chain) : chain[j] \in allocated)'
      /\ \A u \in Threads : Private(u)'
  BY PrivateStable
<1> QED BY <1>1, <1>2, <1>3, <1>4, StepInv

LEMMA EnqHelpInv ==
    ASSUME Inv, NEW t \in Threads, EnqHelp(t) PROVE Inv'
<1> USE DEF EnqHelp
<1>1. EnqKnows(t)
  BY DEF Inv, LocalKnowledge
<1>2. /\ ltail[t] \in Pointer /\ lnext[t] \in Pointer
      /\ ltail[t].count \in Nat /\ lnext[t].ptr \in Node \union {NULL}
  BY DEF Inv, TypeOK, Pointer
<1>3. TypeOK'
  BY <1>2 DEF Inv, TypeOK, Goto, Labels, EnqLabels, locals, Cas, Ptr, Pointer
<1>4. Frame(t) /\ UNCHANGED <<head, next, val, allocated, chain, locals>>
      /\ pc[t] = "e_help" /\ pc'[t] = "e_tail"
  BY DEF Inv, TypeOK, Goto, Frame, locals
<1>5. \/ tail' = tail
      \/ /\ tail.count + 1 < Len(chain)
         /\ tail'.count = tail.count + 1
         /\ tail'.ptr = chain[tail.count + 2]
  <2>1. Whole(ltail[t]) /\ lnext[t].ptr # NULL
        /\ lnext[t].ptr = next[ltail[t].ptr].ptr
    BY <1>1 DEF EnqKnows, EnqLabels
  <2>2. ltail[t].count + 1 < Len(chain) /\ lnext[t].ptr = chain[ltail[t].count + 2]
    BY <1>2, <2>1, Links DEF Whole
  <2> QED BY <2>2 DEF Cas, Ptr
<1>6. EnqKnows(t)' /\ DeqKnows(t)'
  BY <1>4 DEF EnqKnows, DeqKnows, EnqLabels, DeqLabels
<1> QED BY <1>3, <1>4, <1>5, <1>6, TailStepInv DEF Unlinked, EnqLabels, locals

LEMMA EnqSwingInv ==
    ASSUME Inv, NEW t \in Threads, EnqSwing(t) PROVE Inv'
<1> USE DEF EnqSwing
<1>1. EnqKnows(t)
  BY DEF Inv, LocalKnowledge
<1>2. /\ ltail[t] \in Pointer /\ ltail[t].count \in Nat
      /\ newNode[t] \in Node \union {NULL}
  BY DEF Inv, TypeOK, Pointer
<1>3. TypeOK'
  BY <1>2 DEF Inv, TypeOK, Goto, Labels, EnqLabels, Cas, Ptr, Pointer
<1>4. Frame(t) /\ UNCHANGED <<head, next, val, allocated, chain>>
      /\ pc[t] = "e_swing" /\ pc'[t] = "enq_ret"
  BY DEF Inv, TypeOK, Goto, Frame
<1>5. \/ tail' = tail
      \/ /\ tail.count + 1 < Len(chain)
         /\ tail'.count = tail.count + 1
         /\ tail'.ptr = chain[tail.count + 2]
  <2>1. Whole(ltail[t]) /\ newNode[t] # NULL
        /\ newNode[t] = next[ltail[t].ptr].ptr
    BY <1>1 DEF EnqKnows, EnqLabels
  <2>2. ltail[t].count + 1 < Len(chain) /\ newNode[t] = chain[ltail[t].count + 2]
    BY <1>2, <2>1, Links DEF Whole
  <2> QED BY <2>2 DEF Cas, Ptr
<1>6. EnqKnows(t)' /\ DeqKnows(t)'
  BY <1>4 DEF EnqKnows, DeqKnows, EnqLabels, DeqLabels
<1> QED BY <1>3, <1>4, <1>5, <1>6, TailStepInv DEF Unlinked, EnqLabels

\* A node fresh from calloc is nobody else's and not in the list.
LEMMA EnqCallInv ==
    ASSUME Inv, NEW t \in Threads, NEW v \in Val, EnqCall(t, v) PROVE Inv'
<1>1. PICK n \in Node \ allocated :
        /\ allocated' = allocated \union {n}
        /\ val' = [val EXCEPT ![n] = v]
        /\ next' = [next EXCEPT ![n] = Ptr(NULL, 0)]
        /\ newNode' = [newNode EXCEPT ![t] = n]
  BY DEF EnqCall
<1>2. pc[t] = "idle" /\ pc' = [pc EXCEPT ![t] = "e_tail"]
      /\ UNCHANGED <<head, tail, chain, lhead, ltail, lnext, out, ret, sawEmpty>>
  BY DEF EnqCall, Goto
<1>3. TypeOK'
  BY <1>1, <1>2 DEF Inv, TypeOK, Labels, EnqLabels, Ptr, Pointer
<1>4. Frame(t) /\ pc'[t] = "e_tail" /\ newNode'[t] = n
  BY <1>1, <1>2 DEF Inv, TypeOK, Frame
<1>5. /\ \A m \in allocated : val'[m] = val[m] /\ next'[m] = next[m]
      /\ next'[n].ptr = NULL
  BY <1>1 DEF Inv, TypeOK, Ptr
<1>6. Grows
  BY <1>1, <1>2, <1>5, Basics DEF Grows
<1>7. ChainLinked'
  BY <1>2, <1>5, Basics DEF Inv, ChainLinked
<1>8. EndsInOrder'
  BY <1>2 DEF Inv, EndsInOrder
<1>9. (\A j \in 1..Len(chain) : chain[j] \in allocated)'
  BY <1>1, <1>2, Basics
<1>10. ASSUME NEW u \in Threads PROVE Private(u)'
  <2>1. ~Among(n, Len(chain))'
    BY <1>1, <1>2, Basics DEF Among
  <2>2. \A w \in Threads \ {t} : Unlinked(w)' =>
            /\ newNode'[w] = newNode[w] /\ newNode[w] \in allocated
            /\ next[newNode[w]].ptr = NULL /\ ~Among(newNode[w], Len(chain))
            /\ \A x \in Threads \ {w} : Unlinked(x) => newNode[x] # newNode[w]
            /\ Unlinked(w)
    BY <1>4 DEF Inv, LocalKnowledge, Private, Unlinked, Frame
  <2>3. CASE u = t
    BY <1>1, <1>4, <1>5, <2>1, <2>2, <2>3 DEF Private
  <2>4. CASE u # t
    <3> SUFFICES ASSUME Unlinked(u)' PROVE Private(u)'
      BY DEF Private
    <3>1. ~Among(newNode[u], Len(chain))'
      BY <1>2, <2>2, <2>4 DEF Among
    <3> QED BY <1>1, <1>4, <1>5, <2>2, <2>4, <3>1 DEF Private
  <2> QED BY <2>3, <2>4
<1>11. EnqKnows(t)' /\ DeqKnows(t)'
  BY <1>4 DEF EnqKnows, DeqKnows, EnqLabels, DeqLabels
<1> QED BY <1>3, <1>4, <1>6, <1>7, <1>8, <1>9, <1>10, <1>11, StepInv

LEMMA EnqNoMemoryInv ==
    ASSUME Inv, NEW t \in Threads, EnqNoMemory(t) PROVE Inv'
<1> USE DEF EnqNoMemory
<1>1. TypeOK'
  BY DEF Inv, TypeOK, Goto, Labels, shared
<1>2. Frame(t) /\ UNCHANGED shared /\ pc'[t] = "enq_ret"
  BY DEF Inv, TypeOK, Goto, Frame
<1>3. EnqKnows(t)' /\ DeqKnows(t)'
  BY <1>2 DEF EnqKnows, DeqKnows, EnqLabels, DeqLabels
<1> QED BY <1>1, <1>2, <1>3, QuietStepInv DEF Unlinked, EnqLabels

\* The link cas: it succeeds only on the last node, and only for a node that
\* is in nobody else's hands.
LEMMA EnqLinkInv ==
    ASSUME Inv, NEW t \in Threads, EnqLink(t) PROVE Inv'
<1>1. EnqKnows(t) /\ Private(t)
  BY DEF Inv, LocalKnowledge
<1>2. /\ pc[t] = "e_link" /\ lnext[t].ptr = NULL
      /\ ltail[t] \in Pointer /\ ltail[t].count \in Nat
      /\ lnext[t] \in Pointer /\ lnext[t].count + 1 \in Nat
      /\ Whole(ltail[t]) /\ ltail[t].count <= tail.count
      /\ ltail[t].ptr \in Node /\ newNode[t] \in Node /\ newNode[t] \in allocated
      /\ next[newNode[t]].ptr = NULL /\ ~Among(newNode[t], Len(chain))
  <2>1. pc[t] = "e_link"
    BY DEF EnqLink
  <2>2. /\ ltail[t] \in Pointer /\ ltail[t].count \in Nat
        /\ lnext[t] \in Pointer /\ lnext[t].count + 1 \in Nat
    BY DEF Inv, TypeOK, Pointer
  <2>3. /\ Unlinked(t) /\ newNode[t] \in allocated
        /\ next[newNode[t]].ptr = NULL /\ ~Among(newNode[t], Len(chain))
    BY <1>1, <2>1 DEF Private, Unlinked, EnqLabels
  <2>4. /\ lnext[t].ptr = NULL /\ Whole(ltail[t]) /\ ltail[t].count <= tail.count
        /\ ltail[t].ptr \in Node
    BY <1>1, <2>1, Basics DEF EnqKnows, EnqLabels
  <2>5. newNode[t] \in Node
    BY <2>3 DEF Inv, TypeOK
  <2> QED BY <2>1, <2>2, <2>3, <2>4, <2>5
<1>3. /\ UNCHANGED <<head, tail, val, allocated, locals>>
      /\ pc' = [pc EXCEPT ![t] = IF next[ltail[t].ptr] = lnext[t]
                                 THEN "e_swing" ELSE "e_tail"]
  BY DEF EnqLink, Goto
<1>4. Frame(t)
  BY <1>3 DEF Inv, TypeOK, Frame, locals
<1>5. CASE next[ltail[t].ptr] # lnext[t]
  <2>1. next' = next /\ chain' = chain /\ pc' = [pc EXCEPT ![t] = "e_tail"]
    BY <1>2, <1>3, <1>5 DEF EnqLink, Cas, Inv, TypeOK
  <2>2. TypeOK'
    BY <1>3, <2>1 DEF Inv, TypeOK, Labels, EnqLabels, locals
  <2>3. pc'[t] = "e_tail"
    BY <2>1 DEF Inv, TypeOK
  <2>4. EnqKnows(t)' /\ DeqKnows(t)'
    BY <2>3 DEF EnqKnows, DeqKnows, EnqLabels, DeqLabels
  <2> QED BY <1>2, <1>3, <1>4, <2>1, <2>2, <2>3, <2>4, QuietStepInv
          DEF shared, locals, Unlinked, EnqLabels
<1>6. CASE next[ltail[t].ptr] = lnext[t]
  <2> DEFINE p == ltail[t].ptr
             n == newNode[t]
  <2>1. /\ next' = [next EXCEPT ![p] = Ptr(n, lnext[t].count + 1)]
        /\ chain' = Append(chain, n)
        /\ pc' = [pc EXCEPT ![t] = "e_swing"]
    BY <1>2, <1>3, <1>6 DEF EnqLink, Cas, Inv, TypeOK
  <2>2. TypeOK'
    <3>1. chain' \in Seq(Node)
      BY <1>2, <2>1, Basics, AppendFacts
    <3>2. Ptr(n, lnext[t].count + 1) \in Pointer
      BY <1>2 DEF Ptr, Pointer
    <3> QED BY <1>3, <2>1, <3>1, <3>2 DEF Inv, TypeOK, Labels, EnqLabels, locals
  <2>3. /\ Len(chain') = Len(chain) + 1
        /\ \A j \in 1..Len(chain) : chain'[j] = chain[j]
        /\ chain'[Len(chain) + 1] = n
    BY <1>2, <2>1, Basics, AppendFacts
  <2>4. p = chain[Len(chain)] /\ ltail[t].count + 1 = Len(chain)
    <3>1. next[p].ptr = NULL /\ p = chain[ltail[t].count + 1]
          /\ ltail[t].count < Len(chain)
      BY <1>2, <1>6 DEF Whole
    <3> QED BY <1>2, <3>1, Links
  <2>5. tail.count + 1 = Len(chain)
    BY <1>2, <2>4, Basics
  <2>6. /\ next'[p].ptr = n /\ n # p
        /\ \A m \in Node \ {p} : next'[m] = next[m]
    <3>1. Among(p, Len(chain))
      BY <2>4, Basics DEF Among
    <3> QED BY <1>2, <2>1, <3>1 DEF Inv, TypeOK, Ptr
  <2>7. Grows
    <3>1. Len(chain) <= Len(chain')
      BY <2>3, Basics
    <3>2. next[p].ptr = NULL
      BY <1>2, <1>6
    <3>3. \A m \in allocated : next[m].ptr # NULL => next'[m].ptr = next[m].ptr
      BY <2>6, <3>2 DEF Inv, TypeOK
    <3>4. head.count <= head'.count /\ tail.count <= tail'.count
      BY <1>3, Basics
    <3> QED BY <1>3, <2>3, <3>1, <3>3, <3>4 DEF Grows
  <2>8. ChainLinked'
    <3>1. \A j \in 1..Len(chain) : chain[j] # n
      BY <1>2 DEF Among
    <3>2. \A k, j \in 1..Len(chain') : chain'[k] = chain'[j] => k = j
      <4>1. \A k, j \in 1..Len(chain) : chain[k] = chain[j] => k = j
        BY DEF Inv, ChainLinked
      <4>2. \A k \in 1..Len(chain') : k \in 1..Len(chain) \/ k = Len(chain) + 1
        BY <2>3, Basics
      <4> QED BY <2>3, <3>1, <4>1, <4>2
    <3>3. ASSUME NEW k \in 1..Len(chain')
          PROVE  next'[chain'[k]].ptr =
                     IF k < Len(chain') THEN chain'[k + 1] ELSE NULL
      <4>1. CASE k = Len(chain) + 1
        <5>1. chain'[k] = n /\ next'[n] = next[n] /\ ~(k < Len(chain'))
          BY <1>2, <2>3, <2>6, <4>1, Basics
        <5> QED BY <1>2, <5>1
      <4>2. CASE k = Len(chain)
        <5>1. chain'[k] = p /\ chain'[k + 1] = n /\ k < Len(chain')
          BY <2>3, <2>4, <4>2, Basics
        <5> QED BY <2>6, <5>1
      <4>3. CASE k \in 1..Len(chain) /\ k # Len(chain)
        <5>1. /\ k < Len(chain) /\ k + 1 \in 1..Len(chain) /\ k < Len(chain')
              /\ chain'[k] = chain[k] /\ chain'[k + 1] = chain[k + 1]
          BY <2>3, <4>3, Basics
        <5>2. chain[k] # p /\ chain[k] \in Node
          BY <2>4, <4>3, Basics DEF Inv, ChainLinked
        <5>3. next[chain[k]].ptr = chain[k + 1]
          BY <4>3, <5>1 DEF Inv, ChainLinked
        <5> QED BY <2>6, <5>1, <5>2, <5>3
      <4> QED BY <2>3, <4>1, <4>2, <4>3, Basics
    <3> QED BY <3>2, <3>3 DEF ChainLinked
  <2>9. EndsInOrder'
    <3>1. head.ptr = chain[head.count + 1] /\ tail.ptr = chain[tail.count + 1]
      BY DEF Inv, EndsInOrder
    <3>2. head.count + 1 \in 1..Len(chain) /\ tail.count + 1 \in 1..Len(chain)
      BY Basics
    <3>3. chain'[head.count + 1] = head.ptr /\ chain'[tail.count + 1] = tail.ptr
      BY <2>3, <3>1, <3>2
    <3>4. /\ head.count <= tail.count /\ tail.count < Len(chain')
          /\ Len(chain') <= tail.count + 2
      BY <2>3, <2>5, Basics
    <3> QED BY <1>3, <3>3, <3>4 DEF EndsInOrder
  <2>10. (\A j \in 1..Len(chain) : chain[j] \in allocated)'
    <3>1. ASSUME NEW j \in 1..Len(chain') PROVE chain'[j] \in allocated
      <4>1. j \in 1..Len(chain) \/ j = Len(chain) + 1
        BY <2>3, Basics
      <4> QED BY <1>2, <2>3, <4>1, Basics
    <3> QED BY <1>3, <3>1
  <2>11. pc'[t] = "e_swing"
    BY <2>1 DEF Inv, TypeOK
  <2>12. ASSUME NEW u \in Threads PROVE Private(u)'
    <3> SUFFICES ASSUME Unlinked(u)' PROVE Private(u)'
      BY DEF Private
    <3>1. u # t /\ Unlinked(u) /\ newNode'[u] = newNode[u]
      BY <1>4, <2>11 DEF Unlinked, Frame, EnqLabels
    <3>2. /\ newNode[u] \in allocated /\ newNode[u] \in Node
          /\ next[newNode[u]].ptr = NULL /\ ~Among(newNode[u], Len(chain))
          /\ \A w \in Threads \ {u} : Unlinked(w) => newNode[w] # newNode[u]
      BY <3>1 DEF Inv, LocalKnowledge, Private, TypeOK
    <3>3. Unlinked(t)
      BY <1>2 DEF Unlinked, EnqLabels
    <3>4. newNode[u] # n
      BY <3>1, <3>2, <3>3
    <3>5. newNode[u] # p
      BY <2>4, <3>2, Basics DEF Among
    <3>6. ~Among(newNode[u], Len(chain))'
      BY <2>3, <3>1, <3>2, <3>4, Basics DEF Among
    <3>7. \A w \in Threads : Unlinked(w)' => Unlinked(w) /\ newNode'[w] = newNode[w]
      BY <1>4, <2>11 DEF Unlinked, Frame, EnqLabels
    <3> QED BY <1>3, <2>6, <3>1, <3>2, <3>5, <3>6, <3>7 DEF Private
  <2>13. EnqKnows(t)' /\ DeqKnows(t)'
    <3>1. /\ ltail' = ltail /\ newNode' = newNode /\ tail' = tail
      BY <1>3 DEF locals
    <3>2. Among(p, tail.count + 1)'
      <4>1. tail.count + 1 \in 1..(tail.count + 1) /\ chain'[tail.count + 1] = p
        BY <2>3, <2>4, <2>5, Basics
      <4> QED BY <3>1, <4>1 DEF Among
    <3>3. Whole(ltail[t])'
      <4>1. ltail[t].count < Len(chain') /\ ltail[t].count + 1 \in 1..Len(chain)
        BY <1>2, <2>3, <2>4, Basics
      <4>2. ltail[t].ptr = chain[ltail[t].count + 1]
        BY <1>2 DEF Whole
      <4> QED BY <2>3, <3>1, <4>1, <4>2 DEF Whole
    <3>4. (ltail[t].count <= tail.count)'
      BY <1>2, <3>1
    <3>5. newNode[t] # NULL
      BY <1>2, NullAssumption
    <3> QED BY <2>6, <2>11, <3>1, <3>2, <3>3, <3>4, <3>5 DEF EnqKnows, DeqKnows, EnqLabels, DeqLabels
  <2> HIDE DEF p, n
  <2> QED BY <1>4, <2>2, <2>7, <2>8, <2>9, <2>10, <2>12, <2>13, StepInv
<1> QED BY <1>5, <1>6

LEMMA ReturnInv ==
    ASSUME Inv, NEW t \in Threads, Return(t) PROVE Inv'
<1> USE DEF Return
<1>1. TypeOK'
  BY DEF Inv, TypeOK, Goto, Labels, shared, Ptr, Pointer
<1>2. Frame(t) /\ UNCHANGED shared /\ pc'[t] = "idle"
  BY DEF Inv, TypeOK, Goto, Frame
<1>3. EnqKnows(t)' /\ DeqKnows(t)'
  BY <1>2 DEF EnqKnows, DeqKnows, EnqLabels, DeqLabels
<1> QED BY <1>1, <1>2, <1>3, QuietStepInv DEF Unlinked, EnqLabels
-----------------------------------------------------------------------------
(* deq *)

LEMMA DeqCallInv ==
    ASSUME Inv, NEW t \in Threads, DeqCall(t) PROVE Inv'
<1> USE DEF DeqCall
<1>1. TypeOK'
  BY DEF Inv, TypeOK, Goto, Labels, DeqLabels, shared, locals
<1>2. Frame(t) /\ UNCHANGED shared /\ pc'[t] = "d_head"
  BY DEF Inv, TypeOK, Goto, Frame, locals
<1>3. EnqKnows(t)' /\ DeqKnows(t)'
  BY <1>2 DEF EnqKnows, DeqKnows, EnqLabels, DeqLabels
<1> QED BY <1>1, <1>2, <1>3, QuietStepInv DEF Unlinked, EnqLabels

LEMMA DeqReadHeadCountInv ==
    ASSUME Inv, NEW t \in Threads, DeqReadHeadCount(t) PROVE Inv'
<1> USE DEF DeqReadHeadCount, LoadWord
<1>1. TypeOK'
  BY DEF Inv, TypeOK, Goto, Labels, DeqLabels, shared, Pointer
<1>2. Frame(t) /\ UNCHANGED shared
      /\ lhead'[t].count = head.count /\ lhead'[t].ptr = lhead[t].ptr
      /\ \/ pc[t] = "d_head" /\ pc'[t] = "d_hp"
         \/ pc[t] = "d_hc" /\ pc'[t] = "d_tail"
  BY DEF Inv, TypeOK, Goto, Frame, Pointer
<1>3. DeqKnows(t)
  BY DEF Inv, LocalKnowledge
<1>4. EnqKnows(t)' /\ DeqKnows(t)'
  BY <1>2, <1>3, Basics DEF EnqKnows, DeqKnows, EnqLabels, DeqLabels, shared, Among
<1> QED BY <1>1, <1>2, <1>4, QuietStepInv DEF Unlinked, EnqLabels

LEMMA DeqReadHeadPtrInv ==
    ASSUME Inv, NEW t \in Threads, DeqReadHeadPtr(t) PROVE Inv'
<1> USE DEF DeqReadHeadPtr, LoadWord
<1>1. TypeOK'
  BY DEF Inv, TypeOK, Goto, Labels, DeqLabels, shared, Pointer
<1>2. Frame(t) /\ UNCHANGED shared
      /\ lhead'[t].count = lhead[t].count /\ lhead'[t].ptr = head.ptr
      /\ \/ pc[t] = "d_head" /\ pc'[t] = "d_hc"
         \/ pc[t] = "d_hp" /\ pc'[t] = "d_tail"
  BY DEF Inv, TypeOK, Goto, Frame, Pointer
<1>3. DeqKnows(t)
  BY DEF Inv, LocalKnowledge
<1>4. Among(head.ptr, head.count + 1)
  <2>1. head.ptr = chain[head.count + 1] /\ head.count + 1 \in 1..(head.count + 1)
    BY Basics DEF Inv, EndsInOrder
  <2> QED BY <2>1 DEF Among
<1>5. EnqKnows(t)' /\ DeqKnows(t)'
  BY <1>2, <1>3, <1>4 DEF EnqKnows, DeqKnows, EnqLabels, DeqLabels, shared, Among
<1> QED BY <1>1, <1>2, <1>5, QuietStepInv DEF Unlinked, EnqLabels

LEMMA DeqReadTailCountInv ==
    ASSUME Inv, NEW t \in Threads, DeqReadTailCount(t) PROVE Inv'
<1> USE DEF DeqReadTailCount, LoadWord
<1>1. TypeOK'
  BY DEF Inv, TypeOK, Goto, Labels, DeqLabels, shared, Pointer
<1>2. Frame(t) /\ UNCHANGED shared /\ lhead' = lhead
      /\ ltail'[t].ptr = ltail[t].ptr
      /\ \/ pc[t] = "d_tail" /\ pc'[t] = "d_tp"
         \/ pc[t] = "d_tc" /\ pc'[t] = "d_next"
  BY DEF Inv, TypeOK, Goto, Frame, Pointer
<1>3. DeqKnows(t)
  BY DEF Inv, LocalKnowledge
<1>4. EnqKnows(t)' /\ DeqKnows(t)'
  BY <1>2, <1>3 DEF EnqKnows, DeqKnows, EnqLabels, DeqLabels, shared, Among
<1> QED BY <1>1, <1>2, <1>4, QuietStepInv DEF Unlinked, EnqLabels

\* The tail that is read is not behind the head that was read before.
LEMMA DeqReadTailPtrInv ==
    ASSUME Inv, NEW t \in Threads, DeqReadTailPtr(t) PROVE Inv'
<1> USE DEF DeqReadTailPtr, LoadWord
<1>1. TypeOK'
  BY DEF Inv, TypeOK, Goto, Labels, DeqLabels, shared, Pointer
<1>2. Frame(t) /\ UNCHANGED shared /\ lhead' = lhead /\ ltail'[t].ptr = tail.ptr
      /\ \/ pc[t] = "d_tail" /\ pc'[t] = "d_tc"
         \/ pc[t] = "d_tp" /\ pc'[t] = "d_next"
  BY DEF Inv, TypeOK, Goto, Frame, Pointer
<1>3. DeqKnows(t)
  BY DEF Inv, LocalKnowledge
<1>4. lhead[t].ptr = tail.ptr \/ Among(lhead[t].ptr, tail.count)
  <2>1. Among(lhead[t].ptr, head.count + 1)
    BY <1>2, <1>3 DEF DeqKnows, DeqLabels
  <2>2. PICK j \in 1..(head.count + 1) : chain[j] = lhead[t].ptr
    BY <2>1 DEF Among
  <2>3. j = tail.count + 1 \/ j \in 1..tail.count
    BY <2>2, Basics
  <2>4. tail.ptr = chain[tail.count + 1]
    BY DEF Inv, EndsInOrder
  <2> QED BY <2>2, <2>3, <2>4 DEF Among
<1>5. EnqKnows(t)' /\ DeqKnows(t)'
  BY <1>2, <1>3, <1>4 DEF EnqKnows, DeqKnows, EnqLabels, DeqLabels, shared, Among
<1> QED BY <1>1, <1>2, <1>5, QuietStepInv DEF Unlinked, EnqLabels

LEMMA DeqReadNextCountInv ==
    ASSUME Inv, NEW t \in Threads, DeqReadNextCount(t) PROVE Inv'
<1> USE DEF DeqReadNextCount, LoadWord
<1>1. DeqKnows(t) /\ lhead[t].ptr \in Node
  BY Basics DEF Inv, LocalKnowledge, DeqKnows, DeqLabels
<1>2. TypeOK'
  BY <1>1 DEF Inv, TypeOK, Goto, Labels, DeqLabels, shared, Pointer
<1>3. Frame(t) /\ UNCHANGED shared /\ lhead' = lhead /\ ltail' = ltail
      /\ sawEmpty' = sawEmpty /\ lnext'[t].ptr = lnext[t].ptr
      /\ \/ pc[t] = "d_next" /\ pc'[t] = "d_np"
         \/ pc[t] = "d_nc" /\ pc'[t] = "d_chkc"
  BY DEF Inv, TypeOK, Goto, Frame, Pointer
<1>4. EnqKnows(t)' /\ DeqKnows(t)'
  BY <1>1, <1>3 DEF EnqKnows, DeqKnows, EnqLabels, DeqLabels, shared, Among
<1> QED BY <1>2, <1>3, <1>4, QuietStepInv DEF Unlinked, EnqLabels

\* A NULL next is read only from the last node; the head was read before, so
\* it cannot be further, and the queue is empty at this moment.
LEMMA DeqReadNextPtrInv ==
    ASSUME Inv, NEW t \in Threads, DeqReadNextPtr(t) PROVE Inv'
<1> USE DEF DeqReadNextPtr, LoadWord
<1>1. DeqKnows(t) /\ pc[t] \in {"d_next", "d_np"}
  BY DEF Inv, LocalKnowledge
<1>2. /\ lhead[t].ptr \in Node
      /\ Among(lhead[t].ptr, head.count + 1)
      /\ lhead[t].ptr = ltail[t].ptr \/ Among(lhead[t].ptr, tail.count)
  BY <1>1, Basics DEF DeqKnows, DeqLabels
<1>3. TypeOK'
  BY <1>2 DEF Inv, TypeOK, Goto, Labels, DeqLabels, shared, Pointer
<1>4. Frame(t) /\ UNCHANGED shared /\ pc'[t] \in {"d_nc", "d_chkc"}
      /\ lhead' = lhead /\ ltail' = ltail
      /\ lnext'[t].ptr = next[lhead[t].ptr].ptr
      /\ (head.count + 1 = Len(chain) => sawEmpty'[t])
  BY DEF Inv, TypeOK, Goto, Frame, Pointer
<1>5. next[lhead[t].ptr].ptr = NULL =>
          head.count + 1 = Len(chain) /\ ~Among(lhead[t].ptr, tail.count)
  <2> SUFFICES ASSUME next[lhead[t].ptr].ptr = NULL
               PROVE  head.count + 1 = Len(chain) /\ ~Among(lhead[t].ptr, tail.count)
    OBVIOUS
  <2>1. \A j \in 1..Len(chain) : chain[j] = lhead[t].ptr => j = Len(chain)
    <3> SUFFICES ASSUME NEW j \in 1..Len(chain), chain[j] = lhead[t].ptr
                 PROVE  j = Len(chain)
      OBVIOUS
    <3>1. (j - 1) \in Nat /\ j - 1 < Len(chain) /\ (j - 1) + 1 = j
      BY Basics
    <3> QED BY <3>1, Links
  <2>2. PICK j \in 1..(head.count + 1) : chain[j] = lhead[t].ptr
    BY <1>2 DEF Among
  <2>3. head.count + 1 = Len(chain)
    BY <2>1, <2>2, Basics
  <2>4. ~Among(lhead[t].ptr, tail.count)
    BY <2>1, Basics DEF Among
  <2> QED BY <2>3, <2>4
<1>6. EnqKnows(t)'
  BY <1>4 DEF EnqKnows, EnqLabels
<1>7. DeqKnows(t)'
  BY <1>1, <1>2, <1>4, <1>5 DEF DeqKnows, DeqLabels, shared, Among
<1> QED BY <1>3, <1>4, <1>6, <1>7, QuietStepInv DEF Unlinked, EnqLabels

LEMMA DeqCheckCountInv ==
    ASSUME Inv, NEW t \in Threads, DeqCheckCount(t) PROVE Inv'
<1> USE DEF DeqCheckCount
<1>1. DeqKnows(t)
  BY DEF Inv, LocalKnowledge
<1>2. TypeOK'
  BY DEF Inv, TypeOK, Goto, Labels, DeqLabels, shared, locals
<1>3. Frame(t) /\ UNCHANGED <<shared, locals>> /\ pc[t] = "d_chkc"
      /\ pc'[t] = IF lhead[t].count = head.count THEN "d_chkp" ELSE "d_head"
  BY DEF Inv, TypeOK, Goto, Frame, locals
<1>4. EnqKnows(t)'
  BY <1>3 DEF EnqKnows, EnqLabels
<1>5. DeqKnows(t)'
  BY <1>1, <1>3 DEF DeqKnows, DeqLabels, shared, locals, Among
<1> QED BY <1>2, <1>3, <1>4, <1>5, QuietStepInv DEF Unlinked, EnqLabels, locals

LEMMA DeqCheckPtrInv ==
    ASSUME Inv, NEW t \in Threads, DeqCheckPtr(t) PROVE Inv'
<1> USE DEF DeqCheckPtr
<1>1. DeqKnows(t) /\ pc[t] = "d_chkp"
  BY DEF Inv, LocalKnowledge
<1>2. TypeOK'
  BY DEF Inv, TypeOK, Goto, Labels, DeqLabels, shared
<1>3. Frame(t) /\ UNCHANGED <<shared, newNode, lhead, ltail, lnext, out, sawEmpty>>
      /\ pc'[t] \in {"d_head", "deq_ret", "d_help", "d_val"}
      /\ (pc'[t] \in {"d_help", "d_val"} => lhead[t].ptr = head.ptr)
      /\ (pc'[t] = "d_help" => lhead[t].ptr = ltail[t].ptr /\ lnext[t].ptr # NULL)
      /\ (pc'[t] = "d_val" => lhead[t].ptr # ltail[t].ptr)
  BY DEF Inv, TypeOK, Goto, Frame
<1>4. pc'[t] = "d_val" => lnext[t].ptr # NULL
  BY <1>1, <1>3 DEF DeqKnows
<1>5. lhead[t].ptr = head.ptr => Whole(lhead[t])
  <2>1. lhead[t] \in Pointer
    BY DEF Inv, TypeOK
  <2>2. lhead[t].count <= head.count /\ Among(lhead[t].ptr, lhead[t].count + 1)
    BY <1>1 DEF DeqKnows, DeqLabels
  <2>3. head.ptr = chain[head.count + 1] /\ head.count < Len(chain)
    BY Basics DEF Inv, EndsInOrder
  <2> QED BY <2>1, <2>2, <2>3, Confirmed, Basics
<1>6. EnqKnows(t)'
  BY <1>3 DEF EnqKnows, EnqLabels
<1>7. DeqKnows(t)'
  BY <1>1, <1>3, <1>4, <1>5 DEF DeqKnows, DeqLabels, shared, Among, Whole
<1> QED BY <1>2, <1>3, <1>6, <1>7, QuietStepInv DEF Unlinked, EnqLabels

\* deq's help gives tail the count of head plus one: both were at one node.
LEMMA DeqHelpTail ==
    ASSUME Inv, NEW t \in Threads, DeqHelp(t)
    PROVE  \/ tail' = tail
           \/ /\ tail.count + 1 < Len(chain)
              /\ tail'.count = tail.count + 1
              /\ tail'.ptr = chain[tail.count + 2]
<1> USE DEF DeqHelp
<1>1. DeqKnows(t) /\ pc[t] = "d_help"
  BY DEF Inv, LocalKnowledge
<1>2. /\ ltail[t] \in Pointer /\ lnext[t].ptr \in Node \union {NULL}
      /\ lhead[t].count \in Nat
  BY DEF Inv, TypeOK, Pointer
<1>3. CASE tail = ltail[t]
  <2>1. Whole(lhead[t]) /\ lnext[t].ptr = next[lhead[t].ptr].ptr
        /\ lnext[t].ptr # NULL /\ lhead[t].ptr = tail.ptr
    BY <1>1, <1>3 DEF DeqKnows
  <2>2. lhead[t].count < Len(chain) /\ lhead[t].ptr = chain[lhead[t].count + 1]
    BY <2>1 DEF Whole
  <2>3. lhead[t].count + 1 < Len(chain) /\ lnext[t].ptr = chain[lhead[t].count + 2]
        /\ \A j \in 1..Len(chain) : chain[j] = tail.ptr => j = lhead[t].count + 1
    BY <1>2, <2>1, <2>2, Links
  <2>4. tail.ptr = chain[tail.count + 1] /\ tail.count + 1 \in 1..Len(chain)
    BY Basics DEF Inv, EndsInOrder
  <2>5. tail.count = lhead[t].count
    <3>1. tail.count + 1 = lhead[t].count + 1
      BY <2>3, <2>4, Zenon
    <3> QED BY <1>2, <3>1, Basics
  <2>6. tail' = Ptr(lnext[t].ptr, lhead[t].count + 1)
    BY <1>3, Zenon DEF Cas
  <2>7. tail'.ptr = lnext[t].ptr /\ tail'.count = lhead[t].count + 1
    BY <2>6 DEF Ptr
  <2> QED BY <2>3, <2>5, <2>7
<1>4. CASE tail # ltail[t]
  BY <1>4 DEF Cas
<1> QED BY <1>3, <1>4

LEMMA DeqHelpInv ==
    ASSUME Inv, NEW t \in Threads, DeqHelp(t) PROVE Inv'
<1> USE DEF DeqHelp
<1>1. DeqKnows(t) /\ pc[t] = "d_help"
  BY DEF Inv, LocalKnowledge
<1>2. /\ ltail[t] \in Pointer /\ lnext[t].ptr \in Node \union {NULL}
      /\ lhead[t].count \in Nat
  BY DEF Inv, TypeOK, Pointer
<1>3. TypeOK'
  BY <1>2 DEF Inv, TypeOK, Goto, Labels, DeqLabels, locals, Cas, Ptr, Pointer
<1>4. Frame(t) /\ UNCHANGED <<head, next, val, allocated, chain, locals>>
      /\ pc'[t] = "d_head"
  BY DEF Inv, TypeOK, Goto, Frame, locals
<1>5. \/ tail' = tail
      \/ /\ tail.count + 1 < Len(chain)
         /\ tail'.count = tail.count + 1
         /\ tail'.ptr = chain[tail.count + 2]
  BY DeqHelpTail
<1>6. EnqKnows(t)' /\ DeqKnows(t)'
  BY <1>4 DEF EnqKnows, DeqKnows, EnqLabels, DeqLabels
<1> QED BY <1>3, <1>4, <1>5, <1>6, TailStepInv DEF Unlinked, EnqLabels, locals

LEMMA DeqReadValInv ==
    ASSUME Inv, NEW t \in Threads, DeqReadVal(t) PROVE Inv'
<1> USE DEF DeqReadVal
<1>1. DeqKnows(t) /\ pc[t] = "d_val"
  BY DEF Inv, LocalKnowledge
<1>2. lnext[t].ptr \in Node
  BY <1>1 DEF DeqKnows, Inv, TypeOK, Pointer
<1>3. TypeOK'
  BY <1>2 DEF Inv, TypeOK, Goto, Labels, DeqLabels, shared
<1>4. Frame(t) /\ UNCHANGED <<shared, lhead, ltail, lnext>> /\ pc'[t] = "d_cas"
      /\ out'[t] = val[lnext[t].ptr]
  BY DEF Inv, TypeOK, Goto, Frame
<1>5. EnqKnows(t)'
  BY <1>4 DEF EnqKnows, EnqLabels
<1>6. DeqKnows(t)'
  BY <1>1, <1>4 DEF DeqKnows, DeqLabels, shared, Among, Whole
<1> QED BY <1>3, <1>4, <1>5, <1>6, QuietStepInv DEF Unlinked, EnqLabels

\* The cas of deq: head stays behind tail.
LEMMA DeqSwingInv ==
    ASSUME Inv, NEW t \in Threads, DeqSwing(t) PROVE Inv'
<1> USE DEF DeqSwing
<1>1. DeqKnows(t) /\ pc[t] = "d_cas"
  BY DEF Inv, LocalKnowledge
<1>2. /\ lhead[t] \in Pointer /\ lnext[t].ptr \in Node \union {NULL}
      /\ lhead[t].count \in Nat
  BY DEF Inv, TypeOK, Pointer
<1>3. TypeOK'
  <2>1. head' \in Pointer
    BY <1>2 DEF Inv, TypeOK, Cas, Ptr, Pointer
  <2>2. pc' \in [Threads -> Labels] /\ ret' \in [Threads -> BOOLEAN]
    BY DEF Inv, TypeOK, Goto, Labels, DeqLabels
  <2> QED BY <2>1, <2>2 DEF Inv, TypeOK
<1>4. Frame(t) /\ UNCHANGED <<tail, next, val, allocated, chain>>
      /\ pc'[t] \in {"deq_ret", "d_head"}
  BY DEF Inv, TypeOK, Goto, Frame
<1>5. \/ head' = head
      \/ /\ head.count < tail.count /\ head'.count = head.count + 1
         /\ head'.ptr = chain[head.count + 2]
  <2>1. CASE head = lhead[t]
    <3>1. Whole(head) /\ lnext[t].ptr = next[head.ptr].ptr
          /\ lnext[t].ptr # NULL /\ Among(head.ptr, tail.count)
      BY <1>1, <2>1 DEF DeqKnows
    <3>2. head.count \in Nat /\ head.count < Len(chain) /\ head.ptr = chain[head.count + 1]
      BY <3>1, Basics DEF Whole
    <3>3. lnext[t].ptr = chain[head.count + 2]
          /\ \A j \in 1..Len(chain) : chain[j] = head.ptr => j = head.count + 1
      BY <3>1, <3>2, Links
    <3>4. PICK j \in 1..tail.count : chain[j] = head.ptr
      BY <3>1 DEF Among
    <3>5. head.count < tail.count
      BY <3>3, <3>4, Basics
    <3> QED BY <2>1, <3>3, <3>5 DEF Cas, Ptr
  <2>2. CASE head # lhead[t]
    BY <2>2 DEF Cas
  <2> QED BY <2>1, <2>2
<1>6. Grows
  BY <1>4, <1>5, Basics DEF Grows
<1>7. ChainLinked'
  BY <1>4 DEF Inv, ChainLinked
<1>8. EndsInOrder'
  <2>1. CASE head' = head
    BY <1>4, <2>1 DEF Inv, EndsInOrder
  <2>2. CASE head' # head
    <3>1. /\ head.count < tail.count /\ head'.count = head.count + 1
          /\ head'.ptr = chain[(head.count + 1) + 1]
      BY <1>5, <2>2, Basics
    <3>2. head'.count <= tail.count
      BY <3>1, Basics
    <3>3. tail.ptr = chain[tail.count + 1]
      BY DEF Inv, EndsInOrder
    <3> QED BY <1>4, <3>1, <3>2, <3>3, Basics DEF EndsInOrder
  <2> QED BY <2>1, <2>2
<1>9. /\ (\A j \in 1..Len(chain) : chain[j] \in allocated)'
      /\ \A u \in Threads : Private(u)'
  BY <1>4, PrivateStable DEF Unlinked, EnqLabels
<1>10. EnqKnows(t)' /\ DeqKnows(t)'
  BY <1>4 DEF EnqKnows, DeqKnows, EnqLabels, DeqLabels
<1> QED BY <1>3, <1>4, <1>6, <1>7, <1>8, <1>9, <1>10, StepInv
-----------------------------------------------------------------------------
(* The invariant holds *)

LEMMA NextInv == Inv /\ [Next]_vars => Inv'
<1> SUFFICES ASSUME Inv, [Next]_vars PROVE Inv'
  OBVIOUS
<1>1. CASE UNCHANGED vars
  <2> USE <1>1 DEF vars, shared, locals
  <2>1. TypeOK' /\ ChainLinked' /\ EndsInOrder'
    BY DEF Inv, TypeOK, ChainLinked, EndsInOrder
  <2>2. (\A j \in 1..Len(chain) : chain[j] \in allocated)'
    BY DEF Inv, LocalKnowledge
  <2>3. ASSUME NEW t \in Threads PROVE Private(t)' /\ EnqKnows(t)' /\ DeqKnows(t)'
    <3>1. Private(t) /\ EnqKnows(t) /\ DeqKnows(t)
      BY DEF Inv, LocalKnowledge
    <3>2. Private(t)'
      BY <3>1 DEF Private, Unlinked, Among
    <3>3. EnqKnows(t)'
      BY <3>1 DEF EnqKnows, Among, Whole
    <3>4. DeqKnows(t)'
      BY <3>1 DEF DeqKnows, Among, Whole
    <3> QED BY <3>2, <3>3, <3>4
  <2> QED BY <2>1, <2>2, <2>3 DEF Inv, LocalKnowledge
<1>2. ASSUME NEW t \in Threads, NEW v \in Val, EnqCall(t, v) PROVE Inv'
  BY <1>2, EnqCallInv
<1>3. ASSUME NEW t \in Threads, EnqNoMemory(t) PROVE Inv'
  BY <1>3, EnqNoMemoryInv
<1>4. ASSUME NEW t \in Threads, DeqCall(t) PROVE Inv'
  BY <1>4, DeqCallInv
<1>5. ASSUME NEW t \in Threads, Return(t) PROVE Inv'
  BY <1>5, ReturnInv
<1>6. ASSUME NEW t \in Threads, EnqStep(t) PROVE Inv'
  BY <1>6, EnqReadTailCountInv, EnqReadTailPtrInv, EnqReadNextCountInv,
     EnqReadNextPtrInv, EnqCheckCountInv, EnqCheckPtrInv, EnqLinkInv,
     EnqHelpInv, EnqSwingInv DEF EnqStep
<1>7. ASSUME NEW t \in Threads, DeqStep(t) PROVE Inv'
  BY <1>7, DeqReadHeadCountInv, DeqReadHeadPtrInv, DeqReadTailCountInv,
     DeqReadTailPtrInv, DeqReadNextCountInv, DeqReadNextPtrInv,
     DeqCheckCountInv, DeqCheckPtrInv, DeqHelpInv, DeqReadValInv,
     DeqSwingInv DEF DeqStep
<1> QED BY <1>1, <1>2, <1>3, <1>4, <1>5, <1>6, <1>7 DEF Next

\* The list, its ends and what the threads know of them are right in every
\* state, however many threads call enq and deq and however often.
THEOREM Invariance == Spec => []Inv
BY InitInv, NextInv, PTL DEF Spec

\* Every variable keeps its type: no counted pointer is made of anything else.
THEOREM TypeCorrect == Spec => []TypeOK
<1>1. Inv => TypeOK
  BY DEF Inv
<1> QED BY <1>1, Invariance, PTL

\* The linked nodes form the list of the enqs, for ever.
THEOREM ListIntact == Spec => []ChainLinked
<1>1. Inv => ChainLinked
  BY DEF Inv
<1> QED BY <1>1, Invariance, PTL

\* Head never overtakes tail and tail lags by one node at most.
THEOREM EndsCorrect == Spec => []EndsInOrder
<1>1. Inv => EndsInOrder
  BY DEF Inv
<1> QED BY <1>1, Invariance, PTL

\* What each thread may rely on between two accesses, in whichever order the two
\* words of each struct are loaded: torn copies included until both comparisons
\* have succeeded, whole ones after.
THEOREM KnowledgeCorrect == Spec => []LocalKnowledge
<1>1. Inv => LocalKnowledge
  BY DEF Inv
<1> QED BY <1>1, Invariance, PTL

\* deq never reads the value of a node that is not there.
THEOREM NeverNullDeref == Spec => []NoNullDeref
<1>1. Inv => NoNullDeref
  BY DEF Inv, LocalKnowledge, DeqKnows, NoNullDeref
<1> QED BY <1>1, Invariance, PTL

\* No end ever moves backwards or skips a node.
THEOREM EndsOnlyAdvance == Spec => EndsAdvance
<1>1. Inv /\ [Next]_vars =>
        [/\ head'.count \in {head.count, head.count + 1}
         /\ tail'.count \in {tail.count, tail.count + 1}]_vars
  <2> SUFFICES ASSUME Inv, Next
               PROVE  /\ head'.count \in {head.count, head.count + 1}
                      /\ tail'.count \in {tail.count, tail.count + 1}
    OBVIOUS
  <2>1. PICK t \in Threads :
          \/ \E v \in Val : EnqCall(t, v)
          \/ EnqNoMemory(t) \/ DeqCall(t)
          \/ EnqStep(t) \/ DeqStep(t) \/ Return(t)
    BY DEF Next
  <2>2. CASE (\E v \in Val : EnqCall(t, v)) \/ EnqNoMemory(t) \/ DeqCall(t) \/ Return(t)
    BY <2>2 DEF EnqCall, EnqNoMemory, DeqCall, Return, shared
  <2>3. CASE EnqStep(t)
    BY <2>3 DEF EnqStep, EnqReadTailCount, EnqReadTailPtr, EnqReadNextCount,
                EnqReadNextPtr, EnqCheckCount, EnqCheckPtr, EnqLink, EnqHelp,
                EnqSwing, shared, Cas, Ptr
  <2>4. CASE DeqHelp(t)
    BY <2>4, DeqHelpTail DEF DeqHelp
  <2>5. CASE DeqSwing(t)
    <3>1. tail' = tail /\ head' = Cas(head, lhead[t], Ptr(lnext[t].ptr, lhead[t].count + 1))
      BY <2>5 DEF DeqSwing
    <3> QED BY <3>1 DEF Cas, Ptr
  <2>6. CASE DeqStep(t) /\ ~DeqHelp(t) /\ ~DeqSwing(t)
    <3>1. UNCHANGED shared
      BY <2>6 DEF DeqStep, DeqReadHeadCount, DeqReadHeadPtr, DeqReadTailCount,
                  DeqReadTailPtr, DeqReadNextCount, DeqReadNextPtr,
                  DeqCheckCount, DeqCheckPtr, DeqReadVal
    <3> QED BY <3>1 DEF shared
  <2> QED BY <2>1, <2>2, <2>3, <2>4, <2>5, <2>6
<1> QED BY <1>1, Invariance, PTL DEF Spec, EndsAdvance
-----------------------------------------------------------------------------
(* The queue is atomic *)

\* The sequence of enqueued values, as a sequence.
LEMMA EnqsFacts ==
    ASSUME Inv
    PROVE  /\ Enqs \in Seq(Val \union {NULL})
           /\ Len(Enqs) = Len(chain) - 1
           /\ \A k \in 1..(Len(chain) - 1) : Enqs[k] = val[chain[k + 1]]
<1>1. Len(chain) \in Nat /\ Len(chain) - 1 \in Nat
  BY Basics
<1>2. \A k \in 1..(Len(chain) - 1) : chain[k + 1] \in Node
  BY <1>1, Basics
<1>3. \A k \in 1..(Len(chain) - 1) : val[chain[k + 1]] \in Val \union {NULL}
  BY <1>2 DEF Inv, TypeOK
<1> QED BY <1>1, <1>3 DEF Enqs

\* The values stay as long as the list and the values of its nodes do.
LEMMA EnqsSame ==
    ASSUME Inv, chain' = chain, \A n \in allocated : val'[n] = val[n]
    PROVE  Enqs' = Enqs
<1>1. \A k \in 1..(Len(chain) - 1) : val'[chain[k + 1]] = val[chain[k + 1]]
  BY Basics
<1> QED BY <1>1 DEF Enqs

\* A step of t changes only what t's caller sees.
StepOf(t) ==
    /\ Frame(t)
    /\ \A u \in Threads \ {t} : ret'[u] = ret[u]
    /\ \A n \in allocated : val'[n] = val[n]

\* What callers see is a function of the thread, before and after a step.
LEMMA CalleeFunctions ==
    /\ Phase = [u \in Threads |-> Phase[u]] /\ Phase' = [u \in Threads |-> Phase'[u]]
    /\ Arg = [u \in Threads |-> Arg[u]] /\ Arg' = [u \in Threads |-> Arg'[u]]
    /\ Res = [u \in Threads |-> Res[u]] /\ Res' = [u \in Threads |-> Res'[u]]
<1>1. Phase = [u \in Threads |-> Phase[u]] /\ Phase' = [u \in Threads |-> Phase'[u]]
  BY DEF Phase
<1>2. Arg = [u \in Threads |-> Arg[u]] /\ Arg' = [u \in Threads |-> Arg'[u]]
  BY DEF Arg
<1>3. Res = [u \in Threads |-> Res[u]] /\ Res' = [u \in Threads |-> Res'[u]]
  BY DEF Res
<1> QED BY <1>1, <1>2, <1>3

LEMMA OthersSame ==
    ASSUME Inv, NEW t \in Threads, StepOf(t)
    PROVE  /\ Phase' = [Phase EXCEPT ![t] = Phase'[t]]
           /\ Arg' = [Arg EXCEPT ![t] = Arg'[t]]
           /\ Res' = [Res EXCEPT ![t] = Res'[t]]
<1>1. \A u \in Threads \ {t} : Phase'[u] = Phase[u]
  BY DEF StepOf, Frame, Phase, Unlinked
<1>2. \A u \in Threads \ {t} : Arg'[u] = Arg[u]
  BY DEF StepOf, Frame, Arg, Unlinked, Inv, LocalKnowledge, Private
<1>3. \A u \in Threads \ {t} : Res'[u] = Res[u]
  BY DEF StepOf, Frame, Res
<1>4. Phase' = [Phase EXCEPT ![t] = Phase'[t]]
  BY <1>1, CalleeFunctions
<1>5. Arg' = [Arg EXCEPT ![t] = Arg'[t]]
  BY <1>2, CalleeFunctions
<1>6. Res' = [Res EXCEPT ![t] = Res'[t]]
  BY <1>3, CalleeFunctions
<1> QED BY <1>4, <1>5, <1>6

\* A step of t that its caller does not see.
LEMMA Stutter ==
    ASSUME Inv, NEW t \in Threads, StepOf(t), chain' = chain,
           head'.count = head.count, sawEmpty' = sawEmpty,
           Phase'[t] = Phase[t], Arg'[t] = Arg[t], Res'[t] = Res[t]
    PROVE  UNCHANGED FIFO!vars
<1>1. Enqs' = Enqs
  BY EnqsSame DEF StepOf
<1>2. Phase' = Phase /\ Arg' = Arg /\ Res' = Res
  <2>1. Phase' = [Phase EXCEPT ![t] = Phase[t]]
    BY OthersSame
  <2>2. Arg' = [Arg EXCEPT ![t] = Arg[t]]
    BY OthersSame
  <2>3. Res' = [Res EXCEPT ![t] = Res[t]]
    BY OthersSame
  <2> QED BY <2>1, <2>2, <2>3, CalleeFunctions
<1> QED BY <1>1, <1>2 DEF FIFO!vars

LEMMA FIFOInit == Init => FIFO!Init
<1> SUFFICES ASSUME Init PROVE FIFO!Init
  OBVIOUS
<1>1. PICK d \in Node : chain = <<d>> /\ head = Ptr(d, 0)
  BY DEF Init
<1>2. Enqs = <<>> /\ head.count = 0
  BY <1>1 DEF Enqs, Ptr
<1>3. pc = [t \in Threads |-> "idle"] /\ sawEmpty = [t \in Threads |-> FALSE]
  BY DEF Init
<1>4. Phase = [t \in Threads |-> "idle"]
  BY <1>3 DEF Phase, Unlinked, EnqLabels, DeqLabels
<1>5. Arg = [t \in Threads |-> NULL]
  BY <1>3 DEF Arg, Unlinked, EnqLabels
<1>6. Res = [t \in Threads |-> FIFO!NoRes]
  BY <1>3 DEF Res, FIFO!NoRes
<1> QED BY <1>2, <1>3, <1>4, <1>5, <1>6 DEF FIFO!Init
-----------------------------------------------------------------------------
\* Accesses inside the loop of enq before the link, or anywhere in deq's loop.
LEMMA LoopStutter ==
    ASSUME Inv, NEW t \in Threads, StepOf(t), chain' = chain,
           head'.count = head.count, sawEmpty' = sawEmpty, newNode' = newNode,
           \/ Unlinked(t) /\ Unlinked(t)'
           \/ pc[t] \in DeqLabels /\ pc'[t] \in DeqLabels
    PROVE  UNCHANGED FIFO!vars
<1>1. CASE Unlinked(t) /\ Unlinked(t)'
  <2>1. Phase'[t] = Phase[t]
    BY <1>1 DEF Phase
  <2>2. newNode[t] \in allocated
    BY <1>1 DEF Inv, LocalKnowledge, Private
  <2>3. Arg'[t] = Arg[t]
    BY <1>1, <2>2 DEF Arg, StepOf
  <2>4. Res'[t] = Res[t]
    BY <1>1 DEF Res, Unlinked, EnqLabels
  <2> QED BY <2>1, <2>3, <2>4, Stutter
<1>2. CASE pc[t] \in DeqLabels /\ pc'[t] \in DeqLabels
  <2>1. ~Unlinked(t) /\ ~Unlinked(t)'
    BY <1>2 DEF Unlinked, EnqLabels, DeqLabels
  <2>2. Phase'[t] = Phase[t]
    BY <1>2, <2>1 DEF Phase, DeqLabels
  <2>3. Arg'[t] = Arg[t]
    BY <2>1 DEF Arg
  <2>4. Res'[t] = Res[t]
    BY <1>2 DEF Res, DeqLabels
  <2> QED BY <2>2, <2>3, <2>4, Stutter
<1> QED BY <1>1, <1>2

\* The cas that links the node is the moment the enq takes effect.
LEMMA EnqLinkFIFO ==
    ASSUME Inv, Inv', NEW t \in Threads, EnqLink(t)
    PROVE  FIFO!EnqEffect(t) \/ UNCHANGED FIFO!vars
<1>1. /\ pc[t] = "e_link"
      /\ UNCHANGED <<head, tail, val, allocated, locals>>
      /\ pc' = [pc EXCEPT ![t] = IF next[ltail[t].ptr] = lnext[t]
                                 THEN "e_swing" ELSE "e_tail"]
      /\ chain' = IF next[ltail[t].ptr] = lnext[t]
                  THEN Append(chain, newNode[t]) ELSE chain
  BY DEF EnqLink, Goto
<1>2. StepOf(t)
  BY <1>1 DEF StepOf, Frame, Inv, TypeOK, locals
<1>3. Unlinked(t)
  BY <1>1 DEF Unlinked, EnqLabels
<1>4. CASE next[ltail[t].ptr] # lnext[t]
  <2>1. pc'[t] = "e_tail" /\ chain' = chain
    BY <1>1, <1>4 DEF Inv, TypeOK
  <2>2. Unlinked(t)'
    BY <2>1 DEF Unlinked, EnqLabels
  <2> QED BY <1>1, <1>2, <1>3, <2>1, <2>2, LoopStutter DEF locals
<1>5. CASE next[ltail[t].ptr] = lnext[t]
  <2>1. pc'[t] = "e_swing" /\ chain' = Append(chain, newNode[t])
    BY <1>1, <1>5 DEF Inv, TypeOK
  <2>2. newNode[t] \in Node
    BY <1>3 DEF Inv, LocalKnowledge, Private, TypeOK
  <2>3. Enqs' = Append(Enqs, Arg[t])
    <3>1. Arg[t] = val[newNode[t]] /\ Arg[t] \in Val \union {NULL}
      BY <1>3, <2>2 DEF Arg, Inv, TypeOK
    <3>2. /\ Append(Enqs, Arg[t]) \in Seq(Val \union {NULL})
          /\ Len(Append(Enqs, Arg[t])) = Len(Enqs) + 1
          /\ \A k \in 1..Len(Enqs) : Append(Enqs, Arg[t])[k] = Enqs[k]
          /\ Append(Enqs, Arg[t])[Len(Enqs) + 1] = Arg[t]
      BY <3>1, EnqsFacts, AppendFacts
    <3>3. /\ Len(chain') = Len(chain) + 1 /\ Len(chain) \in Nat
          /\ \A j \in 1..Len(chain) : chain'[j] = chain[j]
          /\ chain'[Len(chain) + 1] = newNode[t]
      BY <2>1, <2>2, Basics, AppendFacts
    <3>4. Len(Enqs) = Len(chain) - 1 /\ Len(chain) - 1 \in Nat
      BY EnqsFacts, Basics
    <3>5. Enqs' = [k \in 1..Len(chain) |-> val[chain'[k + 1]]]
      BY <1>1, <3>3 DEF Enqs
    <3>6. \A k \in 1..Len(chain) : Append(Enqs, Arg[t])[k] = val[chain'[k + 1]]
      <4> SUFFICES ASSUME NEW k \in 1..Len(chain)
                   PROVE  Append(Enqs, Arg[t])[k] = val[chain'[k + 1]]
        OBVIOUS
      <4>1. CASE k = Len(chain)
        BY <3>1, <3>2, <3>3, <3>4, <4>1
      <4>2. CASE k # Len(chain)
        <5>1. k \in 1..(Len(chain) - 1) /\ k + 1 \in 1..Len(chain)
          BY <3>3, <4>2
        <5> QED BY <3>2, <3>3, <3>4, <5>1, EnqsFacts
      <4> QED BY <4>1, <4>2
    <3>7. Append(Enqs, Arg[t]) = [k \in 1..Len(chain) |-> Append(Enqs, Arg[t])[k]]
      BY <3>2, <3>3, <3>4
    <3> QED BY <3>5, <3>6, <3>7
  <2>4. Phase[t] = "enq" /\ Phase'[t] = "enqRet"
    BY <1>3, <2>1 DEF Phase, Unlinked
  <2>5. Arg'[t] = NULL
    BY <2>1 DEF Arg, Unlinked
  <2>6. Res'[t] = FIFO!Ok(NULL)
    BY <2>1 DEF Res, FIFO!Ok
  <2> QED BY <1>1, <1>2, <2>3, <2>4, <2>5, <2>6, OthersSame
          DEF FIFO!EnqEffect, locals
<1> QED BY <1>4, <1>5

LEMMA EnqStepFIFO ==
    ASSUME Inv, Inv', NEW t \in Threads, EnqStep(t)
    PROVE  FIFO!EnqEffect(t) \/ UNCHANGED FIFO!vars
<1>1. CASE EnqLink(t)
  BY <1>1, EnqLinkFIFO
<1>2. CASE EnqSwing(t)
  <2>1. /\ pc[t] = "e_swing" /\ pc'[t] = "enq_ret" /\ ret'[t] = TRUE
        /\ chain' = chain /\ head' = head /\ sawEmpty' = sawEmpty
    BY <1>2 DEF EnqSwing, Goto, Inv, TypeOK
  <2>2. StepOf(t)
    BY <1>2 DEF EnqSwing, Goto, StepOf, Frame, Inv, TypeOK
  <2>3. Phase'[t] = Phase[t]
    BY <2>1 DEF Phase, Unlinked, EnqLabels
  <2>4. Arg'[t] = Arg[t]
    BY <2>1 DEF Arg, Unlinked, EnqLabels
  <2>5. Res'[t] = Res[t]
    BY <2>1 DEF Res
  <2> QED BY <2>1, <2>2, <2>3, <2>4, <2>5, Stutter
<1>3. CASE EnqStep(t) /\ ~EnqLink(t) /\ ~EnqSwing(t)
  <2>1. /\ pc[t] \in EnqLabels \ {"e_swing"} /\ pc'[t] \in EnqLabels \ {"e_swing"}
        /\ newNode' = newNode /\ sawEmpty' = sawEmpty
        /\ chain' = chain /\ head' = head
    BY <1>3 DEF EnqStep, EnqReadTailCount, EnqReadTailPtr, EnqReadNextCount,
                EnqReadNextPtr, EnqCheckCount, EnqCheckPtr, EnqHelp,
                Goto, LoadWord, Inv, TypeOK, shared, locals, EnqLabels
  <2>2. StepOf(t)
    BY <1>3 DEF EnqStep, EnqReadTailCount, EnqReadTailPtr, EnqReadNextCount,
                EnqReadNextPtr, EnqCheckCount, EnqCheckPtr, EnqHelp,
                Goto, LoadWord, Inv, TypeOK, shared, locals, StepOf, Frame
  <2> QED BY <2>1, <2>2, LoopStutter DEF Unlinked
<1> QED BY <1>1, <1>2, <1>3
-----------------------------------------------------------------------------
\* The cas on head is the moment the deq takes effect, and what it returns is
\* the oldest value, although *val was read before the cas.
LEMMA DeqSwingFIFO ==
    ASSUME Inv, Inv', NEW t \in Threads, DeqSwing(t)
    PROVE  FIFO!DeqEffect(t) \/ UNCHANGED FIFO!vars
<1>1. /\ pc[t] = "d_cas"
      /\ UNCHANGED <<tail, next, val, allocated, chain,
                     newNode, lhead, ltail, lnext, out, sawEmpty>>
      /\ head' = Cas(head, lhead[t], Ptr(lnext[t].ptr, lhead[t].count + 1))
      /\ pc' = [pc EXCEPT ![t] = IF head = lhead[t] THEN "deq_ret" ELSE "d_head"]
      /\ ret' = [ret EXCEPT ![t] = IF head = lhead[t] THEN TRUE ELSE @]
  BY DEF DeqSwing, Goto
<1>2. StepOf(t)
  BY <1>1 DEF StepOf, Frame, Inv, TypeOK
<1>3. CASE head # lhead[t]
  <2>1. pc'[t] = "d_head" /\ head' = head
    BY <1>1, <1>3 DEF Cas, Inv, TypeOK
  <2> QED BY <1>1, <1>2, <2>1, LoopStutter DEF DeqLabels
<1>4. CASE head = lhead[t]
  <2>1. pc'[t] = "deq_ret" /\ ret'[t] = TRUE
    BY <1>1, <1>4 DEF Inv, TypeOK
  <2>2. head' = Ptr(lnext[t].ptr, head.count + 1)
    BY <1>1, <1>4 DEF Cas
  <2>3. head'.count = head.count + 1
    BY <2>2 DEF Ptr
  <2>4. lnext[t].ptr = chain'[head'.count + 1]
    BY <2>2 DEF Inv, EndsInOrder, Ptr
  <2>5. head.count \in Nat /\ Len(chain) \in Nat /\ head.count + 1 < Len(chain)
    <3>1. head'.count < Len(chain')
      BY Basics DEF Inv, EndsInOrder, TypeOK, Pointer
    <3> QED BY <1>1, <2>3, <3>1, Basics
  <2>6. lnext[t].ptr = chain[(head.count + 1) + 1]
    BY <1>1, <2>3, <2>4
  <2>7. Enqs[head.count + 1] = val[lnext[t].ptr]
    BY <2>5, <2>6, EnqsFacts
  <2>8. out[t] = val[lnext[t].ptr]
    BY <1>1 DEF Inv, LocalKnowledge, DeqKnows
  <2>9. Phase[t] = "deq" /\ Phase'[t] = "deqRet"
    BY <1>1, <2>1 DEF Phase, Unlinked, EnqLabels, DeqLabels
  <2>10. Arg' = Arg
    <3>1. Arg'[t] = Arg[t]
      BY <1>1, <2>1 DEF Arg, Unlinked, EnqLabels
    <3>2. Arg' = [Arg EXCEPT ![t] = Arg[t]]
      BY <1>2, <3>1, OthersSame
    <3> QED BY <3>2, CalleeFunctions
  <2>11. Res'[t] = FIFO!Ok(Enqs[head.count + 1])
    BY <1>1, <2>1, <2>7, <2>8 DEF Res, FIFO!Ok
  <2>12. head.count < Len(Enqs)
    BY <2>5, EnqsFacts
  <2>13. Enqs' = Enqs
    BY <1>1, <1>2, EnqsSame DEF StepOf
  <2> QED BY <1>1, <1>2, <2>3, <2>9, <2>10, <2>11, <2>12, <2>13, OthersSame
          DEF FIFO!DeqEffect
<1> QED BY <1>3, <1>4

\* Reading NULL from the node that is head shows deq an empty queue.
LEMMA DeqReadNextPtrFIFO ==
    ASSUME Inv, NEW t \in Threads, DeqReadNextPtr(t)
    PROVE  FIFO!DeqObserve(t) \/ UNCHANGED FIFO!vars
<1>1. /\ pc[t] \in {"d_next", "d_np"} /\ pc'[t] \in {"d_nc", "d_chkc"}
      /\ UNCHANGED <<head, chain, val, newNode, ret, out>>
      /\ sawEmpty' = [sawEmpty EXCEPT ![t] = @ \/ head.count + 1 = Len(chain)]
  BY DEF DeqReadNextPtr, Goto, LoadWord, shared, Inv, TypeOK
<1>2. StepOf(t)
  BY DEF DeqReadNextPtr, Goto, LoadWord, shared, StepOf, Frame, Inv, TypeOK
<1>3. CASE sawEmpty' = sawEmpty
  BY <1>1, <1>2, <1>3, LoopStutter DEF DeqLabels
<1>4. CASE sawEmpty' # sawEmpty
  <2>1. head.count + 1 = Len(chain) /\ sawEmpty' = [sawEmpty EXCEPT ![t] = TRUE]
    BY <1>1, <1>4 DEF Inv, TypeOK
  <2>2. head.count = Len(Enqs)
    BY <2>1, EnqsFacts, Basics
  <2>3. Phase[t] = "deq" /\ Phase'[t] = "deq"
    BY <1>1 DEF Phase, Unlinked, EnqLabels, DeqLabels
  <2>4. Arg'[t] = Arg[t]
    BY <1>1 DEF Arg, Unlinked, EnqLabels
  <2>5. Res'[t] = Res[t]
    BY <1>1 DEF Res
  <2>6. Phase' = Phase
    <3>1. Phase' = [Phase EXCEPT ![t] = Phase[t]]
      BY <1>2, <2>3, OthersSame
    <3> QED BY <3>1, CalleeFunctions
  <2>7. Arg' = Arg
    <3>1. Arg' = [Arg EXCEPT ![t] = Arg[t]]
      BY <1>2, <2>4, OthersSame
    <3> QED BY <3>1, CalleeFunctions
  <2>8. Res' = Res
    <3>1. Res' = [Res EXCEPT ![t] = Res[t]]
      BY <1>2, <2>5, OthersSame
    <3> QED BY <3>1, CalleeFunctions
  <2>9. Enqs' = Enqs
    BY <1>1, <1>2, EnqsSame DEF StepOf
  <2> QED BY <1>1, <2>1, <2>2, <2>3, <2>6, <2>7, <2>8, <2>9 DEF FIFO!DeqObserve
<1> QED BY <1>3, <1>4

\* deq returns false only if it saw the queue empty.
LEMMA DeqCheckPtrFIFO ==
    ASSUME Inv, NEW t \in Threads, DeqCheckPtr(t)
    PROVE  FIFO!DeqEmpty(t) \/ UNCHANGED FIFO!vars
<1>1. /\ pc[t] = "d_chkp" /\ pc'[t] \in {"d_head", "deq_ret", "d_help", "d_val"}
      /\ UNCHANGED <<head, chain, val, newNode, sawEmpty, out>>
      /\ pc'[t] = "deq_ret" => lnext[t].ptr = NULL /\ ret'[t] = FALSE
  BY DEF DeqCheckPtr, Goto, shared, Inv, TypeOK
<1>2. StepOf(t)
  BY DEF DeqCheckPtr, Goto, shared, StepOf, Frame, Inv, TypeOK
<1>3. CASE pc'[t] # "deq_ret"
  BY <1>1, <1>2, <1>3, LoopStutter DEF DeqLabels
<1>4. CASE pc'[t] = "deq_ret"
  <2>1. sawEmpty[t]
    BY <1>1, <1>4 DEF Inv, LocalKnowledge, DeqKnows
  <2>2. Phase[t] = "deq" /\ Phase'[t] = "deqRet"
    BY <1>1, <1>4 DEF Phase, Unlinked, EnqLabels, DeqLabels
  <2>3. Arg'[t] = Arg[t]
    BY <1>1 DEF Arg, Unlinked, EnqLabels
  <2>4. Res'[t] = Res[t]
    BY <1>1, <1>4 DEF Res
  <2>5. Arg' = Arg
    <3>1. Arg' = [Arg EXCEPT ![t] = Arg[t]]
      BY <1>2, <2>3, OthersSame
    <3> QED BY <3>1, CalleeFunctions
  <2>6. Res' = Res
    <3>1. Res' = [Res EXCEPT ![t] = Res[t]]
      BY <1>2, <2>4, OthersSame
    <3> QED BY <3>1, CalleeFunctions
  <2>7. Enqs' = Enqs
    BY <1>1, <1>2, EnqsSame DEF StepOf
  <2> QED BY <1>1, <1>2, <2>1, <2>2, <2>5, <2>6, <2>7, OthersSame DEF FIFO!DeqEmpty
<1> QED BY <1>3, <1>4

LEMMA DeqStepFIFO ==
    ASSUME Inv, Inv', NEW t \in Threads, DeqStep(t)
    PROVE  \/ FIFO!DeqEffect(t) \/ FIFO!DeqObserve(t) \/ FIFO!DeqEmpty(t)
           \/ UNCHANGED FIFO!vars
<1>1. CASE DeqSwing(t) \/ DeqReadNextPtr(t) \/ DeqCheckPtr(t)
  BY <1>1, DeqSwingFIFO, DeqReadNextPtrFIFO, DeqCheckPtrFIFO
<1>2. CASE DeqStep(t) /\ ~DeqSwing(t) /\ ~DeqReadNextPtr(t) /\ ~DeqCheckPtr(t)
  <2>1. /\ pc[t] \in DeqLabels /\ pc'[t] \in DeqLabels
        /\ newNode' = newNode /\ sawEmpty' = sawEmpty
        /\ chain' = chain /\ head' = head
    BY <1>2 DEF DeqStep, DeqReadHeadCount, DeqReadHeadPtr, DeqReadTailCount,
                DeqReadTailPtr, DeqReadNextCount, DeqCheckCount, DeqHelp,
                DeqReadVal, Goto, LoadWord, Inv, TypeOK, shared, locals, DeqLabels
  <2>2. StepOf(t)
    BY <1>2 DEF DeqStep, DeqReadHeadCount, DeqReadHeadPtr, DeqReadTailCount,
                DeqReadTailPtr, DeqReadNextCount, DeqCheckCount, DeqHelp,
                DeqReadVal, Goto, LoadWord, Inv, TypeOK, shared, locals, StepOf, Frame
  <2> QED BY <2>1, <2>2, LoopStutter
<1> QED BY <1>1, <1>2
-----------------------------------------------------------------------------
(* Calls and returns *)

LEMMA EnqCallFIFO ==
    ASSUME Inv, NEW t \in Threads, NEW v \in Val, EnqCall(t, v)
    PROVE  FIFO!EnqCall(t, v)
<1>1. PICK n \in Node \ allocated :
        /\ val' = [val EXCEPT ![n] = v]
        /\ newNode' = [newNode EXCEPT ![t] = n]
  BY DEF EnqCall
<1>2. /\ pc[t] = "idle" /\ pc' = [pc EXCEPT ![t] = "e_tail"]
      /\ UNCHANGED <<head, tail, chain, lhead, ltail, lnext, out, ret, sawEmpty>>
  BY DEF EnqCall, Goto
<1>3. StepOf(t)
  BY <1>1, <1>2 DEF StepOf, Frame, Inv, TypeOK
<1>4. pc'[t] = "e_tail" /\ newNode'[t] = n /\ val'[n] = v
  BY <1>1, <1>2 DEF Inv, TypeOK
<1>5. Phase[t] = "idle" /\ Phase'[t] = "enq"
  BY <1>2, <1>4 DEF Phase, Unlinked, EnqLabels, DeqLabels
<1>6. Arg'[t] = v
  BY <1>4 DEF Arg, Unlinked, EnqLabels
<1>7. Res'[t] = Res[t]
  BY <1>2, <1>4 DEF Res
<1>8. Res' = Res
  <2>1. Res' = [Res EXCEPT ![t] = Res[t]]
    BY <1>3, <1>7, OthersSame
  <2> QED BY <2>1, CalleeFunctions
<1>9. Enqs' = Enqs
  BY <1>2, <1>3, EnqsSame DEF StepOf
<1> QED BY <1>2, <1>3, <1>5, <1>6, <1>8, <1>9, OthersSame DEF FIFO!EnqCall

LEMMA EnqNoMemoryFIFO ==
    ASSUME Inv, NEW t \in Threads, EnqNoMemory(t)
    PROVE  FIFO!EnqFail(t)
<1>1. /\ pc[t] = "idle" /\ pc'[t] = "enq_ret" /\ ret'[t] = FALSE
      /\ UNCHANGED <<head, chain, val, newNode, sawEmpty, out>>
  BY DEF EnqNoMemory, Goto, shared, Inv, TypeOK
<1>2. StepOf(t)
  BY DEF EnqNoMemory, Goto, shared, StepOf, Frame, Inv, TypeOK
<1>3. Phase[t] = "idle" /\ Phase'[t] = "enqRet"
  BY <1>1 DEF Phase, Unlinked, EnqLabels, DeqLabels
<1>4. Arg'[t] = Arg[t] /\ Res'[t] = Res[t]
  BY <1>1 DEF Arg, Res, Unlinked, EnqLabels
<1>5. Arg' = Arg
  <2>1. Arg' = [Arg EXCEPT ![t] = Arg[t]]
    BY <1>2, <1>4, OthersSame
  <2> QED BY <2>1, CalleeFunctions
<1>6. Res' = Res
  <2>1. Res' = [Res EXCEPT ![t] = Res[t]]
    BY <1>2, <1>4, OthersSame
  <2> QED BY <2>1, CalleeFunctions
<1>7. Enqs' = Enqs
  BY <1>1, <1>2, EnqsSame DEF StepOf
<1> QED BY <1>1, <1>2, <1>3, <1>5, <1>6, <1>7, OthersSame DEF FIFO!EnqFail

LEMMA DeqCallFIFO ==
    ASSUME Inv, NEW t \in Threads, DeqCall(t)
    PROVE  FIFO!DeqCall(t)
<1>1. /\ pc[t] = "idle" /\ pc'[t] = "d_head"
      /\ UNCHANGED <<head, chain, val, newNode, ret, sawEmpty, out>>
  BY DEF DeqCall, Goto, shared, locals, Inv, TypeOK
<1>2. StepOf(t)
  BY DEF DeqCall, Goto, shared, locals, StepOf, Frame, Inv, TypeOK
<1>3. Phase[t] = "idle" /\ Phase'[t] = "deq"
  BY <1>1 DEF Phase, Unlinked, EnqLabels, DeqLabels
<1>4. Arg'[t] = Arg[t] /\ Res'[t] = Res[t]
  BY <1>1 DEF Arg, Res, Unlinked, EnqLabels
<1>5. Arg' = Arg
  <2>1. Arg' = [Arg EXCEPT ![t] = Arg[t]]
    BY <1>2, <1>4, OthersSame
  <2> QED BY <2>1, CalleeFunctions
<1>6. Res' = Res
  <2>1. Res' = [Res EXCEPT ![t] = Res[t]]
    BY <1>2, <1>4, OthersSame
  <2> QED BY <2>1, CalleeFunctions
<1>7. Enqs' = Enqs
  BY <1>1, <1>2, EnqsSame DEF StepOf
<1> QED BY <1>1, <1>2, <1>3, <1>5, <1>6, <1>7, OthersSame DEF FIFO!DeqCall

LEMMA ReturnFIFO ==
    ASSUME Inv, NEW t \in Threads, Return(t)
    PROVE  FIFO!Return(t)
<1>1. /\ pc[t] \in {"enq_ret", "deq_ret"} /\ pc'[t] = "idle"
      /\ UNCHANGED <<head, chain, val>>
      /\ sawEmpty' = [sawEmpty EXCEPT ![t] = FALSE]
  BY DEF Return, Goto, shared, Inv, TypeOK
<1>2. StepOf(t)
  BY DEF Return, Goto, shared, StepOf, Frame, Inv, TypeOK
<1>3. Phase[t] \in {"enqRet", "deqRet"} /\ Phase'[t] = "idle"
  BY <1>1 DEF Phase, Unlinked, EnqLabels, DeqLabels
<1>4. Arg'[t] = Arg[t]
  BY <1>1 DEF Arg, Unlinked, EnqLabels
<1>5. Res'[t] = FIFO!NoRes
  BY <1>1 DEF Res, FIFO!NoRes
<1>6. Arg' = Arg
  <2>1. Arg' = [Arg EXCEPT ![t] = Arg[t]]
    BY <1>2, <1>4, OthersSame
  <2> QED BY <2>1, CalleeFunctions
<1>7. Enqs' = Enqs
  BY <1>1, <1>2, EnqsSame DEF StepOf
<1> QED BY <1>1, <1>2, <1>3, <1>5, <1>6, <1>7, OthersSame DEF FIFO!Return
-----------------------------------------------------------------------------
\* The queue of CASLockFreeQueue.c is an atomic first-in first-out queue for
\* every number of threads, nodes and values: linearizability.
THEOREM QueueIsFIFO == Spec => RefinesFIFO
<1>1. Inv /\ Inv' /\ [Next]_vars => [FIFO!Next]_(FIFO!vars)
  <2> SUFFICES ASSUME Inv, Inv', [Next]_vars
               PROVE  FIFO!Next \/ UNCHANGED FIFO!vars
    OBVIOUS
  <2>1. CASE UNCHANGED vars
    <3>1. UNCHANGED <<Enqs, Phase, Arg, Res, head.count, sawEmpty>>
      BY <2>1 DEF vars, shared, locals, Enqs, Phase, Arg, Res, Unlinked
    <3> QED BY <3>1 DEF FIFO!vars
  <2>2. CASE Next
    <3>1. PICK t \in Threads :
            \/ \E v \in Val : EnqCall(t, v)
            \/ EnqNoMemory(t) \/ DeqCall(t)
            \/ EnqStep(t) \/ DeqStep(t) \/ Return(t)
      BY <2>2 DEF Next
    <3>2. CASE \E v \in Val : EnqCall(t, v)
      BY <3>2, EnqCallFIFO DEF FIFO!Next
    <3>3. CASE EnqNoMemory(t) \/ DeqCall(t) \/ Return(t)
      BY <3>3, EnqNoMemoryFIFO, DeqCallFIFO, ReturnFIFO DEF FIFO!Next
    <3>4. CASE EnqStep(t)
      BY <3>4, EnqStepFIFO DEF FIFO!Next
    <3>5. CASE DeqStep(t)
      BY <3>5, DeqStepFIFO DEF FIFO!Next
    <3> QED BY <3>1, <3>2, <3>3, <3>4, <3>5
  <2> QED BY <2>1, <2>2
<1> QED BY <1>1, FIFOInit, Invariance, PTL DEF Spec, RefinesFIFO, FIFO!Spec
-----------------------------------------------------------------------------
(* The test bench *)

Slots == Threads \X (1..item_num)
Item(s) == s[1] * item_num + s[2]

\* How many items a worker has linked, and how many it has taken.
Issued(t) ==
    IF wpc[t] \in {"deq", "end"} THEN item_num
    ELSE IF Unlinked(t) THEN i[t] - 1 ELSE i[t]

Taken(t) ==
    IF wpc[t] = "end" THEN item_num
    ELSE IF wpc[t] # "deq" THEN 0
    ELSE IF pc[t] \in DeqLabels THEN i[t] - 1 ELSE i[t]

Filled == {s \in Slots : s[2] <= Issued(s[1])}
Emptied == {s \in Slots : s[2] <= Taken(s[1])}

\* The value of the k-th item of the list.
Entry(k) == val[chain[k + 1]]

BenchTypes ==
    /\ wpc \in [Threads -> {"start", "waiting", "woken", "enq", "deq", "end"}]
    /\ i \in [Threads -> 0..item_num]
    /\ getval \in [Threads -> Nat] /\ check \in [Val -> Nat]
    /\ freed \in BOOLEAN

\* Where a worker stands in its calls.
Stands(t) ==
    /\ wpc[t] \in {"start", "waiting", "woken"} => pc[t] = "idle" /\ i[t] = 0
    /\ wpc[t] = "enq" =>
        pc[t] = "idle" \/ (pc[t] \in EnqLabels \union {"enq_ret"} /\ i[t] > 0)
    /\ wpc[t] = "deq" =>
        pc[t] = "idle" \/ (pc[t] \in DeqLabels \union {"deq_ret"} /\ i[t] > 0)
    /\ wpc[t] = "end" => pc[t] = "idle"

Finished == {t \in Threads : wpc[t] = "end"}

MasterKnows ==
    /\ end_thread_num = Cardinality(Finished)
    /\ mpc \notin {"start", "waiting", "woken"} => end_thread_num = thread_num
    /\ freed => mpc \notin {"start", "waiting", "woken"}
    /\ result # "none" => mpc = "done"

\* The bench without the queue's contents.
Course == BenchTypes /\ MasterKnows /\ \A t \in Threads : Stands(t)

\* The list holds the items that were linked, each once.
Stocked ==
    /\ Cardinality(Filled) = Len(chain) - 1
    /\ \A s \in Filled : \E k \in 1..(Len(chain) - 1) : Entry(k) = Item(s)
    /\ \A k \in 1..(Len(chain) - 1) : \E s \in Filled : Entry(k) = Item(s)
    /\ \A j, k \in 1..(Len(chain) - 1) : Entry(j) = Entry(k) => j = k
    /\ \A t \in Threads :
        wpc[t] = "enq" /\ Unlinked(t) => val[newNode[t]] = t * item_num + i[t]

\* Head has passed one item for each that was taken, and no deq saw the
\* queue empty.
Drawn ==
    /\ Cardinality(Emptied) = head.count
    /\ \A t \in Threads : ~sawEmpty[t]
    /\ NoFailedDel

\* Each item that head has passed is checked once, or about to be, by one
\* worker.
InHand(v) == {t \in Threads : pc[t] = "deq_ret" /\ out[t] = v}

Checked ==
    /\ \A v \in Val : check[v] = 0 \/ (check[v] = 1 /\ InHand(v) = {})
    /\ \A v \in Val :
        check[v] = 1 \/ InHand(v) # {} <=> \E k \in 1..head.count : Entry(k) = v
    /\ \A t, u \in Threads : 
        pc[t] = "deq_ret" /\ pc[u] = "deq_ret" /\ out[t] = out[u] => t = u
    /\ \A t \in Threads : pc[t] = "deq_ret" => out[t] \in Val

BenchInv == Inv /\ Course /\ Stocked /\ Drawn /\ Checked
-----------------------------------------------------------------------------
(* Sums: a sum is the cardinality of a set of pairs *)

\* The sum of a function on s, as the number of pairs below its graph.
Under(f, s) == UNION {{x} \X (1..f[x]) : x \in s}

Total(f, s) == Cardinality(Under(f, s))

LEMMA UnderFinite ==
    ASSUME NEW s, IsFiniteSet(s), NEW f, \A x \in s : f[x] \in Nat
    PROVE  IsFiniteSet(Under(f, s)) /\ Total(f, s) \in Nat
<1> DEFINE C == {{x} \X (1..f[x]) : x \in s}
<1>1. \A x \in s : IsFiniteSet({x} \X (1..f[x]))
  <2> TAKE x \in s
  <2>1. IsFiniteSet({x})
    BY FS_Singleton
  <2>2. 1 \in Int /\ f[x] \in Int
    OBVIOUS
  <2>3. IsFiniteSet(1..f[x])
    BY <2>2, FS_Interval
  <2> QED BY <2>1, <2>3, FS_Product
<1>2. IsFiniteSet(C)
  <2>1. [x \in s |-> {x} \X (1..f[x])] \in Surjection(s, C)
    BY DEF Surjection
  <2> QED BY <2>1, FS_Surjection
<1>3. IsFiniteSet(UNION C)
  BY <1>1, <1>2, FS_UNION
<1> QED BY <1>3, FS_CardinalityType DEF Under, Total

\* One summand more.
LEMMA TotalAdd ==
    ASSUME NEW s, IsFiniteSet(s), NEW f, \A y \in s : f[y] \in Nat, NEW x \in s
    PROVE  Total(f, s) = f[x] + Total(f, s \ {x})
<1> DEFINE A == {x} \X (1..f[x])
           B == Under(f, s \ {x})
<1>1. IsFiniteSet(s \ {x})
  BY FS_RemoveElement
<1>2. IsFiniteSet(B) /\ Cardinality(B) \in Nat
  BY <1>1, UnderFinite DEF Total
<1>3. IsFiniteSet(A) /\ Cardinality(A) = f[x]
  <2>1. IsFiniteSet({x}) /\ Cardinality({x}) = 1
    BY FS_Singleton
  <2>2. IsFiniteSet(1..f[x]) /\ Cardinality(1..f[x]) = f[x]
    BY FS_Interval
  <2>3. IsFiniteSet(A) /\ Cardinality(A) = Cardinality({x}) * Cardinality(1..f[x])
    BY <2>1, <2>2, FS_Product
  <2> QED BY <2>1, <2>2, <2>3
<1>4. Under(f, s) = A \union B /\ A \cap B = {}
  BY DEF Under
<1> HIDE DEF A, B
<1>5. Cardinality(A \union B) = Cardinality(A) + Cardinality(B) - Cardinality(A \cap B)
  BY <1>2, <1>3, FS_Union
<1>6. Cardinality(A \cap B) = 0
  BY <1>4, FS_EmptySet
<1>7. Total(f, s) = f[x] + Cardinality(B)
  BY <1>2, <1>3, <1>4, <1>5, <1>6 DEF Total
<1> QED BY <1>7 DEF B, Total

LEMMA TotalNone ==
    ASSUME NEW f PROVE Total(f, {}) = 0
BY FS_EmptySet DEF Total, Under

LEMMA TotalSame ==
    ASSUME NEW s, NEW f, NEW g, \A x \in s : f[x] = g[x]
    PROVE  Total(f, s) = Total(g, s)
<1>1. {{x} \X (1..f[x]) : x \in s} = {{x} \X (1..g[x]) : x \in s}
  OBVIOUS
<1> QED BY <1>1 DEF Total, Under

\* A change of one summand.
LEMMA TotalChange ==
    ASSUME NEW s, IsFiniteSet(s), NEW f, NEW g, NEW x \in s, NEW d \in Nat,
           \A y \in s : f[y] \in Nat, g[x] = f[x] + d,
           \A y \in s \ {x} : g[y] = f[y]
    PROVE  Total(g, s) = Total(f, s) + d
<1>1. \A y \in s : g[y] \in Nat
  OBVIOUS
<1>2. Total(g, s) = g[x] + Total(g, s \ {x}) /\ Total(f, s) = f[x] + Total(f, s \ {x})
  BY <1>1, TotalAdd
<1>3. Total(g, s \ {x}) = Total(f, s \ {x})
  BY TotalSame
<1>4. IsFiniteSet(s \ {x})
  BY FS_RemoveElement
<1>5. Total(f, s \ {x}) \in Nat /\ f[x] \in Nat
  BY <1>4, UnderFinite
<1> QED BY <1>2, <1>3, <1>5

\* The recursion of the folds with +: take away an element and add its summand.
FoldsTo(h, f, S) ==
    h = [s \in SUBSET S |->
            IF s = {} THEN 0
            ELSE f[CHOOSE x \in s : TRUE] + h[s \ {CHOOSE x \in s : TRUE}]]

LEMMA TotalFolds ==
    ASSUME NEW S, IsFiniteSet(S), NEW f, \A y \in S : f[y] \in Nat
    PROVE  FoldsTo([s \in SUBSET S |-> Total(f, s)], f, S)
<1> DEFINE g == [s \in SUBSET S |-> Total(f, s)]
<1>1. ASSUME NEW s \in SUBSET S, s # {}
      PROVE  g[s] = f[CHOOSE x \in s : TRUE] + g[s \ {CHOOSE x \in s : TRUE}]
  <2>1. IsFiniteSet(s) /\ \A y \in s : f[y] \in Nat
    BY FS_Subset
  <2>2. PICK x \in s : x = CHOOSE y \in s : TRUE
    BY <1>1
  <2>3. Total(f, s) = f[x] + Total(f, s \ {x})
    BY <2>1, TotalAdd
  <2> QED BY <2>2, <2>3
<1>2. g[{}] = 0
  BY TotalNone
<1>3. g = [s \in SUBSET S |->
            IF s = {} THEN 0
            ELSE f[CHOOSE x \in s : TRUE] + g[s \ {CHOOSE x \in s : TRUE}]]
  BY <1>1, <1>2
<1> QED BY <1>3 DEF FoldsTo

\* A fold with + is the sum, in whatever order it takes the summands.
LEMMA FoldsToTotal ==
    ASSUME NEW S, IsFiniteSet(S), NEW f, \A y \in S : f[y] \in Nat,
           NEW h, FoldsTo(h, f, S)
    PROVE  h[S] = Total(f, S)
<1>1. ASSUME NEW s \in SUBSET S
      PROVE  IsFiniteSet(s) /\ \A y \in s : f[y] \in Nat
  BY FS_Subset
<1>2. \A s \in SUBSET S : h[s] = IF s = {} THEN 0
            ELSE f[CHOOSE x \in s : TRUE] + h[s \ {CHOOSE x \in s : TRUE}]
  BY DEF FoldsTo
<1> DEFINE Wrong == {s \in SUBSET S : h[s] # Total(f, s)}
<1>3. SUFFICES ASSUME Wrong # {} PROVE FALSE
  OBVIOUS
<1>4. Wrong \subseteq FiniteSubsetsOf(S)
  BY <1>1 DEF FiniteSubsetsOf
<1>5. PICK s \in Wrong : \A r \in Wrong : <<r, s>> \notin StrictSubsetOrdering(S)
  BY <1>3, <1>4, WFMin, FS_StrictSubsetOrderingWellFounded
<1>6. s # {}
  BY <1>2, <1>5, TotalNone
<1>7. PICK x \in s : x = CHOOSE y \in s : TRUE
  BY <1>6
<1>8. h[s] = f[x] + h[s \ {x}]
  BY <1>2, <1>5, <1>6, <1>7
<1>9. s \ {x} \in SUBSET S /\ s \in SUBSET S
  BY <1>5
<1>10. <<s \ {x}, s>> \in StrictSubsetOrdering(S)
  BY <1>7, <1>9 DEF StrictSubsetOrdering
<1>11. h[s \ {x}] = Total(f, s \ {x})
  BY <1>5, <1>9, <1>10
<1>12. Total(f, s) = f[x] + Total(f, s \ {x})
  BY <1>1, <1>9, TotalAdd
<1> QED BY <1>5, <1>8, <1>11, <1>12

\* The pairs under 1..n and their mirror image fill a rectangle.
LEMMA Gauss ==
    ASSUME NEW n \in Nat, NEW f, \A x \in 1..n : f[x] = x
    PROVE  2 * Total(f, 1..n) = n * (n + 1)
<1> DEFINE R == (1..n) \X (1..(n + 1))
           T == {p \in R : p[2] <= p[1]}
<1>1. IsFiniteSet(R) /\ Cardinality(R) = n * (n + 1)
  <2>1. IsFiniteSet(1..n) /\ Cardinality(1..n) = n
    BY FS_Interval
  <2>2. IsFiniteSet(1..(n + 1)) /\ Cardinality(1..(n + 1)) = n + 1
    BY FS_Interval
  <2>3. Cardinality(R) = Cardinality(1..n) * Cardinality(1..(n + 1))
    BY <2>1, <2>2, FS_Product
  <2> QED BY <2>1, <2>2, <2>3, FS_Product
<1>2. Under(f, 1..n) = T
  <2>1. Under(f, 1..n) = UNION {{x} \X (1..x) : x \in 1..n}
    BY DEF Under
  <2>2. ASSUME NEW p \in T PROVE p \in UNION {{x} \X (1..x) : x \in 1..n}
    <3>1. p[1] \in 1..n /\ p[2] \in 1..p[1] /\ p = <<p[1], p[2]>>
      OBVIOUS
    <3>2. p \in {p[1]} \X (1..p[1])
      BY <3>1
    <3> QED BY <3>1, <3>2
  <2>3. ASSUME NEW x \in 1..n, NEW p \in {x} \X (1..x) PROVE p \in T
    <3>1. p[1] = x /\ p[2] \in 1..x /\ p = <<p[1], p[2]>>
      OBVIOUS
    <3>2. p[2] \in 1..(n + 1) /\ p[2] <= p[1]
      BY <3>1
    <3> QED BY <3>1, <3>2
  <2> QED BY <2>1, <2>2, <2>3
<1>3. IsFiniteSet(T) /\ IsFiniteSet(R \ T) /\ Cardinality(T) \in Nat
      /\ Cardinality(R \ T) = n * (n + 1) - Cardinality(T)
  <2>1. R \cap T = T
    OBVIOUS
  <2>2. IsFiniteSet(T) /\ IsFiniteSet(R \ T)
    BY <1>1, FS_Subset
  <2>3. Cardinality(R \ T) = Cardinality(R) - Cardinality(R \cap T)
    BY <1>1, FS_Difference
  <2> QED BY <1>1, <2>1, <2>2, <2>3, FS_CardinalityType
<1>4. Cardinality(R \ T) = Cardinality(T)
  <2> DEFINE m == [p \in T |-> <<p[2], p[1] + 1>>]
  <2>1. ASSUME NEW p \in T
        PROVE  p = <<p[1], p[2]>> /\ p[1] \in 1..n /\ p[2] \in 1..n /\ p[2] <= p[1]
    OBVIOUS
  <2>2. ASSUME NEW p \in T PROVE m[p] \in R \ T
    <3>1. p[2] \in 1..n /\ p[1] + 1 \in 1..(n + 1) /\ ~(p[1] + 1 <= p[2])
      BY <2>1
    <3> QED BY <3>1
  <2>3. ASSUME NEW p \in T, NEW q \in T, m[p] = m[q] PROVE p = q
    <3>1. p[2] = q[2] /\ p[1] + 1 = q[1] + 1
      BY <2>3
    <3>2. p[1] = q[1]
      BY <2>1, <3>1
    <3> QED BY <2>1, <3>1, <3>2
  <2>4. ASSUME NEW q \in R \ T PROVE \E p \in T : m[p] = q
    <3>1. q = <<q[1], q[2]>> /\ q[1] \in 1..n /\ q[2] \in 1..(n + 1) /\ q[1] < q[2]
      OBVIOUS
    <3>2. q[2] - 1 \in 1..n /\ q[1] \in 1..(n + 1) /\ q[1] <= q[2] - 1 /\ (q[2] - 1) + 1 = q[2]
      BY <3>1
    <3>3. <<q[2] - 1, q[1]>> \in T
      BY <3>2
    <3>4. m[<<q[2] - 1, q[1]>>] = <<q[1], (q[2] - 1) + 1>>
      BY <3>3
    <3> QED BY <3>1, <3>2, <3>3, <3>4
  <2>5. m \in Bijection(T, R \ T)
    <3>1. m \in [T -> R \ T]
      BY <2>2
    <3> HIDE DEF m
    <3> QED BY <2>3, <2>4, <3>1 DEF Bijection, Injection, Surjection, IsInjective
  <2> QED BY <1>3, <2>5, FS_Bijection DEF ExistsBijection
<1> HIDE DEF R, T
<1>5. PICK m \in Nat : m = n * (n + 1)
  OBVIOUS
<1>6. 2 * Cardinality(T) = m
  BY <1>3, <1>4, <1>5
<1> QED BY <1>2, <1>5, <1>6 DEF Total
-----------------------------------------------------------------------------
(* Slots and items *)

LEMMA Sizes ==
    /\ thread_num \in Nat \ {0, 1} /\ item_num \in Nat \ {0}
    /\ Threads = 0..(thread_num - 1) /\ Threads \subseteq Nat
    /\ Val = 1..(thread_num * item_num)
    /\ IsFiniteSet(Threads) /\ Cardinality(Threads) = thread_num
<1>1. /\ thread_num \in Nat \ {0, 1} /\ item_num \in Nat \ {0}
      /\ Threads = 0..(thread_num - 1)
      /\ Val = 1..(thread_num * item_num)
  BY BenchAssumption
<1>2. IsFiniteSet(0..(thread_num - 1)) /\ Cardinality(0..(thread_num - 1)) = thread_num
  BY <1>1, FS_Interval
<1> QED BY <1>1, <1>2

LEMMA Times ==
    ASSUME NEW a \in Nat, NEW b \in Nat, NEW m \in Nat, a <= b
    PROVE  a * m <= b * m /\ a * m \in Nat /\ b * m \in Nat /\ (a + 1) * m = a * m + m
<1>1. (b - a) * m \in Nat /\ (b - a) * m = b * m - a * m
  OBVIOUS
<1> QED BY <1>1

\* Every item of the bench has one slot.
LEMMA ItemFacts ==
    /\ \A s \in Slots : Item(s) \in Val
    /\ \A s, r \in Slots : Item(s) = Item(r) => s = r
    /\ \A v \in Val : \E s \in Slots : Item(s) = v
<1> USE Sizes
<1>1. ASSUME NEW s \in Slots
      PROVE  /\ s[1] \in Nat /\ s[2] \in 1..item_num /\ s = <<s[1], s[2]>>
             /\ s[1] * item_num \in Nat /\ s[1] < thread_num
             /\ (s[1] + 1) * item_num = s[1] * item_num + item_num
  <2>1. s[1] \in Nat /\ s[2] \in 1..item_num /\ s = <<s[1], s[2]>> /\ s[1] < thread_num
    BY DEF Slots
  <2> QED BY <2>1, Times
<1>2. ASSUME NEW s \in Slots PROVE Item(s) \in Val
  <2>1. s[1] + 1 \in Nat /\ s[1] + 1 <= thread_num
    BY <1>1
  <2>2. (s[1] + 1) * item_num <= thread_num * item_num /\ thread_num * item_num \in Nat
    BY <2>1, Times
  <2>3. PICK p \in Nat : p = s[1] * item_num /\ (s[1] + 1) * item_num = p + item_num
    BY <1>1
  <2>4. PICK m \in Nat : m = thread_num * item_num
    BY <2>2
  <2>5. Item(s) = p + s[2]
    BY <2>3 DEF Item
  <2>6. p + item_num <= m /\ s[2] \in 1..item_num /\ item_num \in Nat
    BY <2>2, <2>3, <2>4, <1>1
  <2>7. p + s[2] \in 1..m
    BY ONLY <2>6
  <2>8. Val = 1..m
    BY <2>4
  <2> QED BY <2>5, <2>7, <2>8
<1>3. ASSUME NEW s \in Slots, NEW r \in Slots, s[1] < r[1] PROVE Item(s) # Item(r)
  <2>1. s[1] \in Nat /\ r[1] \in Nat
    BY <1>1
  <2>2. s[1] + 1 \in Nat /\ s[1] + 1 <= r[1]
    BY <2>1, <1>3
  <2>3. (s[1] + 1) * item_num <= r[1] * item_num
    BY <2>1, <2>2, Times
  <2>4. /\ s[2] \in 1..item_num /\ r[2] \in 1..item_num
        /\ s[1] * item_num \in Nat /\ r[1] * item_num \in Nat
        /\ (s[1] + 1) * item_num = s[1] * item_num + item_num
    BY <1>1
  <2> QED BY <2>3, <2>4 DEF Item
<1>4. ASSUME NEW s \in Slots, NEW r \in Slots, Item(s) = Item(r) PROVE s = r
  <2>1. s[1] \in Nat /\ r[1] \in Nat /\ ~(s[1] < r[1]) /\ ~(r[1] < s[1])
    BY <1>1, <1>3, <1>4
  <2>2. s[1] = r[1]
    BY <2>1
  <2>3. s[2] = r[2]
    <3>1. PICK p \in Nat : p = s[1] * item_num
      BY <1>1
    <3>2. s[2] \in 1..item_num /\ r[2] \in 1..item_num
      BY <1>1
    <3>3. p + s[2] = p + r[2]
      BY <3>1, <2>2, <1>4 DEF Item
    <3> QED BY ONLY <3>2, <3>3, Sizes
  <2> QED BY <2>2, <2>3, <1>1
<1>5. ASSUME NEW v \in Val PROVE \E s \in Slots : Item(s) = v
  <2> DEFINE q == (v - 1) \div item_num
             r == (v - 1) % item_num
  <2>1. v \in Nat /\ v - 1 \in Nat /\ v <= thread_num * item_num
    BY Times
  <2>2. q \in Nat /\ r \in 0..(item_num - 1) /\ v - 1 = item_num * q + r
    BY <2>1
  <2> HIDE DEF q, r
  <2>3. item_num * q = q * item_num /\ q * item_num \in Nat
    BY <2>2
  <2>4. q < thread_num
    <3> SUFFICES ASSUME thread_num <= q PROVE FALSE
      BY <2>2
    <3>1. thread_num * item_num <= q * item_num
      BY <2>2, Times
    <3> QED BY <3>1, <2>1, <2>2, <2>3
  <2>5. <<q, r + 1>> \in Slots
    BY <2>2, <2>4 DEF Slots
  <2>6. Item(<<q, r + 1>>) = v
    BY <2>1, <2>2, <2>3 DEF Item
  <2> QED BY <2>5, <2>6
<1> QED BY <1>2, <1>4, <1>5

LEMMA SlotsFinite ==
    /\ IsFiniteSet(Slots)
    /\ \A S \in SUBSET Slots : IsFiniteSet(S) /\ Cardinality(S) \in Nat
<1>1. IsFiniteSet(1..item_num)
  BY Sizes, FS_Interval
<1>2. IsFiniteSet(Slots)
  BY <1>1, Sizes, FS_Product DEF Slots
<1> QED BY <1>2, FS_Subset, FS_CardinalityType

\* Where a worker's counts stand.
LEMMA Counts ==
    ASSUME Course, NEW t \in Threads
    PROVE  /\ i[t] \in 0..item_num
           /\ Issued(t) \in 0..item_num /\ Taken(t) \in 0..item_num
           /\ Taken(t) <= Issued(t)
           /\ pc[t] \in DeqLabels => Taken(t) = i[t] - 1 /\ Issued(t) = item_num
                                     /\ i[t] \in 1..item_num /\ wpc[t] = "deq"
           /\ pc[t] \in EnqLabels => wpc[t] = "enq" /\ i[t] \in 1..item_num
<1>1. i[t] \in 0..item_num /\ item_num \in Nat \ {0} /\ Stands(t)
      /\ wpc[t] \in {"start", "waiting", "woken", "enq", "deq", "end"}
  BY Sizes DEF Course, BenchTypes
<1> QED BY <1>1 DEF Stands, Issued, Taken, Unlinked, EnqLabels, DeqLabels
-----------------------------------------------------------------------------
(* The course of the bench *)

LEMMA CourseInit == BenchInit => Course
<1> SUFFICES ASSUME BenchInit PROVE Course
  OBVIOUS
<1>1. /\ pc = [t \in Threads |-> "idle"]
      /\ wpc = [t \in Threads |-> "start"] /\ i = [t \in Threads |-> 0]
      /\ getval = [t \in Threads |-> 0] /\ check = [v \in Val |-> 0] /\ freed = FALSE
      /\ end_thread_num = 0 /\ mpc = "start" /\ result = "none"
  BY DEF BenchInit, Init
<1>2. item_num \in Nat
  BY Sizes
<1>3. BenchTypes
  <2>1. /\ i \in [Threads -> 0..item_num]
        /\ getval \in [Threads -> Nat] /\ check \in [Val -> Nat]
    BY <1>1, <1>2
  <2>2. /\ wpc \in [Threads -> {"start", "waiting", "woken", "enq", "deq", "end"}]
        /\ freed \in BOOLEAN
    BY <1>1
  <2> QED BY <2>1, <2>2 DEF BenchTypes
<1>4. Finished = {}
  BY <1>1 DEF Finished
<1>5. MasterKnows
  BY <1>1, <1>4, FS_EmptySet DEF MasterKnows
<1>6. ASSUME NEW t \in Threads PROVE Stands(t)
  BY <1>1 DEF Stands
<1> QED BY <1>3, <1>5, <1>6 DEF Course

\* Where one thread's step leaves the labels of the others.
LEMMA QueueSteps ==
    ASSUME NEW t \in Threads, pc \in [Threads -> Labels]
    PROVE  /\ EnqStep(t) => pc[t] \in EnqLabels /\ pc'[t] \in EnqLabels \union {"enq_ret"}
           /\ DeqStep(t) => pc[t] \in DeqLabels /\ pc'[t] \in DeqLabels \union {"deq_ret"}
           /\ EnqStep(t) \/ DeqStep(t) => \A u \in Threads \ {t} : pc'[u] = pc[u]
<1>1. ASSUME EnqStep(t)
      PROVE  /\ pc[t] \in EnqLabels /\ pc'[t] \in EnqLabels \union {"enq_ret"}
             /\ \A u \in Threads \ {t} : pc'[u] = pc[u]
  BY <1>1 DEF EnqStep, EnqReadTailCount, EnqReadTailPtr, EnqReadNextCount,
      EnqReadNextPtr, EnqCheckCount, EnqCheckPtr, EnqLink, EnqHelp, EnqSwing,
      Goto, LoadWord, EnqLabels
<1>2. ASSUME DeqStep(t)
      PROVE  /\ pc[t] \in DeqLabels /\ pc'[t] \in DeqLabels \union {"deq_ret"}
             /\ \A u \in Threads \ {t} : pc'[u] = pc[u]
  BY <1>2 DEF DeqStep, DeqReadHeadCount, DeqReadHeadPtr, DeqReadTailCount,
      DeqReadTailPtr, DeqReadNextCount, DeqReadNextPtr, DeqCheckCount,
      DeqCheckPtr, DeqHelp, DeqReadVal, DeqSwing, Goto, LoadWord, DeqLabels
<1> QED BY <1>1, <1>2

\* The next state is one of the course if the master knows what it did, and
\* each worker stands where it may.
LEMMA CourseOfWorker ==
    ASSUME Course, BenchTypes', NEW t \in Threads, Stands(t)',
           \A u \in Threads \ {t} : pc'[u] = pc[u] /\ wpc'[u] = wpc[u] /\ i'[u] = i[u],
           wpc'[t] = "end" <=> wpc[t] = "end",
           UNCHANGED <<end_thread_num, mpc, freed, result>>
    PROVE  Course'
<1>1. Finished' = Finished
  BY DEF Finished
<1>2. MasterKnows'
  BY <1>1 DEF Course, MasterKnows
<1>3. ASSUME NEW u \in Threads \ {t} PROVE Stands(u)'
  BY <1>3 DEF Course, Stands
<1> QED BY <1>2, <1>3 DEF Course

LEMMA BarrierCourse ==
    ASSUME Course, NEW t \in Threads,
           WorkerBegin(t) \/ WorkerWake(t) \/ SpuriousWake
    PROVE  /\ Course'
           /\ \A u \in Threads :
                wpc'[u] = wpc[u]
                \/ (wpc[u] \in {"start", "waiting", "woken"}
                    /\ wpc'[u] \in {"waiting", "woken", "enq"} /\ pc[u] = "idle" /\ i[u] = 0)
           /\ UNCHANGED <<vars, i, check>>
<1> USE DEF Course
<1>1. /\ UNCHANGED <<vars, i, getval, check, end_thread_num, freed, result>>
      /\ pc' = pc
      /\ mpc' = mpc \/ (mpc = "waiting" /\ mpc' = "woken")
  BY DEF WorkerBegin, WorkerWake, SpuriousWake, vars
<1>2. \A u \in Threads : Stands(u) /\ wpc[u] \in {"start", "waiting", "woken", "enq", "deq", "end"}
  BY DEF BenchTypes
<1>3. /\ wpc' \in [Threads -> {"start", "waiting", "woken", "enq", "deq", "end"}]
      /\ \A u \in Threads :
            wpc'[u] = wpc[u]
            \/ (wpc[u] \in {"start", "waiting", "woken"}
                /\ wpc'[u] \in {"waiting", "woken", "enq"})
  BY DEF WorkerBegin, WorkerWake, SpuriousWake, Awaken, BenchTypes
<1>4. BenchTypes'
  BY <1>1, <1>3 DEF BenchTypes
<1>5. Finished' = Finished
  BY <1>3 DEF Finished
<1>6. MasterKnows'
  BY <1>1, <1>5 DEF MasterKnows
<1>7. \A u \in Threads : Stands(u)'
  BY <1>1, <1>2, <1>3 DEF Stands
<1>8. \A u \in Threads : wpc[u] \in {"start", "waiting", "woken"} => pc[u] = "idle" /\ i[u] = 0
  BY <1>2 DEF Stands
<1> QED BY <1>1, <1>3, <1>4, <1>6, <1>7, <1>8

LEMMA WorkerCourse ==
    ASSUME Inv, Inv', Course, getval' \in [Threads -> Nat],
           check' \in [Val -> Nat], NEW t \in Threads,
           \/ WorkerCall(t) \/ WorkerReturn(t) \/ WorkerTurn(t)
           \/ (EnqStep(t) \/ DeqStep(t)) /\ UNCHANGED bench
    PROVE  Course'
<1> USE DEF Course
<1>1. pc \in [Threads -> Labels] /\ pc' \in [Threads -> Labels]
  BY DEF Inv, TypeOK
<1>2. /\ Stands(t) /\ BenchTypes /\ item_num \in Nat \ {0}
      /\ i[t] \in 0..item_num
      /\ wpc[t] \in {"start", "waiting", "woken", "enq", "deq", "end"}
  BY Sizes DEF BenchTypes
<1>3. CASE WorkerCall(t)
  <2>1. /\ pc[t] = "idle" /\ i[t] < item_num /\ i' = [i EXCEPT ![t] = @ + 1]
        /\ \/ wpc[t] = "enq" /\ pc' = [pc EXCEPT ![t] = "e_tail"]
           \/ wpc[t] = "deq" /\ pc' = [pc EXCEPT ![t] = "d_head"]
        /\ UNCHANGED <<end_thread_num, wpc, getval, check, mpc, freed, result>>
    BY <1>3 DEF WorkerCall, EnqCall, DeqCall, Goto
  <2>2. BenchTypes'
    BY <1>2, <2>1 DEF BenchTypes
  <2>3. Stands(t)'
    BY <1>1, <1>2, <2>1 DEF Stands, EnqLabels, DeqLabels, BenchTypes
  <2> QED BY <1>1, <1>2, <2>1, <2>2, <2>3, CourseOfWorker DEF BenchTypes
<1>4. CASE WorkerReturn(t)
  <2>1. /\ pc' = [pc EXCEPT ![t] = "idle"]
        /\ wpc[t] \in {"enq", "deq"}
        /\ UNCHANGED <<end_thread_num, wpc, i, mpc, freed, result>>
    BY <1>4 DEF WorkerReturn, Return, Goto
  <2>2. BenchTypes'
    BY <1>2, <2>1 DEF BenchTypes
  <2>3. Stands(t)'
    BY <1>1, <2>1 DEF Stands
  <2> QED BY <1>1, <2>1, <2>2, <2>3, CourseOfWorker
<1>5. CASE WorkerTurn(t)
  <2>1. /\ pc' = pc /\ pc[t] = "idle" /\ wpc[t] = "enq"
        /\ wpc' = [wpc EXCEPT ![t] = "deq"] /\ i' = [i EXCEPT ![t] = 0]
        /\ UNCHANGED <<end_thread_num, getval, check, mpc, freed, result>>
    BY <1>5 DEF WorkerTurn, vars
  <2>2. BenchTypes'
    BY <1>2, <2>1 DEF BenchTypes
  <2>3. Stands(t)'
    BY <2>1, <1>2 DEF Stands, BenchTypes
  <2> QED BY <1>1, <2>1, <2>2, <2>3, CourseOfWorker DEF BenchTypes
<1>6. CASE (EnqStep(t) \/ DeqStep(t)) /\ UNCHANGED bench
  <2>1. UNCHANGED <<end_thread_num, wpc, i, getval, check, mpc, freed, result>>
    BY <1>6 DEF bench
  <2>2. BenchTypes'
    BY <1>2, <2>1 DEF BenchTypes
  <2>3. Stands(t)'
    BY <1>1, <1>2, <1>6, <2>1, QueueSteps DEF Stands, EnqLabels, DeqLabels
  <2> QED BY <1>1, <1>6, <2>1, <2>2, <2>3, QueueSteps, CourseOfWorker
<1> QED BY <1>3, <1>4, <1>5, <1>6

LEMMA WorkerEndCourse ==
    ASSUME Course, NEW t \in Threads, WorkerEnd(t) PROVE Course'
<1> USE DEF Course
<1>1. /\ wpc[t] = "deq" /\ pc[t] = "idle"
      /\ wpc' = [wpc EXCEPT ![t] = "end"] /\ end_thread_num' = end_thread_num + 1
      /\ mpc' = IF mpc = "waiting" THEN "woken" ELSE mpc
      /\ UNCHANGED <<pc, i, getval, check, freed, result>>
  BY DEF WorkerEnd, vars
<1>2. BenchTypes'
  BY <1>1 DEF BenchTypes
<1>3. /\ Finished' = Finished \union {t} /\ t \notin Finished
      /\ Finished \subseteq Threads /\ Finished' \subseteq Threads
  BY <1>1 DEF Finished, BenchTypes
<1>4. /\ Cardinality(Finished) \in Nat
      /\ Cardinality(Finished') = Cardinality(Finished) + 1
      /\ Cardinality(Finished') <= thread_num
  <2>1. IsFiniteSet(Finished)
    BY <1>3, Sizes, FS_Subset
  <2>2. Cardinality(Finished) \in Nat
    BY <2>1, FS_CardinalityType
  <2>3. Cardinality(Finished \union {t}) = Cardinality(Finished) + 1
    BY <2>1, <1>3, FS_AddElement
  <2>4. Cardinality(Finished') <= Cardinality(Threads)
    BY <1>3, Sizes, FS_Subset
  <2> QED BY <2>2, <2>3, <2>4, <1>3, Sizes
<1>5. end_thread_num' = Cardinality(Finished') /\ end_thread_num # thread_num
  BY <1>1, <1>4, Sizes DEF MasterKnows
<1>6. MasterKnows'
  BY <1>1, <1>5 DEF MasterKnows
<1>7. \A u \in Threads : Stands(u)'
  BY <1>1 DEF Stands, BenchTypes
<1> QED BY <1>2, <1>6, <1>7

LEMMA MasterCourse ==
    ASSUME Course, MasterStep PROVE Course'
<1> USE DEF Course
<1>1. UNCHANGED <<pc, i, getval, check, wpc, end_thread_num>>
  BY DEF MasterStep, MasterWait, MasterFree, MasterReport, vars
<1>2. freed' \in BOOLEAN
  BY DEF MasterStep, MasterWait, MasterFree, MasterReport, BenchTypes
<1>3. BenchTypes'
  BY <1>1, <1>2 DEF BenchTypes
<1>4. Finished' = Finished
  BY <1>1 DEF Finished
<1>5. ASSUME MasterWait \/ MasterFree PROVE MasterKnows'
  BY <1>1, <1>4, <1>5 DEF MasterKnows, MasterWait, MasterFree
<1>6. ASSUME MasterReport PROVE MasterKnows'
  <2>1. mpc = "report" /\ mpc' = "done" /\ freed' = freed
    BY <1>6 DEF MasterReport
  <2> QED BY <1>1, <1>4, <2>1 DEF MasterKnows
<1>7. \A u \in Threads : Stands(u)'
  BY <1>1 DEF Stands
<1>8. MasterKnows'
  BY <1>5, <1>6 DEF MasterStep
<1> QED BY <1>3, <1>7, <1>8

\* Once all have ended, nobody is in a call.
LEMMA AllFinished ==
    ASSUME Course, mpc \notin {"start", "waiting", "woken"}
    PROVE  \A t \in Threads : wpc[t] = "end" /\ pc[t] = "idle"
<1>1. Cardinality(Finished) = Cardinality(Threads)
  BY Sizes DEF Course, MasterKnows
<1>2. Finished = Threads
  BY <1>1, Sizes, FS_Subset DEF Finished
<1>3. \A t \in Threads : Stands(t)
  BY DEF Course
<1> QED BY <1>2, <1>3 DEF Finished, Stands
-----------------------------------------------------------------------------
(* What leaves the items alone *)

\* The entries of the list are the same after a step that does not touch it.
SameList ==
    /\ chain' = chain /\ head'.count = head.count
    /\ \A n \in allocated : val'[n] = val[n]

LEMMA SameEntries ==
    ASSUME Inv, SameList
    PROVE  \A k \in 1..(Len(chain) - 1) : Entry(k)' = Entry(k)
<1>1. Len(chain) \in Nat /\ \A j \in 1..Len(chain) : chain[j] \in allocated
  BY Basics
<1> QED BY <1>1 DEF SameList, Entry

\* Nobody links or takes an item.
SameCounts ==
    \A t \in Threads : Issued(t)' = Issued(t) /\ Taken(t)' = Taken(t)

LEMMA SameSlots ==
    ASSUME SameCounts PROVE Filled' = Filled /\ Emptied' = Emptied
<1>1. \A s \in Slots : s[1] \in Threads
  BY DEF Slots
<1>2. Slots' = Slots
  BY DEF Slots
<1>3. Filled' = Filled
  BY <1>1, <1>2 DEF SameCounts, Filled
<1>4. Emptied' = Emptied
  BY <1>1, <1>2 DEF SameCounts, Emptied
<1> QED BY <1>3, <1>4

LEMMA StockedSame ==
    ASSUME Inv, Stocked, SameList, SameCounts,
           \A t \in Threads :
             (wpc[t] = "enq" /\ Unlinked(t) => val[newNode[t]] = t * item_num + i[t])'
    PROVE  Stocked'
<1>1. Len(chain) \in Nat /\ chain' = chain
  BY Basics DEF SameList
<1>2. \A k \in 1..(Len(chain) - 1) : Entry(k)' = Entry(k)
  BY SameEntries
<1>3. Filled' = Filled
  BY SameSlots
<1>4. \A s : Item(s)' = Item(s)
  BY DEF Item
<1>5. /\ Cardinality(Filled) = Len(chain) - 1
      /\ \A s \in Filled : \E k \in 1..(Len(chain) - 1) : Entry(k) = Item(s)
      /\ \A k \in 1..(Len(chain) - 1) : \E s \in Filled : Entry(k) = Item(s)
      /\ \A j, k \in 1..(Len(chain) - 1) : Entry(j) = Entry(k) => j = k
  BY DEF Stocked
<1>6. (Cardinality(Filled) = Len(chain) - 1)'
  BY <1>1, <1>3, <1>5
<1>7. (\A s \in Filled : \E k \in 1..(Len(chain) - 1) : Entry(k) = Item(s))'
  BY <1>1, <1>2, <1>3, <1>4, <1>5
<1>8. (\A k \in 1..(Len(chain) - 1) : \E s \in Filled : Entry(k) = Item(s))'
  BY <1>1, <1>2, <1>3, <1>4, <1>5
<1>9. (\A j, k \in 1..(Len(chain) - 1) : Entry(j) = Entry(k) => j = k)'
  BY <1>1, <1>2, <1>5
<1> QED BY <1>6, <1>7, <1>8, <1>9 DEF Stocked

LEMMA DrawnSame ==
    ASSUME Drawn, SameList, SameCounts,
           \A t \in Threads : ~sawEmpty'[t], NoFailedDel'
    PROVE  Drawn'
<1>1. Emptied' = Emptied
  BY SameSlots
<1> QED BY <1>1 DEF Drawn, SameList

LEMMA CheckedSame ==
    ASSUME Inv, Checked, SameList, check' = check,
           \A t \in Threads : /\ pc'[t] = "deq_ret" <=> pc[t] = "deq_ret"
                              /\ pc[t] = "deq_ret" => out'[t] = out[t]
    PROVE  Checked'
<1>1. head.count \in Nat /\ head.count \in 0..(Len(chain) - 1) /\ Len(chain) \in Nat
  BY Basics
<1>2. \A k \in 1..head.count : Entry(k)' = Entry(k)
  BY <1>1, SameEntries
<1>3. \A v : InHand(v)' = InHand(v)
  BY DEF InHand
<1>4. (\A v \in Val : check[v] = 0 \/ (check[v] = 1 /\ InHand(v) = {}))'
  BY <1>3 DEF Checked
<1>5. (\A v \in Val : check[v] = 1 \/ InHand(v) # {} <=> \E k \in 1..head.count : Entry(k) = v)'
  <2>1. head'.count = head.count
    BY DEF SameList
  <2>2. \A v \in Val : check[v] = 1 \/ InHand(v) # {} <=> \E k \in 1..head.count : Entry(k) = v
    BY DEF Checked
  <2> QED BY <1>2, <1>3, <2>1, <2>2
<1>6. (\A t, u \in Threads :
        pc[t] = "deq_ret" /\ pc[u] = "deq_ret" /\ out[t] = out[u] => t = u)'
  BY DEF Checked
<1>7. (\A t \in Threads : pc[t] = "deq_ret" => out[t] \in Val)'
  BY DEF Checked
<1> QED BY <1>4, <1>5, <1>6, <1>7 DEF Checked

\* All of it, for a step that leaves what the queue knows alone.
LEMMA ItemsSame ==
    ASSUME BenchInv, UNCHANGED vars, check' = check, SameCounts,
           \A t \in Threads : wpc'[t] = "enq" /\ Unlinked(t) => wpc[t] = "enq" /\ i'[t] = i[t]
    PROVE  Stocked' /\ Drawn' /\ Checked'
<1> USE DEF BenchInv
<1>1. SameList
  BY DEF vars, shared, SameList
<1>2. /\ pc' = pc /\ out' = out /\ sawEmpty' = sawEmpty /\ ret' = ret
      /\ val' = val /\ newNode' = newNode
  BY DEF vars, shared, locals
<1>3. \A t \in Threads :
        (wpc[t] = "enq" /\ Unlinked(t) => val[newNode[t]] = t * item_num + i[t])'
  <2> SUFFICES ASSUME NEW t \in Threads, wpc'[t] = "enq", Unlinked(t)'
               PROVE  val'[newNode'[t]] = t * item_num + i'[t]
    OBVIOUS
  <2>1. Unlinked(t)
    BY <1>2 DEF Unlinked
  <2>2. val[newNode[t]] = t * item_num + i[t]
    BY <2>1 DEF Stocked
  <2> QED BY <1>2, <2>1, <2>2
<1>4. Stocked'
  BY <1>1, <1>3, StockedSame
<1>5. (\A t \in Threads : ~sawEmpty'[t]) /\ NoFailedDel'
  BY <1>2 DEF Drawn, NoFailedDel
<1>6. Drawn'
  BY <1>1, <1>5, DrawnSame
<1>7. Checked'
  BY <1>1, <1>2, CheckedSame
<1> QED BY <1>4, <1>6, <1>7

\* A step of enq or deq that neither links nor takes an item.
LEMMA QueueStepSame ==
    ASSUME BenchInv, NEW t \in Threads, UNCHANGED bench, SameList, val' = val,
           newNode' = newNode, sawEmpty' = sawEmpty,
           \A u \in Threads \ {t} : pc'[u] = pc[u] /\ out'[u] = out[u] /\ ret'[u] = ret[u],
           Unlinked(t)' <=> Unlinked(t),
           pc'[t] \in DeqLabels <=> pc[t] \in DeqLabels,
           pc[t] # "deq_ret", pc'[t] # "deq_ret"
    PROVE  Stocked' /\ Drawn' /\ Checked'
<1> USE DEF BenchInv
<1>1. /\ wpc' = wpc /\ i' = i /\ check' = check
      /\ \A u \in Threads : Unlinked(u)' <=> Unlinked(u)
      /\ \A u \in Threads : pc'[u] \in DeqLabels <=> pc[u] \in DeqLabels
  BY DEF bench, Unlinked
<1>2. SameCounts
  BY <1>1 DEF SameCounts, Issued, Taken
<1>3. Stocked'
  <2>1. \A u \in Threads :
          (wpc[u] = "enq" /\ Unlinked(u) => val[newNode[u]] = u * item_num + i[u])'
    BY <1>1 DEF Stocked
  <2> QED BY <1>2, <2>1, StockedSame
<1>4. Drawn'
  <2>1. (\A u \in Threads : ~sawEmpty'[u]) /\ NoFailedDel'
    BY DEF Drawn, NoFailedDel
  <2> QED BY <1>2, <2>1, DrawnSame
<1>5. Checked'
  BY <1>1, CheckedSame
<1> QED BY <1>3, <1>4, <1>5
-----------------------------------------------------------------------------
(* Dequeues *)

\* No item is taken before it is linked.
LEMMA TakenAreIssued ==
    ASSUME Course
    PROVE  /\ Emptied \subseteq Filled
           /\ Emptied \in SUBSET Slots /\ Filled \in SUBSET Slots
<1>1. ASSUME NEW s \in Slots, s[2] <= Taken(s[1]) PROVE s[2] <= Issued(s[1])
  <2>1. s[1] \in Threads /\ s[2] \in Nat
    BY DEF Slots
  <2>2. Taken(s[1]) \in Nat /\ Issued(s[1]) \in Nat /\ Taken(s[1]) <= Issued(s[1])
    BY <2>1, Counts, Sizes
  <2> QED BY <2>1, <2>2, <1>1
<1> QED BY <1>1 DEF Emptied, Filled

\* While a deq runs, the queue is not empty: the worker's own item is among
\* those that were linked and not among those that were taken.
LEMMA NotEmpty ==
    ASSUME BenchInv, NEW t \in Threads, pc[t] \in DeqLabels
    PROVE  head.count + 1 < Len(chain)
<1> USE DEF BenchInv
<1>1. Taken(t) = i[t] - 1 /\ Issued(t) = item_num /\ i[t] \in 1..item_num
  BY Counts
<1>2. <<t, i[t]>> \in Filled /\ <<t, i[t]>> \notin Emptied
  <2>1. <<t, i[t]>> \in Slots
    BY <1>1 DEF Slots
  <2>2. i[t] <= Issued(t) /\ ~(i[t] <= Taken(t))
    BY <1>1, Sizes
  <2> QED BY <2>1, <2>2 DEF Filled, Emptied
<1>3. Emptied \in SUBSET Filled /\ IsFiniteSet(Filled) /\ Emptied # Filled
  BY <1>2, TakenAreIssued, SlotsFinite
<1>4. Cardinality(Emptied) <= Cardinality(Filled) /\ Cardinality(Emptied) # Cardinality(Filled)
  BY <1>3, FS_Subset
<1> QED BY <1>4, Basics DEF Stocked, Drawn

LEMMA DeqReadNextPtrItems ==
    ASSUME BenchInv, NEW t \in Threads, DeqReadNextPtr(t), UNCHANGED bench
    PROVE  Stocked' /\ Drawn' /\ Checked'
<1>1. /\ pc[t] \in {"d_next", "d_np"} /\ pc \in [Threads -> Labels]
      /\ \E l \in {"d_nc", "d_chkc"} : pc' = [pc EXCEPT ![t] = l]
  BY DEF DeqReadNextPtr, Goto, LoadWord, BenchInv, Inv, TypeOK
<1>2. ~(head.count + 1 = Len(chain))
  BY <1>1, NotEmpty, Basics DEF DeqLabels, BenchInv
<1>3. sawEmpty' = sawEmpty
  <2>1. sawEmpty \in [Threads -> BOOLEAN]
    BY DEF BenchInv, Inv, TypeOK
  <2>2. sawEmpty' = [sawEmpty EXCEPT ![t] = sawEmpty[t] \/ head.count + 1 = Len(chain)]
    BY DEF DeqReadNextPtr
  <2>3. (sawEmpty[t] \/ head.count + 1 = Len(chain)) = sawEmpty[t]
    BY <1>2, <2>1
  <2> QED BY <2>1, <2>2, <2>3
<1>4. SameList /\ val' = val /\ newNode' = newNode /\ out' = out /\ ret' = ret
  BY DEF DeqReadNextPtr, shared, SameList
<1>5. /\ pc'[t] \in {"d_nc", "d_chkc"} /\ \A u \in Threads \ {t} : pc'[u] = pc[u]
      /\ (Unlinked(t)' <=> Unlinked(t))
  BY <1>1 DEF Unlinked, EnqLabels
<1> QED BY <1>1, <1>3, <1>4, <1>5, QueueStepSame DEF DeqLabels

LEMMA DeqCheckPtrItems ==
    ASSUME BenchInv, NEW t \in Threads, DeqCheckPtr(t), UNCHANGED bench
    PROVE  Stocked' /\ Drawn' /\ Checked'
<1>1. pc[t] = "d_chkp" /\ pc \in [Threads -> Labels]
  BY DEF DeqCheckPtr, BenchInv, Inv, TypeOK
<1>2. lnext[t].ptr # NULL \/ lhead[t].ptr # ltail[t].ptr
  BY <1>1 DEF BenchInv, Inv, LocalKnowledge, DeqKnows, Drawn
<1>3. \E l \in {"d_head", "d_help", "d_val"} : pc' = [pc EXCEPT ![t] = l]
  BY <1>2 DEF DeqCheckPtr, Goto
<1>4. SameList /\ val' = val /\ newNode' = newNode /\ out' = out /\ sawEmpty' = sawEmpty
  BY DEF DeqCheckPtr, shared, SameList
<1>5. ret' = ret
  BY <1>2 DEF DeqCheckPtr
<1>6. /\ pc'[t] \in {"d_head", "d_help", "d_val"} /\ \A u \in Threads \ {t} : pc'[u] = pc[u]
      /\ (Unlinked(t)' <=> Unlinked(t))
  BY <1>1, <1>3 DEF Unlinked, EnqLabels
<1> QED BY <1>1, <1>4, <1>5, <1>6, QueueStepSame DEF DeqLabels

\* The deq that moves head takes the next item.
LEMMA TakeItems ==
    ASSUME BenchInv, Inv', NEW t \in Threads, DeqSwing(t), head = lhead[t], UNCHANGED bench
    PROVE  Stocked' /\ Drawn' /\ Checked'
<1> USE DEF BenchInv
<1>1. /\ pc[t] = "d_cas" /\ pc' = [pc EXCEPT ![t] = "deq_ret"]
      /\ head' = Ptr(lnext[t].ptr, lhead[t].count + 1)
      /\ ret' = [ret EXCEPT ![t] = TRUE]
      /\ UNCHANGED <<next, val, chain, newNode, out, sawEmpty>>
      /\ UNCHANGED <<wpc, i, check>>
  BY DEF DeqSwing, Goto, Cas, bench
<1>2. /\ pc \in [Threads -> Labels] /\ ret \in [Threads -> BOOLEAN]
      /\ head.count \in Nat /\ Len(chain) \in Nat
      /\ DeqKnows(t)
  BY Basics DEF Inv, TypeOK, LocalKnowledge
<1>3. head'.count = head.count + 1 /\ head.count + 1 < Len(chain)
  BY <1>1, NotEmpty DEF Ptr, DeqLabels
<1>4. out[t] = Entry(head.count + 1)
  <2>1. /\ out[t] = val[lnext[t].ptr] /\ lnext[t].ptr # NULL
        /\ lnext[t].ptr = next[lhead[t].ptr].ptr
    BY <1>1, <1>2 DEF DeqKnows
  <2>2. lhead[t].ptr = chain[head.count + 1]
    BY DEF Inv, EndsInOrder
  <2>3. lnext[t].ptr = chain[head.count + 2]
    <3>1. Inv /\ head.count \in Nat /\ head.count < Len(chain)
      BY <1>2, <1>3
    <3>2. next[chain[head.count + 1]].ptr # NULL
              => next[chain[head.count + 1]].ptr = chain[head.count + 2]
      BY ONLY <3>1, Links
    <3> QED BY <2>1, <2>2, <3>2
  <2>4. (head.count + 1) + 1 = head.count + 2
    BY <1>2
  <2> QED BY <2>1, <2>3, <2>4 DEF Entry
<1>5. /\ pc'[t] = "deq_ret" /\ \A u \in Threads \ {t} : pc'[u] = pc[u]
      /\ \A u \in Threads : Unlinked(u)' <=> Unlinked(u)
  BY <1>1, <1>2 DEF Unlinked, EnqLabels
<1>6. Taken(t) = i[t] - 1 /\ i[t] \in 1..item_num /\ wpc[t] = "deq"
  BY <1>1, Counts DEF DeqLabels
<1>7. \A u \in Threads : Issued(u)' = Issued(u)
  BY <1>1, <1>5 DEF Issued
<1>8. Taken(t)' = i[t] /\ \A u \in Threads \ {t} : Taken(u)' = Taken(u)
  BY <1>1, <1>5, <1>6 DEF Taken, DeqLabels
<1>9. Emptied' = Emptied \union {<<t, i[t]>>} /\ <<t, i[t]>> \notin Emptied
  <2>1. \A s \in Slots : s[1] \in Threads /\ s[2] \in Nat /\ s = <<s[1], s[2]>>
    BY DEF Slots
  <2>2. <<t, i[t]>> \in Slots /\ Slots' = Slots
    BY <1>6 DEF Slots
  <2>3. ASSUME NEW s \in Slots
        PROVE  s[2] <= Taken(s[1])' <=> (s[2] <= Taken(s[1]) \/ s = <<t, i[t]>>)
    <3>1. CASE s[1] = t
      <4>1. s = <<t, i[t]>> <=> s[2] = i[t]
        BY <2>1, <3>1
      <4>2. s[2] <= i[t] <=> s[2] <= i[t] - 1 \/ s[2] = i[t]
        BY <2>1, <1>6, Sizes
      <4> QED BY <4>1, <4>2, <3>1, <1>6, <1>8
    <3>2. CASE s[1] # t
      BY <2>1, <3>2, <1>8
    <3> QED BY <3>1, <3>2
  <2>4. ~(i[t] <= Taken(t))
    BY <1>6, Sizes
  <2> QED BY <2>2, <2>3, <2>4 DEF Emptied
<1>10. Cardinality(Emptied') = Cardinality(Emptied) + 1
  BY <1>9, TakenAreIssued, SlotsFinite, FS_AddElement
<1>11. Drawn'
  BY <1>1, <1>2, <1>3, <1>5, <1>10 DEF Drawn, NoFailedDel
<1>12. Stocked'
  <2>1. Filled' = Filled
    <3>1. \A s \in Slots : s[1] \in Threads
      BY DEF Slots
    <3>2. Slots' = Slots
      BY DEF Slots
    <3> QED BY <1>7, <3>1, <3>2 DEF Filled
  <2>2. \A k : Entry(k)' = Entry(k)
    BY <1>1 DEF Entry
  <2>3. \A s : Item(s)' = Item(s)
    BY DEF Item
  <2> QED BY <1>1, <1>5, <2>1, <2>2, <2>3 DEF Stocked
<1>13. Checked'
  <2>0. PICK w : w = Entry(head.count + 1)
    OBVIOUS
  <2>1. \A k : Entry(k)' = Entry(k)
    BY <1>1 DEF Entry
  <2>2. \A k \in 1..head.count : Entry(k) # w
    <3>1. \A j, k \in 1..(Len(chain) - 1) : Entry(j) = Entry(k) => j = k
      BY DEF Stocked
    <3> QED BY <1>2, <1>3, <2>0, <3>1
  <2>3. w \in Val
    <3>1. head.count + 1 \in 1..(Len(chain) - 1)
      BY <1>2, <1>3
    <3>2. PICK s \in Filled : w = Item(s)
      BY <2>0, <3>1 DEF Stocked
    <3> QED BY <3>2, ItemFacts DEF Filled
  <2>4. check[w] = 0 /\ InHand(w) = {}
    BY <2>2, <2>3 DEF Checked
  <2>5. InHand(w)' = {t} /\ \A v : v # w => InHand(v)' = InHand(v)
    <3>1. out[t] = w
      BY <1>4, <2>0
    <3>2. \A u \in Threads \ {t} : ~(pc'[u] = "deq_ret" /\ out'[u] = w)
      BY <1>1, <1>5, <2>4 DEF InHand
    <3> QED BY <1>1, <1>5, <3>1, <3>2 DEF InHand
  <2>6. (\A v \in Val : check[v] = 0 \/ (check[v] = 1 /\ InHand(v) = {}))'
    <3>1. \A v \in Val : check[v] = 0 \/ (check[v] = 1 /\ InHand(v) = {})
      BY DEF Checked
    <3> QED BY <1>1, <2>4, <2>5, <3>1
  <2>7. (\A v \in Val : check[v] = 1 \/ InHand(v) # {} <=> \E k \in 1..head.count : Entry(k) = v)'
    <3>1. ASSUME NEW v \in Val
          PROVE  (\E k \in 1..head'.count : Entry(k)' = v)
                    <=> (v = w \/ \E k \in 1..head.count : Entry(k) = v)
      BY <1>2, <1>3, <2>0, <2>1
    <3>2. \A v \in Val : check[v] = 1 \/ InHand(v) # {} <=> \E k \in 1..head.count : Entry(k) = v
      BY DEF Checked
    <3>3. ASSUME NEW v \in Val, v # w
          PROVE  check'[v] = 1 \/ InHand(v)' # {} <=> \E k \in 1..head'.count : Entry(k)' = v
      BY <1>1, <2>5, <3>1, <3>2, <3>3
    <3>4. InHand(w)' # {} /\ \E k \in 1..head'.count : Entry(k)' = w
      BY <2>3, <2>5, <3>1
    <3>5. check'[w] = 1 \/ InHand(w)' # {} <=> \E k \in 1..head'.count : Entry(k)' = w
      BY <3>4
    <3> QED BY <3>3, <3>5
  <2>8. (\A r, u \in Threads :
           pc[r] = "deq_ret" /\ pc[u] = "deq_ret" /\ out[r] = out[u] => r = u)'
    <3>1. \A u \in Threads \ {t} : pc'[u] = "deq_ret" => out[u] # w
      BY <1>5, <2>4 DEF InHand
    <3>2. \A r, u \in Threads :
            pc[r] = "deq_ret" /\ pc[u] = "deq_ret" /\ out[r] = out[u] => r = u
      BY DEF Checked
    <3>3. out[t] = w
      BY <1>4, <2>0
    <3> QED BY <1>1, <1>5, <3>1, <3>2, <3>3
  <2>9. (\A u \in Threads : pc[u] = "deq_ret" => out[u] \in Val)'
    <3>1. out[t] \in Val
      BY <1>4, <2>0, <2>3
    <3> QED BY <1>1, <1>5, <3>1 DEF Checked
  <2> QED BY <2>6, <2>7, <2>8, <2>9 DEF Checked
<1> QED BY <1>11, <1>12, <1>13

LEMMA DeqStepItems ==
    ASSUME BenchInv, Inv', NEW t \in Threads, DeqStep(t), UNCHANGED bench
    PROVE  Stocked' /\ Drawn' /\ Checked'
<1>1. pc \in [Threads -> Labels] /\ out \in [Threads -> Val \union {NULL}]
  BY DEF BenchInv, Inv, TypeOK
<1>2. CASE DeqReadNextPtr(t)
  BY <1>2, DeqReadNextPtrItems
<1>3. CASE DeqCheckPtr(t)
  BY <1>3, DeqCheckPtrItems
<1>4. CASE DeqSwing(t) /\ head = lhead[t]
  BY <1>4, TakeItems
<1>5. CASE \/ DeqReadHeadCount(t) \/ DeqReadHeadPtr(t) \/ DeqReadTailCount(t)
           \/ DeqReadTailPtr(t) \/ DeqReadNextCount(t) \/ DeqCheckCount(t)
           \/ DeqHelp(t) \/ DeqReadVal(t) \/ (DeqSwing(t) /\ head # lhead[t])
  <2>1. /\ pc[t] \in DeqLabels
        /\ \E l \in DeqLabels : pc' = [pc EXCEPT ![t] = l]
    BY <1>5 DEF DeqReadHeadCount, DeqReadHeadPtr, DeqReadTailCount, DeqReadTailPtr,
        DeqReadNextCount, DeqCheckCount, DeqHelp, DeqReadVal, DeqSwing, Goto, LoadWord, DeqLabels
  <2>2. /\ SameList /\ val' = val /\ newNode' = newNode /\ sawEmpty' = sawEmpty
        /\ \A u \in Threads \ {t} : out'[u] = out[u] /\ ret'[u] = ret[u]
    BY <1>1, <1>5 DEF DeqReadHeadCount, DeqReadHeadPtr, DeqReadTailCount, DeqReadTailPtr,
        DeqReadNextCount, DeqCheckCount, DeqHelp, DeqReadVal, DeqSwing,
        shared, locals, SameList, Cas, BenchInv, Inv, TypeOK
  <2>3. /\ pc'[t] \in DeqLabels /\ \A u \in Threads \ {t} : pc'[u] = pc[u]
    BY <1>1, <2>1
  <2>4. /\ ~Unlinked(t)' /\ ~Unlinked(t) /\ pc[t] # "deq_ret" /\ pc'[t] # "deq_ret"
    BY <2>1, <2>3 DEF Unlinked, EnqLabels, DeqLabels
  <2> QED BY <2>1, <2>2, <2>3, <2>4, QueueStepSame
<1> QED BY <1>2, <1>3, <1>4, <1>5 DEF DeqStep
-----------------------------------------------------------------------------
(* Enqueues *)

\* The enq that links its node puts the next item of its worker in the list.
LEMMA LinkItems ==
    ASSUME BenchInv, Inv', NEW t \in Threads, EnqLink(t),
           next[ltail[t].ptr] = lnext[t], UNCHANGED bench
    PROVE  Stocked' /\ Drawn' /\ Checked'
<1> USE DEF BenchInv
<1>1. /\ pc[t] = "e_link" /\ pc' = [pc EXCEPT ![t] = "e_swing"]
      /\ chain' = Append(chain, newNode[t])
      /\ UNCHANGED <<head, val, newNode, out, ret, sawEmpty>>
      /\ UNCHANGED <<wpc, i, check>>
  BY DEF EnqLink, Goto, bench, locals
<1>2. /\ pc \in [Threads -> Labels]
      /\ head.count \in Nat /\ Len(chain) \in Nat /\ head.count < Len(chain)
      /\ Unlinked(t) /\ newNode[t] \in Node
  <2>1. pc \in [Threads -> Labels] /\ Private(t) /\ allocated \subseteq Node
    BY DEF Inv, TypeOK, LocalKnowledge
  <2>2. Unlinked(t)
    BY <1>1 DEF Unlinked, EnqLabels
  <2> QED BY <2>1, <2>2, Basics DEF Private
<1>3. /\ Len(chain') = Len(chain) + 1
      /\ \A k \in 1..Len(chain) : chain'[k] = chain[k]
      /\ chain'[Len(chain) + 1] = newNode[t]
  BY <1>1, <1>2, Basics, AppendFacts
<1>4. \A k \in 1..(Len(chain) - 1) : Entry(k)' = Entry(k)
  BY <1>1, <1>2, <1>3 DEF Entry
<1>5. /\ pc'[t] = "e_swing" /\ ~Unlinked(t)'
      /\ \A u \in Threads \ {t} : pc'[u] = pc[u] /\ (Unlinked(u)' <=> Unlinked(u))
  BY <1>1, <1>2 DEF Unlinked
<1>6. wpc[t] = "enq" /\ i[t] \in 1..item_num /\ Issued(t) = i[t] - 1
  BY <1>1, <1>2, Counts DEF EnqLabels, Issued
<1>7. Issued(t)' = i[t] /\ \A u \in Threads \ {t} : Issued(u)' = Issued(u)
  BY <1>1, <1>5, <1>6 DEF Issued
<1>8. \A u \in Threads : Taken(u)' = Taken(u)
  BY <1>1, <1>2 DEF Taken, DeqLabels
<1>9. PICK n, e : n = Len(chain) /\ e = <<t, i[t]>>
  OBVIOUS
<1>10. Entry(n)' = Item(e)
  <2>1. val[newNode[t]] = t * item_num + i[t]
    BY <1>2, <1>6 DEF Stocked
  <2> QED BY <1>1, <1>3, <1>9, <2>1 DEF Entry, Item
<1>11. /\ Filled' = Filled \union {<<t, i[t]>>} /\ <<t, i[t]>> \notin Filled
       /\ <<t, i[t]>> \in Slots
  <2>1. \A s \in Slots : s[1] \in Threads /\ s[2] \in Nat /\ s = <<s[1], s[2]>>
    BY DEF Slots
  <2>2. <<t, i[t]>> \in Slots /\ Slots' = Slots
    BY <1>6 DEF Slots
  <2>3. ASSUME NEW s \in Slots
        PROVE  s[2] <= Issued(s[1])' <=> (s[2] <= Issued(s[1]) \/ s = <<t, i[t]>>)
    <3>1. CASE s[1] = t
      <4>1. s = <<t, i[t]>> <=> s[2] = i[t]
        BY <2>1, <3>1
      <4>2. s[2] <= i[t] <=> s[2] <= i[t] - 1 \/ s[2] = i[t]
        BY <2>1, <1>6, Sizes
      <4> QED BY <4>1, <4>2, <3>1, <1>6, <1>7
    <3>2. CASE s[1] # t
      BY <2>1, <3>2, <1>7
    <3> QED BY <3>1, <3>2
  <2>4. ~(i[t] <= Issued(t))
    BY <1>6, Sizes
  <2> QED BY <2>2, <2>3, <2>4 DEF Filled
<1>12. Cardinality(Filled') = Cardinality(Filled) + 1
  BY <1>11, TakenAreIssued, SlotsFinite, FS_AddElement
<1>13. Stocked'
  <2>1. /\ Cardinality(Filled) = n - 1
        /\ \A s \in Filled : \E k \in 1..(n - 1) : Entry(k) = Item(s)
        /\ \A k \in 1..(n - 1) : \E s \in Filled : Entry(k) = Item(s)
        /\ \A j, k \in 1..(n - 1) : Entry(j) = Entry(k) => j = k
        /\ Filled \subseteq Slots
    BY <1>9, TakenAreIssued DEF Stocked
  <2>2. Filled' = Filled \union {e} /\ e \notin Filled /\ e \in Slots
    BY <1>9, <1>11
  <2>3. n \in Nat /\ n >= 1 /\ Len(chain') - 1 = n
    BY <1>2, <1>3, <1>9
  <2>4. \A k \in 1..n : k \in 1..(n - 1) \/ k = n
    BY <2>3
  <2>5. n \in 1..n /\ \A k \in 1..(n - 1) : k \in 1..n /\ k # n
    BY <2>3
  <2>6. \A k \in 1..(n - 1) : Entry(k)' = Entry(k)
    BY <1>4, <1>9
  <2>7. \A s : Item(s)' = Item(s)
    BY DEF Item
  <2>8. (Cardinality(Filled) = Len(chain) - 1)'
    BY <1>12, <2>1, <2>3
  <2>9. (\A s \in Filled : \E k \in 1..(Len(chain) - 1) : Entry(k) = Item(s))'
    BY <1>10, <2>1, <2>2, <2>3, <2>5, <2>6, <2>7
  <2>10. (\A k \in 1..(Len(chain) - 1) : \E s \in Filled : Entry(k) = Item(s))'
    BY <1>10, <2>1, <2>2, <2>3, <2>4, <2>6, <2>7
  <2>11. (\A j, k \in 1..(Len(chain) - 1) : Entry(j) = Entry(k) => j = k)'
    <3>1. \A k \in 1..(n - 1) : Entry(k) # Item(e)
      <4> SUFFICES ASSUME NEW k \in 1..(n - 1), Entry(k) = Item(e) PROVE FALSE
        OBVIOUS
      <4>1. PICK s \in Filled : Entry(k) = Item(s)
        BY <2>1
      <4> QED BY <2>1, <2>2, <4>1, ItemFacts
    <3> QED BY <1>10, <2>1, <2>3, <2>4, <2>6, <3>1
  <2>12. ASSUME NEW u \in Threads, wpc'[u] = "enq", Unlinked(u)'
         PROVE  val'[newNode'[u]] = u * item_num + i'[u]
    BY <1>1, <1>5, <2>12 DEF Stocked
  <2> QED BY <2>8, <2>9, <2>10, <2>11, <2>12 DEF Stocked
<1>14. \A k \in 1..head.count : Entry(k)' = Entry(k)
  BY <1>2, <1>4
<1>15. Drawn'
  <2>1. Emptied' = Emptied
    <3>1. \A s \in Slots : s[1] \in Threads
      BY DEF Slots
    <3>2. Slots' = Slots
      BY DEF Slots
    <3> QED BY <1>8, <3>1, <3>2 DEF Emptied
  <2> QED BY <1>1, <1>5, <2>1 DEF Drawn, NoFailedDel
<1>16. Checked'
  <2>1. \A u \in Threads : (pc'[u] = "deq_ret" <=> pc[u] = "deq_ret")
    BY <1>1, <1>5
  <2>2. \A v : InHand(v)' = InHand(v)
    BY <1>1, <2>1 DEF InHand
  <2>3. (\A v \in Val : check[v] = 0 \/ (check[v] = 1 /\ InHand(v) = {}))'
    BY <1>1, <2>2 DEF Checked
  <2>4. (\A v \in Val : check[v] = 1 \/ InHand(v) # {} <=> \E k \in 1..head.count : Entry(k) = v)'
    <3>1. \A v \in Val : check[v] = 1 \/ InHand(v) # {} <=> \E k \in 1..head.count : Entry(k) = v
      BY DEF Checked
    <3> QED BY <1>1, <1>14, <2>2, <3>1
  <2>5. (\A r, u \in Threads :
           pc[r] = "deq_ret" /\ pc[u] = "deq_ret" /\ out[r] = out[u] => r = u)'
    BY <1>1, <2>1 DEF Checked
  <2>6. (\A u \in Threads : pc[u] = "deq_ret" => out[u] \in Val)'
    BY <1>1, <2>1 DEF Checked
  <2> QED BY <2>3, <2>4, <2>5, <2>6 DEF Checked
<1> QED BY <1>13, <1>15, <1>16

LEMMA EnqStepItems ==
    ASSUME BenchInv, Inv', NEW t \in Threads, EnqStep(t), UNCHANGED bench
    PROVE  Stocked' /\ Drawn' /\ Checked'
<1>1. pc \in [Threads -> Labels] /\ ret \in [Threads -> BOOLEAN]
  BY DEF BenchInv, Inv, TypeOK
<1>2. CASE EnqLink(t) /\ next[ltail[t].ptr] = lnext[t]
  BY <1>2, LinkItems
<1>3. CASE \/ EnqReadTailCount(t) \/ EnqReadTailPtr(t) \/ EnqReadNextCount(t)
           \/ EnqReadNextPtr(t) \/ EnqCheckCount(t) \/ EnqCheckPtr(t)
           \/ EnqHelp(t) \/ EnqSwing(t)
           \/ (EnqLink(t) /\ next[ltail[t].ptr] # lnext[t])
  <2>1. \/ /\ pc[t] \in EnqLabels \ {"e_swing"}
           /\ \E l \in EnqLabels \ {"e_swing"} : pc' = [pc EXCEPT ![t] = l]
        \/ /\ pc[t] = "e_swing"
           /\ pc' = [pc EXCEPT ![t] = "enq_ret"]
    BY <1>3 DEF EnqReadTailCount, EnqReadTailPtr, EnqReadNextCount, EnqReadNextPtr,
        EnqCheckCount, EnqCheckPtr, EnqHelp, EnqSwing, EnqLink, Goto, LoadWord, EnqLabels
  <2>2. /\ SameList /\ val' = val /\ newNode' = newNode /\ sawEmpty' = sawEmpty
        /\ \A u \in Threads \ {t} : out'[u] = out[u] /\ ret'[u] = ret[u]
    BY <1>1, <1>3 DEF EnqReadTailCount, EnqReadTailPtr, EnqReadNextCount, EnqReadNextPtr,
        EnqCheckCount, EnqCheckPtr, EnqHelp, EnqSwing, EnqLink, shared, locals, SameList
  <2>3. \A u \in Threads \ {t} : pc'[u] = pc[u]
    BY <1>1, <2>1
  <2>4. /\ Unlinked(t)' <=> Unlinked(t)
        /\ pc[t] \notin DeqLabels /\ pc'[t] \notin DeqLabels
        /\ pc[t] # "deq_ret" /\ pc'[t] # "deq_ret"
    BY <1>1, <2>1 DEF Unlinked, EnqLabels, DeqLabels
  <2> QED BY <2>2, <2>3, <2>4, QueueStepSame
<1> QED BY <1>2, <1>3 DEF EnqStep
-----------------------------------------------------------------------------
(* The workers' calls and returns *)

LEMMA CallItems ==
    ASSUME BenchInv, Inv', NEW t \in Threads, WorkerCall(t)
    PROVE  Stocked' /\ Drawn' /\ Checked'
<1> USE DEF BenchInv
<1>1. /\ pc[t] = "idle" /\ i' = [i EXCEPT ![t] = i[t] + 1]
      /\ UNCHANGED <<wpc, check>>
      /\ pc \in [Threads -> Labels] /\ i \in [Threads -> 0..item_num]
      /\ item_num \in Nat /\ t \in Nat /\ i[t] \in Nat
  <2>1. pc[t] = "idle" /\ i' = [i EXCEPT ![t] = i[t] + 1] /\ UNCHANGED <<wpc, check>>
    BY DEF WorkerCall
  <2>2. pc \in [Threads -> Labels] /\ i \in [Threads -> 0..item_num]
    BY DEF Inv, TypeOK, Course, BenchTypes
  <2>3. item_num \in Nat /\ t \in Nat
    BY Sizes
  <2>4. i[t] \in Nat
    BY <2>2, <2>3
  <2> QED BY <2>1, <2>2, <2>3, <2>4
<1>2. CASE wpc[t] = "enq" /\ EnqCall(t, t * item_num + i[t] + 1)
  <2>1. PICK n \in Node \ allocated :
          /\ val' = [val EXCEPT ![n] = t * item_num + i[t] + 1]
          /\ newNode' = [newNode EXCEPT ![t] = n]
    BY <1>2 DEF EnqCall
  <2>2. /\ pc' = [pc EXCEPT ![t] = "e_tail"]
        /\ UNCHANGED <<head, chain, out, ret, sawEmpty>>
    BY <1>2 DEF EnqCall, Goto
  <2>3. /\ val \in [Node -> Val \union {NULL}]
        /\ newNode \in [Threads -> Node \union {NULL}]
    BY DEF Inv, TypeOK
  <2>4. SameList
    BY <2>1, <2>2, <2>3 DEF SameList, Inv, TypeOK
  <2>5. /\ Unlinked(t)' /\ ~Unlinked(t)
        /\ \A u \in Threads \ {t} : pc'[u] = pc[u] /\ (Unlinked(u)' <=> Unlinked(u))
        /\ pc'[t] \notin DeqLabels /\ pc[t] \notin DeqLabels
    BY <1>1, <2>2 DEF Unlinked, EnqLabels, DeqLabels
  <2>6. SameCounts
    <3>1. Issued(t)' = Issued(t) /\ Taken(t)' = Taken(t)
      BY <1>1, <1>2, <2>5 DEF Issued, Taken
    <3>2. ASSUME NEW u \in Threads \ {t}
          PROVE  Issued(u)' = Issued(u) /\ Taken(u)' = Taken(u)
      BY <1>1, <2>5, <3>2 DEF Issued, Taken
    <3> QED BY <3>1, <3>2 DEF SameCounts
  <2>7. ASSUME NEW u \in Threads, wpc'[u] = "enq", Unlinked(u)'
        PROVE  val'[newNode'[u]] = u * item_num + i'[u]
    <3>1. CASE u = t
      <4>1. t * item_num \in Nat
        BY <1>1, Times
      <4> QED BY <3>1, <4>1, <1>1, <2>1, <2>3
    <3>2. CASE u # t
      <4>1. Unlinked(u) /\ newNode'[u] = newNode[u] /\ i'[u] = i[u] /\ wpc[u] = "enq"
        BY <1>1, <2>1, <2>3, <2>5, <2>7, <3>2
      <4>2. newNode[u] \in allocated
        BY <4>1 DEF Inv, LocalKnowledge, Private
      <4>3. val'[newNode[u]] = val[newNode[u]]
        BY <4>2, <2>4 DEF SameList
      <4> QED BY <4>1, <4>3 DEF Stocked
    <3> QED BY <3>1, <3>2
  <2>8. Stocked'
    BY <2>4, <2>6, <2>7, StockedSame
  <2>9. Drawn'
    <3>1. (\A u \in Threads : ~sawEmpty'[u]) /\ NoFailedDel'
      BY <1>1, <2>2 DEF Drawn, NoFailedDel
    <3> QED BY <2>4, <2>6, <3>1, DrawnSame
  <2>10. Checked'
    BY <1>1, <2>2, <2>4, CheckedSame
  <2> QED BY <2>8, <2>9, <2>10
<1>3. CASE wpc[t] = "deq" /\ DeqCall(t)
  <2>1. /\ pc' = [pc EXCEPT ![t] = "d_head"]
        /\ UNCHANGED <<head, chain, val, newNode, out, ret, sawEmpty>>
    BY <1>3 DEF DeqCall, Goto, shared, locals
  <2>2. SameList
    BY <2>1 DEF SameList
  <2>3. /\ \A u \in Threads : Unlinked(u)' <=> Unlinked(u)
        /\ \A u \in Threads \ {t} : pc'[u] = pc[u]
        /\ pc'[t] \in DeqLabels /\ pc[t] \notin DeqLabels
    BY <1>1, <2>1 DEF Unlinked, EnqLabels, DeqLabels
  <2>4. SameCounts
    <3>1. Issued(t)' = Issued(t) /\ Taken(t)' = Taken(t)
      BY <1>1, <1>3, <2>3 DEF Issued, Taken
    <3>2. ASSUME NEW u \in Threads \ {t}
          PROVE  Issued(u)' = Issued(u) /\ Taken(u)' = Taken(u)
      BY <1>1, <2>3, <3>2 DEF Issued, Taken
    <3> QED BY <3>1, <3>2 DEF SameCounts
  <2>5. ASSUME NEW u \in Threads, wpc'[u] = "enq", Unlinked(u)'
        PROVE  val'[newNode'[u]] = u * item_num + i'[u]
    BY <1>1, <1>3, <2>1, <2>3, <2>5 DEF Stocked
  <2>6. Stocked'
    BY <2>2, <2>4, <2>5, StockedSame
  <2>7. Drawn'
    <3>1. (\A u \in Threads : ~sawEmpty'[u]) /\ NoFailedDel'
      BY <1>1, <2>1 DEF Drawn, NoFailedDel
    <3> QED BY <2>2, <2>4, <3>1, DrawnSame
  <2>8. Checked'
    BY <1>1, <2>1, <2>2, CheckedSame
  <2> QED BY <2>6, <2>7, <2>8
<1> QED BY <1>2, <1>3 DEF WorkerCall

\* What a deq took is checked when it returns.
LEMMA ReturnItems ==
    ASSUME BenchInv, Inv', NEW t \in Threads, WorkerReturn(t)
    PROVE  /\ Stocked' /\ Drawn' /\ Checked'
           /\ getval' \in [Threads -> Nat] /\ check' \in [Val -> Nat]
<1> USE DEF BenchInv
<1>1. /\ pc[t] \in {"enq_ret", "deq_ret"} /\ pc' = [pc EXCEPT ![t] = "idle"]
      /\ newNode' = [newNode EXCEPT ![t] = NULL] /\ out' = [out EXCEPT ![t] = NULL]
      /\ ret' = [ret EXCEPT ![t] = FALSE] /\ sawEmpty' = [sawEmpty EXCEPT ![t] = FALSE]
      /\ UNCHANGED <<head, chain, val>> /\ UNCHANGED <<wpc, i>>
  BY DEF WorkerReturn, Return, Goto, shared
<1>2. /\ pc \in [Threads -> Labels] /\ newNode \in [Threads -> Node \union {NULL}]
      /\ out \in [Threads -> Val \union {NULL}] /\ ret \in [Threads -> BOOLEAN]
      /\ sawEmpty \in [Threads -> BOOLEAN]
      /\ getval \in [Threads -> Nat] /\ check \in [Val -> Nat]
  BY DEF Inv, TypeOK, Course, BenchTypes
<1>3. SameList
  BY <1>1 DEF SameList
<1>4. /\ pc'[t] = "idle" /\ \A u \in Threads \ {t} : pc'[u] = pc[u]
      /\ \A u \in Threads : Unlinked(u)' <=> Unlinked(u)
      /\ \A u \in Threads : pc'[u] \in DeqLabels <=> pc[u] \in DeqLabels
  BY <1>1, <1>2 DEF Unlinked, EnqLabels, DeqLabels
<1>5. SameCounts
  BY <1>1, <1>4 DEF SameCounts, Issued, Taken
<1>6. Stocked'
  <2>1. ASSUME NEW u \in Threads, wpc'[u] = "enq", Unlinked(u)'
        PROVE  val'[newNode'[u]] = u * item_num + i'[u]
    <3>1. Unlinked(u) /\ wpc[u] = "enq" /\ u # t
      BY <1>1, <1>4, <2>1 DEF Unlinked, EnqLabels
    <3>2. val[newNode[u]] = u * item_num + i[u]
      BY <3>1 DEF Stocked
    <3> QED BY <1>1, <1>2, <3>1, <3>2
  <2> QED BY <1>3, <1>5, <2>1, StockedSame
<1>7. Drawn'
  <2>1. \A u \in Threads : ~sawEmpty'[u]
    BY <1>1, <1>2 DEF Drawn
  <2>2. NoFailedDel'
    BY <1>1, <1>2, <1>4 DEF Drawn, NoFailedDel
  <2> QED BY <1>3, <1>5, <2>1, <2>2, DrawnSame
<1>8. Stands(t)
  BY DEF Course
<1>9. CASE wpc[t] = "enq"
  <2>1. UNCHANGED <<getval, check>> /\ pc[t] = "enq_ret"
    BY <1>1, <1>8, <1>9 DEF WorkerReturn, Stands, EnqLabels
  <2>2. Checked'
    BY <1>1, <1>2, <1>3, <1>4, <2>1, CheckedSame
  <2> QED BY <1>2, <1>6, <1>7, <2>1, <2>2
<1>10. CASE wpc[t] = "deq"
  <2>1. pc[t] = "deq_ret"
    BY <1>1, <1>8, <1>10 DEF Stands, DeqLabels
  <2>2. PICK w \in Val : w = out[t]
    BY <2>1 DEF Checked
  <2>3. w # NULL /\ w \in Nat
    <3>1. \A v \in Val : v \in Nat
      BY Sizes
    <3> QED BY <2>2, <3>1, NullAssumption
  <2>4. /\ getval' = [getval EXCEPT ![t] = IF out[t] = NULL THEN getval[t] ELSE out[t]]
        /\ check' = [v \in Val |-> check[v] + IF v = getval'[t] THEN 1 ELSE 0]
    BY <1>10 DEF WorkerReturn
  <2>5. getval' = [getval EXCEPT ![t] = w] /\ getval'[t] = w
    BY <1>2, <2>2, <2>3, <2>4
  <2>6. /\ check' = [v \in Val |-> check[v] + IF v = w THEN 1 ELSE 0]
        /\ getval' \in [Threads -> Nat] /\ check' \in [Val -> Nat]
    BY <1>2, <2>3, <2>4, <2>5
  <2>7. InHand(w) = {t} /\ check[w] = 0
    <3>1. InHand(w) = {t}
      BY <2>1, <2>2 DEF Checked, InHand
    <3> QED BY <3>1 DEF Checked
  <2>8. InHand(w)' = {} /\ \A v \in Val : v # w => InHand(v)' = InHand(v)
    <3>1. \A u \in Threads : (pc'[u] = "deq_ret" <=> (pc[u] = "deq_ret" /\ u # t))
      BY <1>4
    <3>2. \A u \in Threads \ {t} : out'[u] = out[u]
      BY <1>1, <1>2
    <3>3. InHand(w)' = {}
      BY <2>7, <3>1, <3>2 DEF InHand
    <3>4. \A v \in Val : v # w => InHand(v)' = InHand(v)
      BY <2>2, <3>1, <3>2 DEF InHand
    <3> QED BY <3>3, <3>4
  <2>9. check'[w] = 1 /\ \A v \in Val : v # w => check'[v] = check[v]
    BY <1>2, <2>6, <2>7
  <2>10. (\A v \in Val : check[v] = 0 \/ (check[v] = 1 /\ InHand(v) = {}))'
    <3>1. \A v \in Val : check[v] = 0 \/ (check[v] = 1 /\ InHand(v) = {})
      BY DEF Checked
    <3> QED BY <2>8, <2>9, <3>1
  <2>11. (\A v \in Val : check[v] = 1 \/ InHand(v) # {} <=> \E k \in 1..head.count : Entry(k) = v)'
    <3>1. \A v \in Val : check[v] = 1 \/ InHand(v) # {} <=> \E k \in 1..head.count : Entry(k) = v
      BY DEF Checked
    <3>2. \A k : Entry(k)' = Entry(k)
      BY <1>1 DEF Entry
    <3>3. ASSUME NEW v \in Val
          PROVE  check'[v] = 1 \/ InHand(v)' # {} <=> check[v] = 1 \/ InHand(v) # {}
      BY <2>7, <2>8, <2>9
    <3> QED BY <1>1, <3>1, <3>2, <3>3
  <2>12. (\A r, u \in Threads :
            pc[r] = "deq_ret" /\ pc[u] = "deq_ret" /\ out[r] = out[u] => r = u)'
    BY <1>1, <1>2, <1>4 DEF Checked
  <2>13. (\A u \in Threads : pc[u] = "deq_ret" => out[u] \in Val)'
    BY <1>1, <1>2, <1>4 DEF Checked
  <2>14. Checked'
    BY <2>10, <2>11, <2>12, <2>13 DEF Checked
  <2> QED BY <1>6, <1>7, <2>6, <2>14
<1> QED BY <1>9, <1>10 DEF WorkerReturn
-----------------------------------------------------------------------------
(* The invariant holds *)

LEMMA BenchInitInv == BenchInit => BenchInv
<1> SUFFICES ASSUME BenchInit PROVE BenchInv
  OBVIOUS
<1>1. Init
  BY DEF BenchInit
<1>2. Inv /\ Course
  BY <1>1, InitInv, CourseInit
<1>3. /\ Len(chain) = 1 /\ head.count = 0
      /\ pc = [t \in Threads |-> "idle"] /\ sawEmpty = [t \in Threads |-> FALSE]
  BY <1>1 DEF Init, Ptr
<1>4. /\ wpc = [t \in Threads |-> "start"] /\ i = [t \in Threads |-> 0]
      /\ check = [v \in Val |-> 0]
  BY DEF BenchInit
<1>5. \A t \in Threads : Issued(t) = 0 /\ Taken(t) = 0
  BY <1>3, <1>4 DEF Issued, Taken, Unlinked, EnqLabels
<1>6. Filled = {} /\ Emptied = {}
  <2>1. \A s \in Slots : s[1] \in Threads /\ s[2] \in 1..item_num
    BY DEF Slots
  <2>2. \A s \in Slots : ~(s[2] <= 0)
    BY <2>1, Sizes
  <2> QED BY <1>5, <2>1, <2>2 DEF Filled, Emptied
<1>7. Stocked
  <2>1. 1..(Len(chain) - 1) = {}
    BY <1>3
  <2>2. Cardinality(Filled) = Len(chain) - 1
    BY <1>3, <1>6, FS_EmptySet
  <2> QED BY <1>4, <1>6, <2>1, <2>2 DEF Stocked
<1>8. Drawn
  BY <1>3, <1>6, FS_EmptySet DEF Drawn, NoFailedDel
<1>9. Checked
  <2>1. 1..head.count = {}
    BY <1>3
  <2>2. \A v : InHand(v) = {}
    BY <1>3 DEF InHand
  <2>3. \A v \in Val : check[v] = 0 /\ check[v] # 1
    BY <1>4
  <2> QED BY <1>3, <2>1, <2>2, <2>3 DEF Checked
<1> QED BY <1>2, <1>7, <1>8, <1>9 DEF BenchInv

\* A step of the bench is a step of the queue's callers, or none.
LEMMA BenchStepsQueue == Course /\ BenchNext => [Next]_vars
<1> SUFFICES ASSUME Course, BenchNext PROVE [Next]_vars
  OBVIOUS
<1>1. ASSUME NEW t \in Threads, WorkerStep(t) PROVE [Next]_vars
  <2>1. CASE WorkerBegin(t) \/ WorkerWake(t) \/ WorkerTurn(t) \/ WorkerEnd(t)
    BY <2>1 DEF WorkerBegin, WorkerWake, WorkerTurn, WorkerEnd
  <2>2. CASE WorkerCall(t) /\ DeqCall(t)
    BY <2>2 DEF Next
  <2>3. CASE WorkerCall(t) /\ wpc[t] = "enq" /\ EnqCall(t, t * item_num + i[t] + 1)
    <3>1. <<t, i[t] + 1>> \in Slots
      <4>1. i[t] < item_num /\ i[t] \in 0..item_num
        BY <2>3 DEF WorkerCall, Course, BenchTypes
      <4>2. i[t] + 1 \in 1..item_num
        BY <4>1, Sizes
      <4> QED BY <4>2 DEF Slots
    <3>2. Item(<<t, i[t] + 1>>) = t * item_num + i[t] + 1
      <4>1. t * item_num \in Nat /\ i[t] \in Nat
        BY Sizes, Times DEF Course, BenchTypes
      <4> QED BY <4>1 DEF Item
    <3>3. t * item_num + i[t] + 1 \in Val
      BY <3>1, <3>2, ItemFacts
    <3> QED BY <2>3, <3>3 DEF Next
  <2>4. CASE WorkerReturn(t)
    BY <2>4 DEF WorkerReturn, Next
  <2>5. CASE EnqStep(t) \/ DeqStep(t)
    BY <2>5 DEF Next
  <2> QED BY <1>1, <2>1, <2>2, <2>3, <2>4, <2>5 DEF WorkerStep, WorkerCall
<1>2. ASSUME SpuriousWake \/ Ended PROVE [Next]_vars
  BY <1>2 DEF SpuriousWake, Ended, allVars
<1>3. ASSUME MasterStep PROVE [Next]_vars
  BY <1>3 DEF MasterStep, MasterWait, MasterFree, MasterReport
<1> QED BY <1>1, <1>2, <1>3 DEF BenchNext

LEMMA BenchNextInv == BenchInv /\ [BenchNext]_allVars => BenchInv'
<1> SUFFICES ASSUME BenchInv, [BenchNext]_allVars PROVE BenchInv'
  OBVIOUS
<1>1. Inv /\ Course /\ BenchTypes
  BY DEF BenchInv, Course
<1>2. Inv'
  <2>1. [Next]_vars
    BY <1>1, BenchStepsQueue DEF allVars
  <2> QED BY <1>1, <2>1, NextInv
<1>3. ASSUME Course', UNCHANGED vars, check' = check, SameCounts,
             \A t \in Threads : wpc'[t] = "enq" /\ Unlinked(t) => wpc[t] = "enq" /\ i'[t] = i[t]
      PROVE  BenchInv'
  BY <1>2, <1>3, ItemsSame DEF BenchInv
<1>4. ASSUME UNCHANGED <<vars, wpc, i, check>>
      PROVE  /\ SameCounts
             /\ \A t \in Threads : wpc'[t] = "enq" /\ Unlinked(t) => wpc[t] = "enq" /\ i'[t] = i[t]
  BY <1>4 DEF SameCounts, Issued, Taken, Unlinked, vars
<1>5. CASE UNCHANGED allVars
  <2>1. UNCHANGED <<vars, wpc, i, getval, check, end_thread_num, mpc, freed, result>> /\ pc' = pc
    BY <1>5 DEF allVars, bench, vars
  <2>2. Course'
    BY <1>1, <2>1 DEF Course, BenchTypes, MasterKnows, Finished, Stands
  <2> QED BY <1>3, <1>4, <2>1, <2>2
<1>6. CASE MasterStep
  <2>1. UNCHANGED <<vars, wpc, i, check>>
    BY <1>6 DEF MasterStep, MasterWait, MasterFree, MasterReport
  <2> QED BY <1>1, <1>3, <1>4, <1>6, <2>1, MasterCourse
<1>7. ASSUME NEW t \in Threads, WorkerBegin(t) \/ WorkerWake(t) \/ SpuriousWake
      PROVE  BenchInv'
  <2>1. /\ Course' /\ UNCHANGED <<vars, i, check>>
        /\ \A u \in Threads :
             wpc'[u] = wpc[u]
             \/ (wpc[u] \in {"start", "waiting", "woken"}
                 /\ wpc'[u] \in {"waiting", "woken", "enq"} /\ pc[u] = "idle" /\ i[u] = 0)
    BY <1>1, <1>7, BarrierCourse
  <2>2. pc' = pc
    BY <2>1 DEF vars
  <2>3. ASSUME NEW u \in Threads
        PROVE  /\ Issued(u)' = Issued(u) /\ Taken(u)' = Taken(u)
               /\ wpc'[u] = "enq" /\ Unlinked(u) => wpc[u] = "enq" /\ i'[u] = i[u]
    <3>1. CASE wpc'[u] = wpc[u]
      BY <2>1, <2>2, <3>1 DEF Issued, Taken, Unlinked
    <3>2. CASE wpc'[u] # wpc[u]
      BY <2>1, <2>2, <3>2 DEF Issued, Taken, Unlinked, EnqLabels
    <3> QED BY <3>1, <3>2
  <2> QED BY <1>3, <2>1, <2>3 DEF SameCounts
<1>8. ASSUME NEW t \in Threads, WorkerTurn(t) PROVE BenchInv'
  <2>1. Course'
    BY <1>1, <1>2, <1>8, WorkerCourse DEF WorkerTurn, BenchTypes
  <2>2. /\ UNCHANGED vars /\ pc' = pc /\ check' = check
        /\ wpc[t] = "enq" /\ pc[t] = "idle" /\ i[t] = item_num
        /\ wpc' = [wpc EXCEPT ![t] = "deq"] /\ i' = [i EXCEPT ![t] = 0]
    BY <1>8 DEF WorkerTurn, vars
  <2>3. ASSUME NEW u \in Threads
        PROVE  /\ Issued(u)' = Issued(u) /\ Taken(u)' = Taken(u)
               /\ wpc'[u] = "enq" /\ Unlinked(u) => wpc[u] = "enq" /\ i'[u] = i[u]
    <3>1. CASE u = t
      BY <1>1, <2>2, <3>1 DEF Issued, Taken, Unlinked, EnqLabels, DeqLabels, BenchTypes
    <3>2. CASE u # t
      BY <1>1, <2>2, <3>2 DEF Issued, Taken, Unlinked, BenchTypes
    <3> QED BY <3>1, <3>2
  <2> QED BY <1>3, <2>1, <2>2, <2>3 DEF SameCounts
<1>9. ASSUME NEW t \in Threads, WorkerEnd(t) PROVE BenchInv'
  <2>1. Course'
    BY <1>1, <1>9, WorkerEndCourse
  <2>2. /\ UNCHANGED vars /\ pc' = pc /\ check' = check /\ i' = i
        /\ wpc[t] = "deq" /\ pc[t] = "idle" /\ i[t] = item_num
        /\ wpc' = [wpc EXCEPT ![t] = "end"]
    BY <1>9 DEF WorkerEnd, vars
  <2>3. ASSUME NEW u \in Threads
        PROVE  /\ Issued(u)' = Issued(u) /\ Taken(u)' = Taken(u)
               /\ wpc'[u] = "enq" /\ Unlinked(u) => wpc[u] = "enq" /\ i'[u] = i[u]
    <3>1. CASE u = t
      BY <1>1, <2>2, <3>1 DEF Issued, Taken, Unlinked, EnqLabels, DeqLabels, BenchTypes
    <3>2. CASE u # t
      BY <1>1, <2>2, <3>2 DEF Issued, Taken, Unlinked, BenchTypes
    <3> QED BY <3>1, <3>2
  <2> QED BY <1>3, <2>1, <2>2, <2>3 DEF SameCounts
<1>10. ASSUME NEW t \in Threads, WorkerCall(t) PROVE BenchInv'
  <2>1. check' = check /\ getval' = getval
    BY <1>10 DEF WorkerCall
  <2>2. Course'
    BY <1>1, <1>2, <1>10, <2>1, WorkerCourse DEF BenchTypes
  <2> QED BY <1>2, <1>10, <2>2, CallItems DEF BenchInv
<1>11. ASSUME NEW t \in Threads, WorkerReturn(t) PROVE BenchInv'
  <2>1. Stocked' /\ Drawn' /\ Checked' /\ getval' \in [Threads -> Nat] /\ check' \in [Val -> Nat]
    BY <1>2, <1>11, ReturnItems
  <2>2. Course'
    BY <1>1, <1>2, <1>11, <2>1, WorkerCourse
  <2> QED BY <1>2, <2>1, <2>2 DEF BenchInv
<1>12. ASSUME NEW t \in Threads, (EnqStep(t) \/ DeqStep(t)) /\ UNCHANGED bench
       PROVE  BenchInv'
  <2>1. check' = check /\ getval' = getval
    BY <1>12 DEF bench
  <2>2. Course'
    BY <1>1, <1>2, <1>12, <2>1, WorkerCourse DEF BenchTypes
  <2>3. Stocked' /\ Drawn' /\ Checked'
    BY <1>2, <1>12, EnqStepItems, DeqStepItems
  <2> QED BY <1>2, <2>2, <2>3 DEF BenchInv
<1>13. \E t : t \in Threads
  BY Sizes
<1>14. CASE Ended
  BY <1>5, <1>14 DEF Ended
<1> QED BY <1>5, <1>6, <1>7, <1>8, <1>9, <1>10, <1>11, <1>12, <1>13, <1>14
        DEF BenchNext, WorkerStep

\* Once all workers have ended, all they have linked is taken and checked.
LEMMA AllChecked ==
    ASSUME BenchInv, mpc \notin {"start", "waiting", "woken"}
    PROVE  \A v \in Val : check[v] = 1
<1>1. \A t \in Threads : wpc[t] = "end" /\ pc[t] = "idle"
  BY AllFinished DEF BenchInv
<1>2. \A t \in Threads : Issued(t) = item_num /\ Taken(t) = item_num
  BY <1>1 DEF Issued, Taken
<1>3. Filled = Slots /\ Emptied = Slots
  <2>1. \A s \in Slots : s[1] \in Threads /\ s[2] <= item_num
    BY Sizes DEF Slots
  <2> QED BY <1>2, <2>1 DEF Filled, Emptied
<1>4. head.count = Len(chain) - 1
  BY <1>3 DEF BenchInv, Stocked, Drawn
<1> TAKE v \in Val
<1>5. PICK s \in Slots : Item(s) = v
  BY ItemFacts
<1>6. PICK k \in 1..(Len(chain) - 1) : Entry(k) = v
  BY <1>3, <1>5 DEF BenchInv, Stocked
<1>7. check[v] = 1 \/ InHand(v) # {}
  BY <1>4, <1>6 DEF BenchInv, Checked
<1>8. InHand(v) = {}
  BY <1>1 DEF InHand
<1> QED BY <1>7, <1>8

\* What the bench may rely on in every state, for any number of workers and
\* items: where its workers stand, which items are in the queue's list, which
\* have left it, and which of these are checked.
THEOREM BenchInvariance == BenchSpec => []BenchInv
BY BenchInitInv, BenchNextInv, PTL DEF BenchSpec

\* The master calls free_queue when no worker will use the queue any more,
\* whatever wake-ups are spurious.
THEOREM FreedLast == BenchSpec => []FreedAfterUse
<1>1. BenchInv => FreedAfterUse
  BY AllFinished DEF BenchInv, Course, MasterKnows, FreedAfterUse
<1> QED BY <1>1, BenchInvariance, PTL
-----------------------------------------------------------------------------
(* The report *)

LEMMA FoldUnfolded ==
    ASSUME NEW f
    PROVE  FoldFunction(+, 0, f) = (CHOOSE h : FoldsTo(h, f, DOMAIN f))[DOMAIN f]
<1>1. FoldFunction(+, 0, f) =
        (CHOOSE h : h = [s \in SUBSET DOMAIN f |->
            IF s = {} THEN 0
            ELSE f[CHOOSE x \in s : TRUE] + h[s \ {CHOOSE x \in s : TRUE}]])[DOMAIN f]
  BY DEF FoldFunction, FoldFunctionOnSet, MapThenFoldSet
<1> QED BY <1>1 DEF FoldsTo

\* The master's fold over the workers' sums is their total.
LEMMA FoldIsTotal ==
    ASSUME NEW S, IsFiniteSet(S), NEW f \in [S -> Nat]
    PROVE  FoldFunction(+, 0, f) = Total(f, S)
<1>1. PICK h : h = CHOOSE k : FoldsTo(k, f, S)
  OBVIOUS
<1>2. FoldsTo(h, f, S)
  BY <1>1, TotalFolds
<1>3. h[S] = Total(f, S)
  BY <1>2, FoldsToTotal
<1>4. DOMAIN f = S
  OBVIOUS
<1> QED BY <1>1, <1>3, <1>4, FoldUnfolded

\* The workers' sums come from the items that are checked.
Marked == [v \in Val |-> IF check[v] = 1 THEN v ELSE 0]

Tallied ==
    /\ sum \in [Threads -> Nat]
    /\ Total(sum, Threads) = Total(Marked, Val)
    /\ result # "none" => result = "OK"

LEMMA TalliedInit == BenchInit => Tallied
<1> SUFFICES ASSUME BenchInit PROVE Tallied
  OBVIOUS
<1>1. /\ sum = [t \in Threads |-> 0] /\ check = [v \in Val |-> 0]
      /\ result = "none"
  BY DEF BenchInit
<1>2. ASSUME NEW s, NEW f, \A x \in s : f[x] = 0 PROVE Total(f, s) = 0
  <2>1. \A x \in s : {x} \X (1..f[x]) = {}
    BY <1>2
  <2>2. Under(f, s) = {}
    BY <2>1 DEF Under
  <2> QED BY <2>2, FS_EmptySet DEF Total
<1>3. Total(sum, Threads) = 0
  BY <1>1, <1>2
<1>4. Total(Marked, Val) = 0
  <2>1. \A v \in Val : Marked[v] = 0
    BY <1>1 DEF Marked
  <2> QED BY <1>2, <2>1
<1> QED BY <1>1, <1>3, <1>4 DEF Tallied

LEMMA TalliedSame ==
    ASSUME Tallied, UNCHANGED <<sum, check, result>> PROVE Tallied'
<1>1. Marked' = Marked
  BY DEF Marked
<1>2. Total(sum', Threads) = Total(sum, Threads) /\ Total(Marked', Val) = Total(Marked, Val)
  BY <1>1
<1> QED BY <1>2 DEF Tallied

LEMMA TalliedReturn ==
    ASSUME BenchInv, Tallied, NEW t \in Threads, WorkerReturn(t) PROVE Tallied'
<1>1. Stands(t) /\ getval \in [Threads -> Nat] /\ check \in [Val -> Nat]
  BY DEF BenchInv, Course, BenchTypes
<1>2. result' = result /\ pc[t] \in {"enq_ret", "deq_ret"}
  BY DEF WorkerReturn, Return
<1>3. CASE wpc[t] = "enq"
  BY <1>1, <1>2, <1>3, TalliedSame DEF WorkerReturn
<1>4. CASE wpc[t] = "deq"
  <2>1. pc[t] = "deq_ret"
    BY <1>1, <1>2, <1>4 DEF Stands, DeqLabels
  <2>2. PICK w \in Val : w = out[t]
    BY <2>1 DEF BenchInv, Checked
  <2>3. w # NULL /\ w \in Nat /\ w # 0
    <3>1. \A v \in Val : v \in Nat /\ v # 0
      BY Sizes
    <3> QED BY <2>2, <3>1, NullAssumption
  <2>4. /\ getval' = [getval EXCEPT ![t] = IF out[t] = NULL THEN getval[t] ELSE out[t]]
        /\ sum' = [sum EXCEPT ![t] = sum[t] + getval'[t]]
        /\ check' = [v \in Val |-> check[v] + IF v = getval'[t] THEN 1 ELSE 0]
    BY <1>4 DEF WorkerReturn
  <2>5. getval'[t] = w
    BY <1>1, <2>2, <2>3, <2>4
  <2>6. check[w] = 0
    <3>1. t \in InHand(w)
      BY <2>1, <2>2 DEF InHand
    <3> QED BY <3>1 DEF BenchInv, Checked
  <2>7. /\ sum' \in [Threads -> Nat] /\ sum'[t] = sum[t] + w
        /\ \A u \in Threads \ {t} : sum'[u] = sum[u]
        /\ \A u \in Threads : sum[u] \in Nat
    BY <2>3, <2>4, <2>5 DEF Tallied
  <2>8. Total(sum', Threads) = Total(sum, Threads) + w
    <3>1. IsFiniteSet(Threads)
      BY Sizes
    <3>2. /\ t \in Threads /\ w \in Nat
          /\ \A u \in Threads : sum[u] \in Nat
          /\ sum'[t] = sum[t] + w
          /\ \A u \in Threads \ {t} : sum'[u] = sum[u]
      BY <2>3, <2>7
    <3>3. PICK g : g = sum'
      OBVIOUS
    <3>4. Total(g, Threads) = Total(sum, Threads) + w
      BY ONLY <3>1, <3>2, <3>3, TotalChange
    <3> QED BY <3>3, <3>4
  <2>9. check'[w] = 1 /\ \A v \in Val \ {w} : check'[v] = check[v]
    <3>0. check' = [v \in Val |-> check[v] + IF v = getval'[t] THEN 1 ELSE 0]
      BY <2>4
    <3>1. \A v \in Val : check'[v] = check[v] + IF v = w THEN 1 ELSE 0
      BY ONLY <3>0, <2>5
    <3>2. w \in Val /\ check[w] = 0 /\ \A v \in Val : check[v] \in Nat
      BY <1>1, <2>6
    <3> QED BY ONLY <3>1, <3>2
  <2>10. /\ \A v \in Val : Marked[v] \in Nat
         /\ Marked'[w] = Marked[w] + w
         /\ \A v \in Val \ {w} : Marked'[v] = Marked[v]
    BY <2>3, <2>6, <2>9, Sizes DEF Marked
  <2>11. IsFiniteSet(Val)
    <3>1. thread_num * item_num \in Nat
      BY Sizes, Times
    <3> QED BY <3>1, Sizes, FS_Interval
  <2>12. Total(Marked', Val) = Total(Marked, Val) + w
    BY <2>3, <2>10, <2>11, TotalChange
  <2> QED BY <1>2, <2>7, <2>8, <2>12 DEF Tallied
<1> QED BY <1>3, <1>4 DEF WorkerReturn

\* The expected sum is that of all items.
LEMMA TalliedReport ==
    ASSUME BenchInv, Tallied, MasterReport PROVE Tallied'
<1> DEFINE n == item_num * thread_num
           expected == IF n % 2 = 0 THEN (n \div 2) * (n + 1) ELSE ((n + 1) \div 2) * n
<1>1. /\ mpc = "report" /\ UNCHANGED <<sum, check>>
      /\ result' = IF FoldFunction(+, 0, sum) = expected THEN "OK" ELSE "FAILED"
  BY DEF MasterReport
<1>2. n \in Nat /\ Val = 1..n
  <2>1. item_num * thread_num = thread_num * item_num /\ thread_num * item_num \in Nat
    BY Sizes, Times
  <2> QED BY <2>1, Sizes
<1>3. \A v \in Val : Marked[v] = v
  BY <1>1, AllChecked DEF Marked
<1>4. FoldFunction(+, 0, sum) = Total(Marked, Val)
  BY Sizes, FoldIsTotal DEF Tallied
<1>5. 2 * Total(Marked, Val) = n * (n + 1)
  BY <1>2, <1>3, Gauss
<1>6. Total(Marked, Val) \in Nat
  <2>1. IsFiniteSet(Val)
    BY <1>2, FS_Interval
  <2>2. \A v \in Val : Marked[v] \in Nat
    BY <1>3, Sizes
  <2> QED BY <2>1, <2>2, UnderFinite
<1>7. ASSUME NEW k \in Nat, NEW s \in Nat, 2 * s = k * (k + 1)
      PROVE  s = IF k % 2 = 0 THEN (k \div 2) * (k + 1) ELSE ((k + 1) \div 2) * k
  <2>1. CASE k % 2 = 0
    <3>1. PICK q \in Nat : k = 2 * q /\ k \div 2 = q
      BY <2>1
    <3>2. k * (k + 1) = 2 * (q * (k + 1)) /\ q * (k + 1) \in Nat
      BY <3>1
    <3> QED BY <1>7, <2>1, <3>1, <3>2
  <2>2. CASE k % 2 # 0
    <3>1. PICK q \in Nat : k + 1 = 2 * q /\ (k + 1) \div 2 = q
      BY <2>2
    <3>2. k * (k + 1) = 2 * (q * k) /\ q * k \in Nat
      BY <3>1
    <3> QED BY <1>7, <2>2, <3>1, <3>2
  <2> QED BY <2>1, <2>2
<1>8. Total(Marked, Val) = expected
  <2> HIDE DEF n
  <2> QED BY <1>2, <1>5, <1>6, <1>7
<1>9. result' = "OK"
  BY <1>1, <1>4, <1>8
<1>10. Total(sum', Threads) = Total(Marked', Val)
  <2>1. Marked' = Marked
    BY <1>1 DEF Marked
  <2> QED BY <1>1, <2>1 DEF Tallied
<1> QED BY <1>1, <1>9, <1>10 DEF Tallied

LEMMA TalliedNext == BenchInv /\ Tallied /\ [BenchNext]_allVars => Tallied'
<1> SUFFICES ASSUME BenchInv, Tallied, [BenchNext]_allVars PROVE Tallied'
  OBVIOUS
<1>1. CASE UNCHANGED allVars
  BY <1>1, TalliedSame DEF allVars, bench
<1>2. CASE SpuriousWake \/ Ended \/ MasterWait \/ MasterFree
  BY <1>2, TalliedSame DEF SpuriousWake, Ended, MasterWait, MasterFree, allVars, bench
<1>3. CASE MasterReport
  BY <1>3, TalliedReport
<1>4. CASE \E t \in Threads : WorkerReturn(t)
  BY <1>4, TalliedReturn
<1>5. ASSUME NEW t \in Threads, WorkerStep(t), ~WorkerReturn(t) PROVE Tallied'
  BY <1>5, TalliedSame DEF WorkerStep, WorkerBegin, WorkerWake, WorkerCall,
     WorkerTurn, WorkerEnd, bench
<1> QED BY <1>1, <1>2, <1>3, <1>4, <1>5 DEF BenchNext, MasterStep

\* The bench reports "RESULT: test OK" whenever it reports, for any number of
\* workers and items: no deq fails, every item is dequeued once, and the sum
\* of the workers' sums is the expected one.
THEOREM BenchIsOK == BenchSpec => []BenchResult
<1>1. BenchInv => NoFailedDel
  BY DEF BenchInv, Drawn
<1>2. BenchInv => EachItemOnce
  BY AllChecked DEF BenchInv, Course, MasterKnows, EachItemOnce
<1>3. BenchInv /\ Tallied => BenchResult
  BY <1>1, <1>2 DEF BenchResult, Tallied
<1> QED BY <1>3, TalliedInit, TalliedNext, BenchInvariance, PTL DEF BenchSpec
=============================================================================
