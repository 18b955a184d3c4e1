------------------------- MODULE LLSCLockFreeQueue -------------------------
(***************************************************************************)
(* queue/LLSCLockFreeQueue.c: the queue of Doherty, Herlihy, Luchangco and *)
(* Moir, whose ends are load-linked / store-conditional variables made     *)
(* from cas, with reference counts that tell when a node may be freed.     *)
(*                                                                         *)
(* Every access to an LLSCvar or to the list is an action.  An entry tag   *)
(* is one word of 8 bytes.  An exit tag is 12 bytes, of which cas compares *)
(* and stores the first 8: its counts, not its flags.  A loop that does    *)
(* nothing but cas an exit tag is one action, for what it stores depends   *)
(* on the compared words only.  pred and val of a node are written before  *)
(* the node is linked, next once: they are read with the step that uses    *)
(* them.  Nodes are numbered in the order in which calloc returned them.   *)
(***************************************************************************)
EXTENDS Integers, Sequences, FiniteSetsExt

CONSTANTS
    Threads, Val, NULL,
    MaxNodes     \* bound: nodes calloc returns, the two of init_queue included

ASSUME LLSCAssumption ==
    /\ MaxNodes \in Nat /\ MaxNodes >= 2
    /\ NULL \notin Val /\ NULL \notin 0..(MaxNodes - 1)

VARIABLES
    var,         \* q->head and q->tail: two slots and the entry tag
    next, pred, val, exit,   \* the fields of every node
    allocated,   \* how many nodes there are
    freed,       \* those that were freed
    pc, loc,     \* the next step and the local variables of every thread
    chain,       \* history: the nodes ever linked, dummy first
    sawEmpty,    \* history: this deq read a null next
    unlinked     \* history: some unlink took a reference from an entry tag

nodes == <<next, pred, val, exit, allocated, freed>>
history == <<chain, sawEmpty, unlinked>>
vars == <<var, nodes, pc, loc, history>>

Node == 0..(MaxNodes - 1)
Addr == Node \union {NULL}
Ends == {"head", "tail"}

\* ver and mynode are the workspace's; nd is create_node's, target the second
\* argument of SC, which is next in deq; e is the entry tag that was read last.
NoLocals == [op |-> "none", ver |-> 0, mynode |-> NULL, nd |-> NULL,
             target |-> NULL, success |-> FALSE, e |-> <<0, 0>>]

Tag(c, left) == [count |-> c, left |-> left, nlP |-> FALSE, toBeFreed |-> FALSE]

\* Mutant: cas stores the flags as well.
StoredWhole(tag, post) == post

\* What cas leaves in an exit tag, whatever the flags of post.
Stored(tag, post) == [tag EXCEPT !.count = post.count, !.left = post.left]

Clean(tag) == tag.count = 0 /\ tag.left = 0
Freeable(tag) == Clean(tag) /\ tag.nlP /\ tag.toBeFreed

Goto(t, l) == pc' = [pc EXCEPT ![t] = l]

\* The variable a call works on, and its entry tag.
End(t) == IF loc[t].op = "enq" THEN "tail" ELSE "head"
Entry(x) == <<var[x].ver, var[x].count>>
Current(x) == var[x].ptr[var[x].ver % 2]
Other(x) == var[x].ptr[1 - (var[x].ver % 2)]
-----------------------------------------------------------------------------
\* init_queue: both ends at a dummy node, whose pred is a second one.
Init ==
    /\ var = [x \in Ends |-> [ptr |-> [i \in 0..1 |-> i], ver |-> 0, count |-> 0]]
    /\ next = [n \in Node |-> NULL]
    /\ pred = [n \in Node |-> IF n = 0 THEN 1 ELSE NULL]
    /\ val = [n \in Node |-> NULL]
    /\ exit = [n \in Node |-> Tag(0, IF n = 0 THEN 2 ELSE 0)]
    /\ allocated = 2
    /\ freed = {}
    /\ pc = [t \in Threads |-> "idle"]
    /\ loc = [t \in Threads |-> NoLocals]
    /\ chain = <<0>>
    /\ sawEmpty = [t \in Threads |-> FALSE]
    /\ unlinked = FALSE

\* enq begins: create_node.
EnqCall(t, v) ==
    /\ pc[t] = "idle"
    /\ allocated < MaxNodes
    /\ allocated' = allocated + 1
    /\ val' = [val EXCEPT ![allocated] = v]
    /\ exit' = [exit EXCEPT ![allocated] = Tag(0, 2)]
    /\ loc' = [loc EXCEPT ![t].op = "enq", ![t].nd = allocated]
    /\ Goto(t, "ll_entry")
    /\ UNCHANGED <<var, next, pred, freed, history>>

\* calloc fails in create_node: enq returns false.
EnqNoMemory(t) ==
    /\ pc[t] = "idle"
    /\ loc' = [loc EXCEPT ![t].op = "enq"]
    /\ Goto(t, "ret")
    /\ UNCHANGED <<var, nodes, history>>

DeqCall(t) ==
    /\ pc[t] = "idle"
    /\ loc' = [loc EXCEPT ![t].op = "deq"]
    /\ Goto(t, "ll_entry")
    /\ UNCHANGED <<var, nodes, history>>
-----------------------------------------------------------------------------
(* LL *)

LLEntry(t) ==
    /\ pc[t] = "ll_entry"
    /\ loc' = [loc EXCEPT ![t].e = Entry(End(t))]
    /\ Goto(t, "ll_node")
    /\ UNCHANGED <<var, nodes, history>>

\* Mutant: LL waits until the SC under way has moved the version.
LLNodeWaits(t) ==
    /\ pc[t] = "ll_node"
    /\ \/ /\ Other(End(t)) # pred[Current(End(t))]
          /\ Goto(t, "ll_entry")
          /\ UNCHANGED loc
       \/ /\ Other(End(t)) = pred[Current(End(t))]
          /\ loc' = [loc EXCEPT ![t].mynode = var[End(t)].ptr[loc[t].e[1] % 2]]
          /\ Goto(t, "ll_cas")
    /\ UNCHANGED <<var, nodes, history>>

\* *mynode = CURRENT(loc, e.ver)
LLNode(t) ==
    /\ pc[t] = "ll_node"
    /\ loc' = [loc EXCEPT ![t].mynode = var[End(t)].ptr[loc[t].e[1] % 2]]
    /\ Goto(t, "ll_cas")
    /\ UNCHANGED <<var, nodes, history>>

\* Mutant: the version is compared, the count is not.
LLCasVersion(t) ==
    /\ pc[t] = "ll_cas"
    /\ \/ /\ var[End(t)].ver = loc[t].e[1]
          /\ var' = [var EXCEPT ![End(t)].count = loc[t].e[2] + 1]
          /\ loc' = [loc EXCEPT ![t].ver = loc[t].e[1], ![t].e = <<0, 0>>]
          /\ Goto(t, IF loc[t].op = "enq" THEN "link" ELSE "next")
       \/ /\ var[End(t)].ver # loc[t].e[1]
          /\ Goto(t, "ll_entry")
          /\ UNCHANGED <<var, loc>>
    /\ UNCHANGED <<nodes, history>>

LLCas(t) ==
    /\ pc[t] = "ll_cas"
    /\ \/ /\ Entry(End(t)) = loc[t].e
          /\ var' = [var EXCEPT ![End(t)].count = @ + 1]
          /\ loc' = [loc EXCEPT ![t].ver = loc[t].e[1], ![t].e = <<0, 0>>]
          /\ Goto(t, IF loc[t].op = "enq" THEN "link" ELSE "next")
       \/ /\ Entry(End(t)) # loc[t].e
          /\ Goto(t, "ll_entry")
          /\ UNCHANGED <<var, loc>>
    /\ UNCHANGED <<nodes, history>>
-----------------------------------------------------------------------------
(* enq and deq between LL and SC *)

\* Mutant: nd->pred is not set.
EnqLinkNoPred(t) ==
    LET n == loc[t].mynode  nd == loc[t].nd IN
    /\ pc[t] = "link"
    /\ \/ /\ next[n] = NULL
          /\ next' = [next EXCEPT ![n] = nd]
          /\ chain' = Append(chain, nd)
          /\ loc' = [loc EXCEPT ![t].target = nd]
       \/ /\ next[n] # NULL
          /\ loc' = [loc EXCEPT ![t].target = next[n]]
          /\ UNCHANGED <<next, chain>>
    /\ Goto(t, "sc_slot")
    /\ UNCHANGED <<var, pred, val, exit, allocated, freed, sawEmpty, unlinked>>

\* nd->pred = tail, cas(&tail->next, NULL, nd); if that fails help with
\* tail->next.
EnqLink(t) ==
    LET n == loc[t].mynode  nd == loc[t].nd IN
    /\ pc[t] = "link"
    /\ pred' = [pred EXCEPT ![nd] = n]
    /\ \/ /\ next[n] = NULL
          /\ next' = [next EXCEPT ![n] = nd]
          /\ chain' = Append(chain, nd)
          /\ loc' = [loc EXCEPT ![t].target = nd]
       \/ /\ next[n] # NULL
          /\ loc' = [loc EXCEPT ![t].target = next[n]]
          /\ UNCHANGED <<next, chain>>
    /\ Goto(t, "sc_slot")
    /\ UNCHANGED <<var, val, exit, allocated, freed, sawEmpty, unlinked>>

\* Mutant: a null next is dequeued.
DeqNextAny(t) ==
    LET n == next[loc[t].mynode] IN
    /\ pc[t] = "next"
    /\ loc' = [loc EXCEPT ![t].target = n]
    /\ sawEmpty' = [sawEmpty EXCEPT ![t] = n = NULL]
    /\ Goto(t, "sc_slot")
    /\ UNCHANGED <<var, nodes, chain, unlinked>>

\* next = head->next
DeqNext(t) ==
    LET n == next[loc[t].mynode] IN
    /\ pc[t] = "next"
    /\ loc' = [loc EXCEPT ![t].target = n]
    /\ sawEmpty' = [sawEmpty EXCEPT ![t] = n = NULL]
    /\ Goto(t, IF n = NULL THEN "unlink" ELSE "sc_slot")
    /\ UNCHANGED <<var, nodes, chain, unlinked>>

\* *val = next->val, setToBeFreed(next).  The flag is not stored.
SetToBeFreed(t) ==
    LET n == loc[t].target
        post == [exit[n] EXCEPT !.toBeFreed = TRUE]
    IN  /\ pc[t] = "value"
        /\ exit' = [exit EXCEPT ![n] = Stored(@, post)]
        /\ freed' = IF Freeable(post) THEN freed \union {n} ELSE freed
        /\ Goto(t, "ret")
        /\ UNCHANGED <<var, next, pred, val, allocated, loc, history>>

Return(t) ==
    /\ pc[t] = "ret"
    /\ loc' = [loc EXCEPT ![t] = NoLocals]
    /\ sawEmpty' = [sawEmpty EXCEPT ![t] = FALSE]
    /\ Goto(t, "idle")
    /\ UNCHANGED <<var, nodes, chain, unlinked>>
-----------------------------------------------------------------------------
(* SC *)

\* Mutant: the slot is written without a comparison.
SCSlotStore(t) ==
    /\ pc[t] = "sc_slot"
    /\ var' = [var EXCEPT ![End(t)].ptr[1 - (loc[t].ver % 2)] = loc[t].target]
    /\ loc' = [loc EXCEPT ![t].success = TRUE]
    /\ Goto(t, "sc_read")
    /\ UNCHANGED <<nodes, history>>

\* success = cas(NONCURADDR(loc, myver), mynode->pred, nd)
SCSlot(t) ==
    LET i == 1 - (loc[t].ver % 2)
        ok == var[End(t)].ptr[i] = pred[loc[t].mynode]
    IN  /\ pc[t] = "sc_slot"
        /\ var' = IF ok THEN [var EXCEPT ![End(t)].ptr[i] = loc[t].target] ELSE var
        /\ loc' = [loc EXCEPT ![t].success = ok]
        /\ Goto(t, "sc_read")
        /\ UNCHANGED <<nodes, history>>

\* e = loc->entry, while (e.ver == myver)
SCRead(t) ==
    /\ pc[t] = "sc_read"
    /\ \/ /\ var[End(t)].ver = loc[t].ver
          /\ loc' = [loc EXCEPT ![t].e = Entry(End(t))]
          /\ Goto(t, "sc_cas")
       \/ /\ var[End(t)].ver # loc[t].ver
          /\ loc' = [loc EXCEPT ![t].e = <<0, 0>>]
          /\ Goto(t, "release")
    /\ UNCHANGED <<var, nodes, history>>

\* The next version begins with no references.
SCCas(t) ==
    /\ pc[t] = "sc_cas"
    /\ \/ /\ Entry(End(t)) = loc[t].e
          /\ var' = [var EXCEPT ![End(t)].ver = @ + 1, ![End(t)].count = 0]
          /\ Goto(t, "transfer")
       \/ /\ Entry(End(t)) # loc[t].e
          /\ Goto(t, "sc_read")
          /\ UNCHANGED var
    /\ UNCHANGED <<nodes, loc, history>>

\* transfer(mynode, e.count)
Transfer(t) ==
    LET n == loc[t].mynode
        post == [exit[n] EXCEPT !.count = @ + loc[t].e[2], !.left = @ - 1]
    IN  /\ pc[t] = "transfer"
        /\ exit' = [exit EXCEPT ![n] = Stored(@, post)]
        /\ Goto(t, "sc_read")
        /\ UNCHANGED <<var, next, pred, val, allocated, freed, loc, history>>

\* Where SC, or unlink, leads.
After(t) ==
    IF loc[t].op = "enq"
    THEN IF loc[t].target = loc[t].nd THEN "ret" ELSE "ll_entry"
    ELSE IF loc[t].target = NULL THEN "ret"
    ELSE IF loc[t].success THEN "value" ELSE "ll_entry"

\* release(mynode): the last one out of a node tells its predecessor.
Release(t) ==
    LET n == loc[t].mynode
        post == [exit[n] EXCEPT !.count = @ - 1]
    IN  /\ pc[t] = "release"
        /\ exit' = [exit EXCEPT ![n] = Stored(@, post)]
        /\ Goto(t, IF Clean(post) THEN "nlp" ELSE After(t))
        /\ UNCHANGED <<var, next, pred, val, allocated, freed, loc, history>>

\* setNLPred(pred_nd), and the free at the end of release.
SetNLPred(t) ==
    LET n == loc[t].mynode
        p == pred[n]
        post == [exit[p] EXCEPT !.nlP = TRUE]
    IN  /\ pc[t] = "nlp"
        /\ exit' = [exit EXCEPT ![p] = Stored(@, post)]
        /\ freed' = freed \union {m \in {n, p} :
                        Freeable(IF m = p THEN post ELSE exit[n])}
        /\ Goto(t, After(t))
        /\ UNCHANGED <<var, next, pred, val, allocated, loc, history>>
-----------------------------------------------------------------------------
(* unlink: the end of a deq that found nothing *)

\* do e = loc->entry while (e.ver == myver): it waits for another deq.
UnlinkRead(t) ==
    /\ pc[t] = "unlink"
    /\ var["head"].ver # loc[t].ver
    /\ loc' = [loc EXCEPT ![t].e = Entry("head")]
    /\ Goto(t, "unlink_cas")
    /\ UNCHANGED <<var, nodes, history>>

\* It takes one from the references of that later version, or from mynode.
UnlinkCas(t) ==
    /\ pc[t] = "unlink_cas"
    /\ \/ /\ Entry("head") = loc[t].e
          /\ var' = [var EXCEPT !["head"].count = @ - 1]
          /\ unlinked' = TRUE
          /\ Goto(t, "ret")
       \/ /\ Entry("head") # loc[t].e
          /\ Goto(t, "release")
          /\ UNCHANGED <<var, unlinked>>
    /\ loc' = [loc EXCEPT ![t].e = <<0, 0>>]
    /\ UNCHANGED <<nodes, chain, sawEmpty>>
-----------------------------------------------------------------------------
Step(t) ==
    \/ LLEntry(t) \/ LLNode(t) \/ LLCas(t)
    \/ EnqLink(t) \/ DeqNext(t) \/ SetToBeFreed(t)
    \/ SCSlot(t) \/ SCRead(t) \/ SCCas(t) \/ Transfer(t)
    \/ Release(t) \/ SetNLPred(t)
    \/ UnlinkRead(t) \/ UnlinkCas(t)

Next ==
    \E t \in Threads :
        \/ Step(t) \/ Return(t)
        \/ EnqNoMemory(t) \/ DeqCall(t) \/ \E v \in Val : EnqCall(t, v)

Spec == Init /\ [][Next]_vars

\* Some thread that can go on does; no thread in particular.
FairSpec == Spec /\ WF_vars(\E t \in Threads : Step(t))
-----------------------------------------------------------------------------
(* What must hold *)

TypeOK ==
    /\ var \in [Ends -> [ptr : [0..1 -> Node], ver : Nat, count : Int]]
    /\ next \in [Node -> Addr] /\ pred \in [Node -> Addr]
    /\ val \in [Node -> Val \union {NULL}]
    /\ exit \in [Node -> [count : Int, left : Int, nlP : BOOLEAN, toBeFreed : BOOLEAN]]
    /\ allocated \in 2..MaxNodes /\ freed \subseteq Node
    /\ chain \in Seq(Node) /\ Len(chain) >= 1

\* An end at version v stands at the v-th node that was linked.  Its other slot
\* holds that node's predecessor, or its successor once some SC has won, even
\* though slower threads still run SC with old versions against both slots.
\* tail is at most one node behind the end of the list.
EndsFollowList ==
    /\ \A x \in Ends :
        /\ var[x].ver < Len(chain)
        /\ Current(x) = chain[var[x].ver + 1]
        /\ \/ Other(x) = pred[Current(x)]
           \/ next[Current(x)] # NULL /\ Other(x) = next[Current(x)]
    /\ Len(chain) <= var["tail"].ver + 2

\* The threads between their LL of n and their release of it.
Holding == {"link", "next", "sc_slot", "sc_read", "sc_cas", "transfer", "release",
            "unlink", "unlink_cas"}
Holders(n) == {t \in Threads : pc[t] \in Holding /\ loc[t].mynode = n}

\* Every reference to a node is counted once: in an entry tag, in the exit tag,
\* or on its way from one to the other.  It stays so until some unlink takes its
\* reference from a version it never had.
ReferencesCounted ==
    ~unlinked =>
        \A n \in Node :
            LET inEntry == {x \in Ends : Current(x) = n}
                moving == {t \in Threads : pc[t] = "transfer" /\ loc[t].mynode = n}
            IN  Cardinality(Holders(n)) =
                    exit[n].count
                        + MapThenSumSet(LAMBDA x : var[x].count, inEntry)
                        + MapThenSumSet(LAMBDA t : loc[t].e[2], moving)

\* The nodes whose fields the next step of t reads or writes.
Touched(t) ==
    CASE pc[t] \in {"link", "next", "sc_slot", "transfer", "release"} -> {loc[t].mynode}
      [] pc[t] = "nlp" -> {pred[loc[t].mynode]}
      [] pc[t] = "value" -> {loc[t].target}
      [] OTHER -> {}

\* No thread reads or writes a node that some thread freed.
NoUseAfterFree == \A t \in Threads : Touched(t) \cap freed = {}

\* The calls that have not taken effect, and those that have.
EnqPending(t) == loc[t].op = "enq" /\ loc[t].nd # NULL /\ loc[t].target # loc[t].nd
DeqWon(t) == loc[t].op = "deq" /\ loc[t].success
DeqPending(t) == loc[t].op = "deq" /\ pc[t] # "ret" /\ ~DeqWon(t)

\* The queue as its callers see it: an enq takes effect when it links its node,
\* a deq when its SC writes the other slot of head.
HeadTaken == Other("head") = next[Current("head")] /\ Other("head") # NULL

Phase ==
    [t \in Threads |->
        IF EnqPending(t) THEN "enq"
        ELSE IF loc[t].op = "enq" THEN "enqRet"
        ELSE IF DeqPending(t) THEN "deq"
        ELSE IF loc[t].op = "deq" THEN "deqRet" ELSE "idle"]

Res ==
    [t \in Threads |->
        [ok |-> DeqWon(t) \/ (Phase[t] = "enqRet" /\ loc[t].nd # NULL),
         val |-> IF DeqWon(t) THEN val[loc[t].target] ELSE NULL]]

Enqs == [i \in 1..(Len(chain) - 1) |-> val[chain[i + 1]]]
Dequeued == var["head"].ver + (IF HeadTaken THEN 1 ELSE 0)
Arg == [t \in Threads |-> IF EnqPending(t) THEN val[loc[t].nd] ELSE NULL]

\* enq and deq are atomic and first-in first-out for their callers, although the
\* winner of a slot may be overtaken by others before the version moves.
FIFO == INSTANCE FIFOQueue WITH
    enqs <- Enqs, ndeq <- Dequeued, phase <- Phase, arg <- Arg, res <- Res

RefinesFIFO == FIFO!Spec

InCall(t) == pc[t] \notin {"idle", "ret"}
Waiting(t) == pc[t] = "unlink" /\ var["head"].ver = loc[t].ver

\* The header of the file: a lock-free queue.  Whenever a thread is inside a
\* call, some call completes.
LockFree == (\E t \in Threads : InCall(t)) ~> (\E t \in Threads : pc[t] = "ret")

\* What is left of it: some call completes, unless every call is a deq that
\* found the queue empty and waits for another deq.
LockFreeButForEmpty ==
    (\E t \in Threads : InCall(t)) ~>
        \/ \E t \in Threads : pc[t] = "ret"
        \/ \A t \in Threads : InCall(t) => Waiting(t)
=============================================================================
