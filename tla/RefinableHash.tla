--------------------------- MODULE RefinableHash ---------------------------
(***************************************************************************)
(* hash/RefinableHash.c: the striped table with a mutex per bucket.  The   *)
(* bucket array holds pointers to the mutexes; resize makes a larger one,  *)
(* which takes over the old mutexes and gets new ones for its new buckets. *)
(*                                                                         *)
(* A bucket is used with its mutex locked, except that resize moves nodes  *)
(* into new buckets whose mutexes it does not hold; each node it moves is  *)
(* a step.  An array is known by its size and a mutex by its bucket.       *)
(* setSize is left out: it loses updates, so policy may answer anything.   *)
(* What is undefined in C, or ends the program, is a fault, and the model  *)
(* says nothing of what comes after it.                                    *)
(***************************************************************************)
EXTENDS Integers, FiniteSets, FiniteSetsExt

CONSTANTS
    Threads, NULL,
    Key,        \* keys, natural numbers
    FirstSize,  \* the argument of init_hashtable
    MaxTable,   \* bound: no table is made larger than this
    OutOfMemory \* calloc may fail

ASSUME RefinableAssumption ==
    /\ Key \subseteq Nat /\ FirstSize \in Nat \ {0}
    /\ MaxTable \in Nat /\ MaxTable >= FirstSize
    /\ NULL \notin Threads /\ OutOfMemory \in BOOLEAN

VARIABLES
    table_size, old_table_size, old_bucket,
    chain,      \* the keys of every bucket of ht->bucket
    old_chain,  \* the keys that are still in ht->old_bucket
    mtx,        \* who holds the mutex of each bucket
    destroyed,  \* the mutexes that were destroyed
    freed,      \* the arrays that were freed
    fault,      \* what ended the program, if anything did
    pc, loc     \* the next step and the local variables of every thread

table == <<table_size, old_table_size, old_bucket, chain, old_chain>>
locks == <<mtx, destroyed, freed>>
vars == <<table, locks, fault, pc, loc>>

Bucket == 0..(MaxTable - 1)
Nothing == [b \in Bucket |-> {}]

\* ts is table_size and mb myBucket, or i in resize; arr is the array a mutex is
\* looked up in; resizing tells that the thread is in resize; fb and fs are the
\* arguments of free_bucket.
NoLocals == [op |-> "none", key |-> 0, ts |-> 0, mb |-> 0, arr |-> 0, retry |-> 0,
             ok |-> FALSE, resizing |-> FALSE, fb |-> 0, fs |-> 0]

hashCode(k) == k % table_size
KeysOf(c) == UNION {c[b] : b \in Bucket}
Members == KeysOf(chain) \union KeysOf(old_chain)

At(t, l) == pc[t] = l /\ fault = "none"
Goto(t, l) == pc' = [pc EXCEPT ![t] = l]
Fault(why) == fault' = why /\ UNCHANGED <<table, locks, pc, loc>>
-----------------------------------------------------------------------------
\* init_hashtable
Init ==
    /\ table_size = FirstSize /\ old_table_size = 0 /\ old_bucket = 0
    /\ chain = Nothing /\ old_chain = Nothing
    /\ mtx = [b \in Bucket |-> NULL]
    /\ destroyed = {} /\ freed = {}
    /\ fault = "none"
    /\ pc = [t \in Threads |-> "idle"]
    /\ loc = [t \in Threads |-> NoLocals]

\* add, delete or find begins; find has no retries and reads no size.
Call(t, op, k) ==
    /\ At(t, "idle")
    /\ loc' = [loc EXCEPT ![t] = [NoLocals EXCEPT !.op = op, !.key = k, !.retry = 2]]
    /\ Goto(t, IF op = "find" THEN "hash" ELSE "size")
    /\ UNCHANGED <<table, locks, fault>>

\* table_size = ht->table_size
ReadSize(t) ==
    /\ At(t, "size")
    /\ loc' = [loc EXCEPT ![t].ts = table_size]
    /\ Goto(t, "hash")
    /\ UNCHANGED <<table, locks, fault>>

\* myBucket = hashCode(key, ht)
Hash(t) ==
    /\ At(t, "hash")
    /\ loc' = [loc EXCEPT ![t].mb = hashCode(loc[t].key)]
    /\ Goto(t, "bucket")
    /\ UNCHANGED <<table, locks, fault>>

\* init_bucket sets ht->bucket first and fills the array afterwards.
Unfinished == \E u \in Threads : pc[u] = "rinit"

\* lock(ht->bucket[b].mtx): ht->bucket, ...
LoadBucket(t) ==
    /\ At(t, "bucket")
    /\ loc' = [loc EXCEPT ![t].arr = IF Unfinished THEN 2 * table_size ELSE table_size]
    /\ Goto(t, "mutex")
    /\ UNCHANGED <<table, locks, fault>>

\* ... its element, which may be null, or a mutex that no one else uses, while
\* init_bucket is at work, ...
LoadMutex(t) ==
    /\ At(t, "mutex")
    /\ \/ loc[t].arr \in freed /\ Fault("freed memory")
       \/ Unfinished /\ loc[t].arr = 2 * table_size /\ Fault("unfinished bucket")
       \/ /\ loc[t].arr \notin freed
          /\ loc' = [loc EXCEPT ![t].arr = 0]
          /\ Goto(t, "lock")
          /\ UNCHANGED <<table, locks, fault>>

\* Mutant: resize leaves the last mutex out.
LockShort(t) ==
    LET b == loc[t].mb
        more == loc[t].resizing /\ b + 2 < loc[t].ts
    IN  /\ At(t, "lock")
        /\ \/ b \in destroyed /\ Fault("destroyed mutex")
           \/ /\ b \notin destroyed /\ mtx[b] = NULL
              /\ mtx' = [mtx EXCEPT ![b] = t]
              /\ loc' = [loc EXCEPT ![t].mb = IF more THEN b + 1 ELSE b]
              /\ Goto(t, IF more THEN "bucket" ELSE IF loc[t].resizing THEN "rcheck" ELSE "work")
              /\ UNCHANGED <<table, destroyed, freed, fault>>

\* ... and the mutex itself.  resize goes on to the next one.
Lock(t) ==
    LET b == loc[t].mb
        more == loc[t].resizing /\ b + 1 < loc[t].ts
    IN  /\ At(t, "lock")
        /\ \/ b \in destroyed /\ Fault("destroyed mutex")
           \/ /\ b \notin destroyed /\ mtx[b] = NULL
              /\ mtx' = [mtx EXCEPT ![b] = t]
              /\ loc' = [loc EXCEPT ![t].mb = IF more THEN b + 1 ELSE b]
              /\ Goto(t, IF more THEN "bucket" ELSE IF loc[t].resizing THEN "rcheck" ELSE "work")
              /\ UNCHANGED <<table, destroyed, freed, fault>>
-----------------------------------------------------------------------------
(* With the mutex of a bucket locked *)

\* The bucket was computed for a table of another size.
Stale(t) == loc[t].ts # table_size
Answer(t, r) == loc' = [loc EXCEPT ![t].ok = r] /\ Goto(t, "unlock")

AddNode(t) ==
    LET k == loc[t].key  b == loc[t].mb IN
    /\ At(t, "work") /\ loc[t].op = "add"
    /\ \/ /\ Stale(t) \/ k \in chain[b] \/ OutOfMemory
          /\ Answer(t, FALSE)
          /\ UNCHANGED chain
       \/ /\ ~Stale(t) /\ k \notin chain[b]
          /\ chain' = [chain EXCEPT ![b] = @ \union {k}]
          /\ Answer(t, TRUE)
    /\ UNCHANGED <<table_size, old_table_size, old_bucket, old_chain, locks, fault>>

\* The search stops at the first key that is not smaller; without one,
\* delete_node reads curr->key where curr is null.
DeleteNode(t) ==
    LET k == loc[t].key
        b == loc[t].mb
        pastEnd == chain[b] # {} /\ \A j \in chain[b] : j < k
    IN  /\ At(t, "work") /\ loc[t].op = "delete"
        /\ \/ /\ Stale(t) \/ (k \notin chain[b] /\ ~pastEnd)
              /\ Answer(t, FALSE)
              /\ UNCHANGED <<table, locks, fault>>
           \/ /\ ~Stale(t) /\ k \in chain[b]
              /\ chain' = [chain EXCEPT ![b] = @ \ {k}]
              /\ Answer(t, TRUE)
              /\ UNCHANGED <<table_size, old_table_size, old_bucket, old_chain, locks, fault>>
           \/ ~Stale(t) /\ pastEnd /\ Fault("null pointer")

FindNode(t) ==
    /\ At(t, "work") /\ loc[t].op = "find"
    /\ Answer(t, loc[t].key \in chain[loc[t].mb])
    /\ UNCHANGED <<table, locks, fault>>

\* Mutant: the mutex is left locked when the call has found its node.
UnlockRetryOnly(t) ==
    LET again == loc[t].op # "find" /\ ~loc[t].ok /\ loc[t].retry > 0 IN
    /\ At(t, "unlock")
    /\ mtx' = IF loc[t].ok THEN mtx ELSE [mtx EXCEPT ![loc[t].mb] = NULL]
    /\ loc' = [loc EXCEPT ![t] = [loc[t] EXCEPT !.retry = IF again THEN @ - 1 ELSE 0,
                                               !.ts = 0, !.mb = 0]]
    /\ Goto(t, IF again THEN "size" ELSE IF loc[t].op = "add" THEN "policy" ELSE "ret")
    /\ UNCHANGED <<table, destroyed, freed, fault>>

\* while (retry-- > 0); afterwards add asks policy.
Unlock(t) ==
    LET again == loc[t].op # "find" /\ ~loc[t].ok /\ loc[t].retry > 0 IN
    /\ At(t, "unlock")
    /\ mtx' = [mtx EXCEPT ![loc[t].mb] = NULL]
    /\ loc' = [loc EXCEPT ![t] = [loc[t] EXCEPT !.retry = IF again THEN @ - 1 ELSE 0,
                                               !.ts = 0, !.mb = 0]]
    /\ Goto(t, IF again THEN "size" ELSE IF loc[t].op = "add" THEN "policy" ELSE "ret")
    /\ UNCHANGED <<table, destroyed, freed, fault>>
-----------------------------------------------------------------------------
(* resize *)

Policy(t) ==
    /\ At(t, "policy")
    /\ Goto(t, "ret") \/ Goto(t, "rsize")
    /\ UNCHANGED <<table, locks, fault, loc>>

\* table_size = ht->table_size, before anything is locked.
ResizeRead(t) ==
    /\ At(t, "rsize")
    /\ \/ 2 * table_size <= MaxTable
          /\ loc' = [loc EXCEPT ![t].ts = table_size, ![t].mb = 0, ![t].resizing = TRUE]
          /\ Goto(t, "bucket")
       \/ 2 * table_size > MaxTable /\ Goto(t, "ret") /\ UNCHANGED loc
    /\ UNCHANGED <<table, locks, fault>>

ResizeCheck(t) ==
    /\ At(t, "rcheck")
    /\ loc' = [loc EXCEPT ![t].mb = 0]
    /\ Goto(t, IF Stale(t) THEN "rquit" ELSE "rsave")
    /\ UNCHANGED <<table, locks, fault>>

\* First ht->old_table_size is set, ...
ResizeSave(t) ==
    /\ At(t, "rsave")
    /\ old_table_size' = table_size
    /\ Goto(t, "rswap")
    /\ UNCHANGED <<table_size, old_bucket, chain, old_chain, locks, fault, loc>>

\* ... then ht->bucket becomes the old array and, in init_bucket, a new one;
\* without memory it stays a null pointer, or an array without heads, for ever.
ResizeSwap(t) ==
    /\ At(t, "rswap")
    /\ \/ OutOfMemory /\ Fault("no table")
       \/ /\ old_bucket' = table_size
          /\ old_chain' = chain /\ chain' = Nothing
          /\ Goto(t, "rinit")
          /\ UNCHANGED <<table_size, old_table_size, locks, fault, loc>>

ResizeDouble(t) ==
    /\ At(t, "rinit")
    /\ table_size' = 2 * table_size
    /\ Goto(t, "rehash")
    /\ UNCHANGED <<old_table_size, old_bucket, chain, old_chain, locks, fault, loc>>

\* The next node to move: of the first bucket that has one, the first.
Left == {b \in Bucket : old_chain[b] # {}}
NextKey == Min(old_chain[Min(Left)])

\* Mutant: the first bucket is left out.
RehashNodeLate(t) ==
    /\ At(t, "rehash")
    /\ \/ /\ Left \ {0} = {}
          /\ old_chain' = Nothing
          /\ Goto(t, "runlock")
          /\ UNCHANGED <<chain, fault>>
       \/ LET b == Min(Left \ {0})  k == Min(old_chain[b]) IN
          /\ Left \ {0} # {}
          /\ old_chain' = [old_chain EXCEPT ![b] = @ \ {k}]
          /\ chain' = [chain EXCEPT ![hashCode(k)] = @ \union {k}]
          /\ UNCHANGED <<pc, fault>>
    /\ UNCHANGED <<table_size, old_table_size, old_bucket, locks, loc>>

\* One node goes to its new bucket; a key that was added there meanwhile is kept
\* and the node is lost.  A call that is at work in that bucket may have read
\* the pointer that this step writes, or write it itself.
RehashNode(t) ==
    /\ At(t, "rehash")
    /\ \/ Left = {} /\ Goto(t, "runlock") /\ UNCHANGED <<table, locks, fault, loc>>
       \/ LET k == NextKey IN
          /\ Left # {}
          /\ old_chain' = [old_chain EXCEPT ![Min(Left)] = @ \ {k}]
          /\ chain' = [chain EXCEPT ![hashCode(k)] = @ \union {k}]
          /\ UNCHANGED <<table_size, old_table_size, old_bucket, locks, fault, pc, loc>>
       \/ /\ Left # {}
          /\ \E u \in Threads : pc[u] = "work" /\ loc[u].mb = hashCode(NextKey)
          /\ Fault("lost update")

\* i < ht->old_table_size, read in every round: by now another resize may have
\* set it, and hold the mutexes that are unlocked here.
ResizeUnlock(t) ==
    LET i == loc[t].mb
        last == IF pc[t] = "rquit" THEN loc[t].ts ELSE old_table_size
    IN  /\ At(t, "runlock") \/ At(t, "rquit")
        /\ \/ i < last /\ mtx[i] # t /\ Fault("mutex of another thread")
           \/ /\ i < last /\ mtx[i] = t
              /\ mtx' = [mtx EXCEPT ![i] = NULL]
              /\ loc' = [loc EXCEPT ![t].mb = i + 1]
              /\ UNCHANGED <<table, destroyed, freed, fault, pc>>
           \/ /\ i >= last
              /\ Goto(t, IF pc[t] = "rquit" THEN "ret" ELSE "rfree")
              /\ UNCHANGED <<table, locks, fault, loc>>

\* free_bucket(ht->old_bucket, ht->old_table_size): no mutex is locked, and C
\* does not say which argument is loaded first.
LoadOldBucket(t) ==
    /\ At(t, "rfree") \/ At(t, "rfree_b")
    /\ loc' = [loc EXCEPT ![t].fb = old_bucket]
    /\ Goto(t, IF pc[t] = "rfree" THEN "rfree_s" ELSE "free")
    /\ UNCHANGED <<table, locks, fault>>

LoadOldSize(t) ==
    /\ At(t, "rfree") \/ At(t, "rfree_s")
    /\ loc' = [loc EXCEPT ![t].fs = old_table_size]
    /\ Goto(t, IF pc[t] = "rfree" THEN "rfree_b" ELSE "free")
    /\ UNCHANGED <<table, locks, fault>>

\* By now the array may be that of another resize, or the size that of a larger
\* array.  pthread_mutex_destroy of all its mutexes, which are those of the new
\* array, except where one is locked.
FreeOld(t) ==
    LET b == loc[t].fb
        inUse == b = old_bucket /\ \E u \in Threads : pc[u] \in {"rinit", "rehash"}
        gone == inUse \/ b \in freed
    IN  /\ At(t, "free")
        /\ \/ gone /\ Fault("freed memory")
           \/ ~gone /\ loc[t].fs > b /\ Fault("past the array")
           \/ /\ ~gone /\ loc[t].fs <= b
              /\ freed' = freed \union {b}
              /\ destroyed' = destroyed \union {m \in 0..(loc[t].fs - 1) : mtx[m] = NULL}
              /\ Goto(t, "ret")
              /\ UNCHANGED <<table, mtx, fault, loc>>

Return(t) ==
    /\ At(t, "ret")
    /\ loc' = [loc EXCEPT ![t] = NoLocals]
    /\ Goto(t, "idle")
    /\ UNCHANGED <<table, locks, fault>>
-----------------------------------------------------------------------------
Step(t) ==
    \/ ReadSize(t) \/ Hash(t) \/ LoadBucket(t) \/ LoadMutex(t) \/ Lock(t)
    \/ AddNode(t) \/ DeleteNode(t) \/ FindNode(t) \/ Unlock(t)
    \/ Policy(t) \/ ResizeRead(t) \/ ResizeCheck(t)
    \/ ResizeSave(t) \/ ResizeSwap(t) \/ ResizeDouble(t) \/ RehashNode(t)
    \/ ResizeUnlock(t) \/ LoadOldBucket(t) \/ LoadOldSize(t) \/ FreeOld(t)
    \/ Return(t)

Stopped == fault # "none" /\ UNCHANGED vars

Next ==
    \/ \E t \in Threads :
        Step(t) \/ \E op \in {"add", "delete", "find"}, k \in Key : Call(t, op, k)
    \/ Stopped

Spec == Init /\ [][Next]_vars
-----------------------------------------------------------------------------
(* What must hold *)

Faults == {"null pointer", "freed memory", "unfinished bucket", "destroyed mutex",
           "no table", "lost update", "mutex of another thread", "past the array"}
Working == {"work", "unlock"}
Owning == {"rcheck", "rsave", "rswap", "rinit", "rehash"}

Label == {"idle", "size", "hash", "bucket", "mutex", "lock", "policy", "rsize",
          "runlock", "rquit", "rfree", "rfree_b", "rfree_s", "free", "ret"} \union Working \union Owning
Local == [op : {"none", "add", "delete", "find"}, key : Key \union {0}, ts : 0..MaxTable,
          mb : 0..MaxTable, arr : 0..MaxTable, retry : 0..2, ok : BOOLEAN,
          resizing : BOOLEAN, fb : 0..MaxTable, fs : 0..MaxTable]

\* The variables have their types; every mutex that is held is held by a call
\* at its bucket, or by a resize.
TypeOK ==
    /\ table_size \in FirstSize..MaxTable /\ old_table_size \in 0..MaxTable
    /\ old_bucket \in 0..MaxTable
    /\ chain \in [Bucket -> SUBSET Key] /\ old_chain \in [Bucket -> SUBSET Key]
    /\ mtx \in [Bucket -> Threads \union {NULL}]
    /\ destroyed \subseteq Bucket /\ freed \subseteq 1..MaxTable
    /\ fault \in Faults \union {"none"}
    /\ pc \in [Threads -> Label] /\ loc \in [Threads -> Local]
    /\ \A b \in Bucket : mtx[b] # NULL =>
          LET t == mtx[b] IN
          loc[t].resizing \/ (pc[t] \in Working /\ loc[t].mb = b)

\* Although the mutexes pass from one array to the next, two calls are never at
\* work in one bucket, and a resize that swaps or moves holds the mutex of every
\* old bucket: at most the new ones are used under its hands.
BucketsGuarded ==
    \A t, u \in Threads : t # u =>
        /\ pc[t] \in Working /\ pc[u] \in Working => loc[t].mb # loc[u].mb
        /\ pc[t] \in Owning => pc[u] \notin Owning
        /\ pc[t] \in Owning /\ pc[u] \in Working => loc[u].mb >= loc[t].ts

\* A key enters the table only by an add that says so, and leaves it only by a
\* delete that says so: resize loses and duplicates none, though calls go on in
\* the new buckets while it moves the nodes.
KeysKept ==
    [][\A k \in Key : (k \in Members) # (k \in Members') =>
          \E t \in Threads :
              /\ loc[t].key = k /\ pc[t] = "work" /\ loc'[t].ok
              /\ loc[t].op = IF k \in Members THEN "delete" ELSE "add"]_vars
=============================================================================
