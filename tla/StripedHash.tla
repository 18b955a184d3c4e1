---------------------------- MODULE StripedHash ----------------------------
(***************************************************************************)
(* hash/StripedHash.c: a closed-address hash table whose buckets are       *)
(* guarded by a fixed array of mutexes (stripes), and which doubles when   *)
(* it becomes full, with all the stripes locked.                           *)
(*                                                                         *)
(* A bucket's list is only used with its stripe locked, so it is a set of  *)
(* keys.  table_size, setSize, old_bucket and old_table_size are also used *)
(* without a lock, or under different ones: each access to one of them is  *)
(* a step of its own.  A bucket array is known by its size, for sizes only *)
(* double.  After a use of freed memory or of a null pointer the model     *)
(* says nothing more: the program has stopped.                             *)
(***************************************************************************)
EXTENDS Integers, FiniteSets

CONSTANTS
    Threads, NULL,
    Key,          \* keys, natural numbers
    lock_size,    \* the number of stripes, and of buckets at the beginning
    Load,         \* policy: resize above this many keys per bucket (4)
    MaxTable,     \* bound: no table is made larger than this
    MaxDrift,     \* bound: no call begins with setSize wrong by more than this
    Ops,          \* the operations the threads call
    OutOfMemory   \* calloc may fail, in create_node and in init_bucket

ASSUME StripedAssumption ==
    /\ lock_size \in Nat \ {0} /\ Load \in Nat /\ Key \subseteq Nat
    /\ MaxTable \in Nat /\ MaxTable >= lock_size /\ MaxDrift \in Nat
    /\ NULL \notin Threads /\ Ops \subseteq {"add", "delete", "find"} /\ OutOfMemory \in BOOLEAN

VARIABLES
    table_size, old_table_size, old_bucket,
    chain,    \* the keys of every bucket of the table in use
    setSize,  \* as a signed number: a wrapped counter is negative
    mtx,      \* who holds each stripe
    freed,    \* the old arrays that were given to free_bucket
    fault,    \* the undefined behaviour that happened, if any
    pc,       \* the next step of each thread
    loc,      \* its local variables
    seen      \* history: what it has met, "present", "absent" or "no memory"

table == <<table_size, old_table_size, old_bucket, chain>>
shared == <<table, setSize, mtx, freed, fault>>
vars == <<shared, pc, loc, seen>>

Stripe == 0..(lock_size - 1)
Bucket == 0..(MaxTable - 1)

\* table_size, myBucket, retry, the result, a loaded setSize, and, in resize, i
\* and the arguments of free_bucket.
NoLocals == [op |-> "none", key |-> 0, ts |-> 0, mb |-> 0, retry |-> 0,
             ok |-> FALSE, n |-> 0, i |-> 0, fb |-> 0, fs |-> 0]

hashCode(k) == k % table_size

Members == UNION {chain[b] : b \in Bucket}

\* setSize++ can lose an update, and the error never goes away.
Uncounted(op) ==
    Cardinality({t \in Threads : pc[t] \in {"count", "store"} /\ loc[t].op = op})
Drifted ==
    setSize - Cardinality(Members) + Uncounted("add") - Uncounted("delete")
        \notin (-MaxDrift)..MaxDrift

At(t, l) == pc[t] = l /\ fault = "none"
Goto(t, l) == pc' = [pc EXCEPT ![t] = l]
-----------------------------------------------------------------------------
\* init_hashtable
Init ==
    /\ table_size = lock_size /\ old_table_size = 0 /\ old_bucket = 0
    /\ chain = [b \in Bucket |-> {}]
    /\ setSize = 0
    /\ mtx = [s \in Stripe |-> NULL]
    /\ freed = {}
    /\ fault = "none"
    /\ pc = [t \in Threads |-> "idle"]
    /\ loc = [t \in Threads |-> NoLocals]
    /\ seen = [t \in Threads |-> {}]

\* add, delete or find begins; find has no retries and reads no size.
Call(t, op, k) ==
    /\ At(t, "idle")
    /\ ~Drifted
    /\ loc' = [loc EXCEPT ![t] = [NoLocals EXCEPT !.op = op, !.key = k, !.retry = 2]]
    /\ Goto(t, IF op = "find" THEN "hash" ELSE "size")
    /\ UNCHANGED <<shared, seen>>

\* table_size = ht->table_size
ReadSize(t) ==
    /\ At(t, "size")
    /\ loc' = [loc EXCEPT ![t].ts = table_size]
    /\ Goto(t, "hash")
    /\ UNCHANGED <<shared, seen>>

\* myBucket = hashCode(key, ht), which reads ht->table_size again.
Hash(t) ==
    /\ At(t, "hash")
    /\ loc' = [loc EXCEPT ![t].mb = hashCode(loc[t].key)]
    /\ Goto(t, "lock")
    /\ UNCHANGED <<shared, seen>>

lockKey(t) == loc[t].mb % lock_size

Lock(t) ==
    /\ At(t, "lock")
    /\ mtx[lockKey(t)] = NULL
    /\ mtx' = [mtx EXCEPT ![lockKey(t)] = t]
    /\ Goto(t, "work")
    /\ UNCHANGED <<table, setSize, freed, fault, loc, seen>>

\* The bucket was computed for a table of another size.
Stale(t) == loc[t].ts # table_size

Meet(t, what) == seen' = [seen EXCEPT ![t] = @ \union {what}]
Look(t) == Meet(t, IF loc[t].key \in Members THEN "present" ELSE "absent")

\* Mutant: the size of the table is not compared again.
AddNodeUnchecked(t) ==
    LET k == loc[t].key  b == loc[t].mb IN
    /\ At(t, "work") /\ loc[t].op = "add"
    /\ \/ /\ k \in chain[b]
          /\ Look(t)
          /\ Goto(t, "unlock")
          /\ UNCHANGED <<chain, loc>>
       \/ /\ k \notin chain[b]
          /\ chain' = [chain EXCEPT ![b] = @ \union {k}]
          /\ loc' = [loc EXCEPT ![t].ok = TRUE]
          /\ seen' = [seen EXCEPT ![t] = {}]
          /\ Goto(t, "count")
    /\ UNCHANGED <<table_size, old_table_size, old_bucket, setSize, mtx, freed, fault>>

\* add, with its stripe locked: create_node, then the search for a place.
AddNode(t) ==
    LET k == loc[t].key  b == loc[t].mb IN
    /\ At(t, "work") /\ loc[t].op = "add"
    /\ \/ /\ Stale(t) \/ k \in chain[b]
          /\ Look(t)
          /\ Goto(t, "unlock")
          /\ UNCHANGED <<chain, loc>>
       \/ /\ ~Stale(t) /\ k \notin chain[b]
          /\ chain' = [chain EXCEPT ![b] = @ \union {k}]
          /\ loc' = [loc EXCEPT ![t].ok = TRUE]
          /\ seen' = [seen EXCEPT ![t] = {}]
          /\ Goto(t, "count")
       \/ /\ ~Stale(t) /\ OutOfMemory
          /\ Meet(t, "no memory")
          /\ Goto(t, "unlock")
          /\ UNCHANGED <<chain, loc>>
    /\ UNCHANGED <<table_size, old_table_size, old_bucket, setSize, mtx, freed, fault>>

\* delete, with its stripe locked.  The search stops at the first key that is
\* not smaller; without one, delete_node reads curr->key where curr is NULL.
DeleteNode(t) ==
    LET k == loc[t].key
        b == loc[t].mb
        pastEnd == chain[b] # {} /\ \A j \in chain[b] : j < k
    IN  /\ At(t, "work") /\ loc[t].op = "delete"
        /\ \/ /\ Stale(t) \/ (k \notin chain[b] /\ ~pastEnd)
              /\ Look(t)
              /\ Goto(t, "unlock")
              /\ UNCHANGED <<chain, loc, fault>>
           \/ /\ ~Stale(t) /\ k \in chain[b]
              /\ chain' = [chain EXCEPT ![b] = @ \ {k}]
              /\ loc' = [loc EXCEPT ![t].ok = TRUE]
              /\ seen' = [seen EXCEPT ![t] = {}]
              /\ Goto(t, "count")
              /\ UNCHANGED fault
           \/ /\ ~Stale(t) /\ pastEnd
              /\ fault' = "null pointer"
              /\ UNCHANGED <<chain, loc, pc, seen>>
        /\ UNCHANGED <<table_size, old_table_size, old_bucket, setSize, mtx, freed>>

\* find, with its stripe locked.
FindNode(t) ==
    /\ At(t, "work") /\ loc[t].op = "find"
    /\ loc' = [loc EXCEPT ![t].ok = loc[t].key \in chain[loc[t].mb]]
    /\ Look(t)
    /\ Goto(t, "unlock")
    /\ UNCHANGED shared

\* ht->setSize++ or --: a load and a store, under this bucket's stripe only.
LoadCount(t) ==
    /\ At(t, "count")
    /\ loc' = [loc EXCEPT ![t].n = setSize]
    /\ Goto(t, "store")
    /\ UNCHANGED <<shared, seen>>

StoreCount(t) ==
    /\ At(t, "store")
    /\ setSize' = loc[t].n + IF loc[t].op = "add" THEN 1 ELSE -1
    /\ Goto(t, "unlock")
    /\ UNCHANGED <<table, mtx, freed, fault, loc, seen>>

\* while (retry-- > 0); afterwards add goes on to its policy.  What the other
\* local variables held is not used again.
Unlock(t) ==
    LET again == loc[t].op # "find" /\ ~loc[t].ok /\ loc[t].retry > 0 IN
    /\ At(t, "unlock")
    /\ mtx' = [mtx EXCEPT ![lockKey(t)] = NULL]
    /\ loc' = [loc EXCEPT ![t] = [loc[t] EXCEPT !.retry = IF again THEN @ - 1 ELSE 0,
                                               !.ts = 0, !.mb = 0, !.n = 0]]
    /\ Goto(t, IF again THEN "size" ELSE IF loc[t].op = "add" THEN "policy" ELSE "ret")
    /\ UNCHANGED <<table, setSize, freed, fault, seen>>
-----------------------------------------------------------------------------
(* policy and resize, the end of add *)

PolicyCount(t) ==
    /\ At(t, "policy")
    /\ loc' = [loc EXCEPT ![t].n = setSize]
    /\ Goto(t, "policy_size")
    /\ UNCHANGED <<shared, seen>>

\* (int)(setSize / table_size) > Load.  For a wrapped counter and a size that
\* is a power of two (the default) the int is negative, as this quotient is.
PolicySize(t) ==
    /\ At(t, "policy_size")
    /\ Goto(t, IF loc[t].n \div table_size > Load THEN "rsize" ELSE "ret")
    /\ loc' = [loc EXCEPT ![t].n = 0]
    /\ UNCHANGED <<shared, seen>>

\* table_size = ht->table_size, of resize; policy is not asked again.
ResizeRead(t) ==
    /\ At(t, "rsize")
    /\ loc' = [loc EXCEPT ![t].ts = table_size, ![t].i = 0]
    /\ Goto(t, IF 2 * table_size <= MaxTable THEN "rlock" ELSE "ret")
    /\ UNCHANGED <<shared, seen>>

\* Mutant: resize begins with the stripe of its own key and goes round.
ResizeLockOwnFirst(t) ==
    LET i == loc[t].i
        s == (i + loc[t].key) % lock_size
    IN  /\ At(t, "rlock")
        /\ mtx[s] = NULL
        /\ mtx' = [mtx EXCEPT ![s] = t]
        /\ loc' = [loc EXCEPT ![t].i = (i + 1) % lock_size]
        /\ Goto(t, IF i + 1 < lock_size THEN "rlock" ELSE "rcheck")
        /\ UNCHANGED <<table, setSize, freed, fault, seen>>

\* Mutant: the last stripe is left out.
ResizeLockShort(t) ==
    LET i == loc[t].i IN
    /\ At(t, "rlock")
    /\ mtx[i] = NULL
    /\ mtx' = [mtx EXCEPT ![i] = t]
    /\ loc' = [loc EXCEPT ![t].i = IF i + 2 < lock_size THEN i + 1 ELSE 0]
    /\ Goto(t, IF i + 2 < lock_size THEN "rlock" ELSE "rcheck")
    /\ UNCHANGED <<table, setSize, freed, fault, seen>>

\* Lock every stripe, in the order of the array.
ResizeLock(t) ==
    LET i == loc[t].i IN
    /\ At(t, "rlock")
    /\ mtx[i] = NULL
    /\ mtx' = [mtx EXCEPT ![i] = t]
    /\ loc' = [loc EXCEPT ![t].i = (i + 1) % lock_size]
    /\ Goto(t, IF i + 1 < lock_size THEN "rlock" ELSE "rcheck")
    /\ UNCHANGED <<table, setSize, freed, fault, seen>>

ResizeCheck(t) ==
    /\ At(t, "rcheck")
    /\ Goto(t, IF loc[t].ts # table_size THEN "rquit" ELSE "rsave")
    /\ loc' = [loc EXCEPT ![t].ts = 0]
    /\ UNCHANGED <<shared, seen>>

\* The table becomes the old one, first its size ...
ResizeSave(t) ==
    /\ At(t, "rsave")
    /\ old_table_size' = table_size
    /\ Goto(t, "rswap")
    /\ UNCHANGED <<table_size, old_bucket, chain, setSize, mtx, freed, fault, loc, seen>>

\* ... and then its array; when calloc fails, resize just returns.
ResizeSwap(t) ==
    /\ At(t, "rswap")
    /\ old_bucket' = table_size
    /\ \/ Goto(t, "rdouble")
       \/ OutOfMemory /\ Goto(t, "ret")
    /\ UNCHANGED <<table_size, old_table_size, chain, setSize, mtx, freed, fault, loc, seen>>

\* Mutant: the table grows by a bucket.
ResizeDoubleByOne(t) ==
    /\ At(t, "rdouble")
    /\ table_size' = table_size + 1
    /\ Goto(t, "rehash")
    /\ UNCHANGED <<old_table_size, old_bucket, chain, setSize, mtx, freed, fault, loc, seen>>

ResizeDouble(t) ==
    /\ At(t, "rdouble")
    /\ table_size' = 2 * table_size
    /\ Goto(t, "rehash")
    /\ UNCHANGED <<old_table_size, old_bucket, chain, setSize, mtx, freed, fault, loc, seen>>

\* Mutant: buckets keep their keys, as if they were already in place.
RehashNot(t) ==
    /\ At(t, "rehash")
    /\ Goto(t, "runlock")
    /\ UNCHANGED <<shared, loc, seen>>

\* Every node goes to the bucket its key has in the new table.
Rehash(t) ==
    /\ At(t, "rehash")
    /\ chain' = [b \in Bucket |-> {k \in Members : hashCode(k) = b}]
    /\ Goto(t, "runlock")
    /\ UNCHANGED <<table_size, old_table_size, old_bucket, setSize, mtx, freed, fault, loc, seen>>

\* Unlock every stripe, in order.
ResizeUnlock(t) ==
    LET i == loc[t].i IN
    /\ At(t, "runlock") \/ At(t, "rquit")
    /\ mtx' = [mtx EXCEPT ![i] = NULL]
    /\ loc' = [loc EXCEPT ![t].i = (i + 1) % lock_size]
    /\ Goto(t, IF i + 1 < lock_size THEN pc[t]
               ELSE IF pc[t] = "runlock" THEN "rfree" ELSE "ret")
    /\ UNCHANGED <<table, setSize, freed, fault, seen>>

\* free_bucket(ht->old_bucket, ht->old_table_size): no stripe is locked, and C
\* does not say which argument is loaded first.
LoadOldBucket(t) ==
    /\ At(t, "rfree") \/ At(t, "rfree_b")
    /\ loc' = [loc EXCEPT ![t].fb = old_bucket]
    /\ Goto(t, IF pc[t] = "rfree" THEN "rfree_s" ELSE "free")
    /\ UNCHANGED <<shared, seen>>

LoadOldSize(t) ==
    /\ At(t, "rfree") \/ At(t, "rfree_s")
    /\ loc' = [loc EXCEPT ![t].fs = old_table_size]
    /\ Goto(t, IF pc[t] = "rfree" THEN "rfree_b" ELSE "free")
    /\ UNCHANGED <<shared, seen>>

\* By now it may be the array of another resize, which still moves nodes out of
\* it or has freed it, or the size of another array than the one loaded.
FreeOld(t) ==
    LET b == loc[t].fb
        inUse == b = old_bucket /\ \E u \in Threads : pc[u] \in {"rdouble", "rehash"}
    IN  /\ At(t, "free")
        /\ fault' = IF inUse \/ b \in freed THEN "freed memory"
                    ELSE IF loc[t].fs > b THEN "past the array" ELSE fault
        /\ freed' = freed \union {b}
        /\ Goto(t, "ret")
        /\ UNCHANGED <<table, setSize, mtx, loc, seen>>

Return(t) ==
    /\ At(t, "ret")
    /\ loc' = [loc EXCEPT ![t] = NoLocals]
    /\ seen' = [seen EXCEPT ![t] = {}]
    /\ Goto(t, "idle")
    /\ UNCHANGED shared
-----------------------------------------------------------------------------
Step(t) ==
    \/ ReadSize(t) \/ Hash(t) \/ Lock(t)
    \/ AddNode(t) \/ DeleteNode(t) \/ FindNode(t)
    \/ LoadCount(t) \/ StoreCount(t) \/ Unlock(t)
    \/ PolicyCount(t) \/ PolicySize(t)
    \/ ResizeRead(t) \/ ResizeLock(t) \/ ResizeCheck(t)
    \/ ResizeSave(t) \/ ResizeSwap(t) \/ ResizeDouble(t) \/ Rehash(t)
    \/ ResizeUnlock(t) \/ LoadOldBucket(t) \/ LoadOldSize(t) \/ FreeOld(t)
    \/ Return(t)

\* When calloc fails in init_bucket, ht->bucket is left a null pointer, or an
\* array without heads, and all the stripes stay locked: later calls wait for ever.
HalfTable ==
    old_bucket = table_size /\ \A t \in Threads : pc[t] \notin {"rdouble", "rehash"}

Stopped == (fault # "none" \/ Drifted \/ HalfTable) /\ UNCHANGED vars

Next ==
    \/ \E t \in Threads : Step(t) \/ \E op \in Ops, k \in Key : Call(t, op, k)
    \/ Stopped

Spec == Init /\ [][Next]_vars
-----------------------------------------------------------------------------
(* What must hold *)

Working == {"work", "count", "store", "unlock"}
Resizing == {"rcheck", "rsave", "rswap", "rdouble", "rehash"}

Label == {"idle", "size", "hash", "lock", "policy", "policy_size", "rsize", "rlock",
          "runlock", "rquit", "rfree", "rfree_b", "rfree_s", "free", "ret"}
             \union Working \union Resizing
Local == [op : {"none", "add", "delete", "find"}, key : Key \union {0}, ts : 0..MaxTable,
          mb : Bucket, retry : 0..2, ok : BOOLEAN, n : Int, i : Stripe,
          fb : 0..MaxTable, fs : 0..MaxTable]

TypeOK ==
    /\ table_size \in lock_size..MaxTable /\ table_size % lock_size = 0
    /\ old_table_size \in 0..MaxTable /\ old_bucket \in 0..MaxTable
    /\ chain \in [Bucket -> SUBSET Key]
    /\ setSize \in Int
    /\ mtx \in [Stripe -> Threads \union {NULL}]
    /\ freed \subseteq 1..MaxTable
    /\ fault \in {"none", "null pointer", "freed memory", "past the array"}
    /\ pc \in [Threads -> Label]
    /\ loc \in [Threads -> Local]
    /\ seen \in [Threads -> SUBSET {"present", "absent", "no memory"}]

\* Every key is where a search for it looks, and nowhere else, whatever add or
\* delete computed its bucket before the table was resized.
InItsBucket ==
    (\A t \in Threads : pc[t] # "rehash") =>
        \A b \in Bucket : \A k \in chain[b] : hashCode(k) = b

\* Whoever uses a bucket has locked the stripe that every other user of that
\* bucket locks, before and after any resize, and resize has locked them all.
\* Nobody uses a table that resize could not make.
StripesGuard ==
    \A t \in Threads :
        /\ pc[t] \in Working => mtx[loc[t].key % lock_size] = t
        /\ pc[t] \in Resizing => \A s \in Stripe : mtx[s] = t
        /\ HalfTable => pc[t] \notin Working

\* The mutexes a thread may have to wait for: the stripe of its bucket, and in
\* resize every stripe, one after the other, while it holds those before it.
Waits(t) ==
    \/ pc[t] = "lock" /\ mtx[lockKey(t)] # NULL
    \/ pc[t] = "rlock" /\ mtx[loc[t].i] # NULL

\* Calls and resizes never all wait for each other: as long as there is a table,
\* of the threads inside a call at least one has its next mutex free.  Resizes
\* hold stripes while they wait for more, and two of them may do so at a time.
SomeoneRuns ==
    (\E t \in Threads : pc[t] # "idle") /\ ~HalfTable =>
        \E t \in Threads : pc[t] # "idle" /\ ~Waits(t)

\* add and delete are atomic operations on a set, whatever calls of find go on
\* at the same time.  What find answers is not part of it: see FindAnswers.
After == {"policy", "policy_size", "rsize", "rlock", "runlock", "rquit",
          "rfree", "rfree_b", "rfree_s", "free", "ret"}
Done(t) == pc[t] \in After \union Resizing \/ loc[t].ok

callOf(t) ==
    IF loc[t].op = "find" THEN [op |-> "none", key |-> 0, done |-> FALSE, res |-> FALSE]
    ELSE [op |-> loc[t].op, key |-> loc[t].key, done |-> Done(t), res |-> Done(t) /\ loc[t].ok]
seenOf(t) == IF loc[t].op = "find" THEN {} ELSE seen[t]

Set == INSTANCE KeySet WITH
    members <- Members,
    call <- [t \in Threads |-> callOf(t)],
    seen <- [t \in Threads |-> seenOf(t)]

AtomicSet == Set!Spec

(* What the source says of itself and the runs refute *)

\* find: "success(found): return true, failure(not found): return false".
FindAnswers ==
    \A t \in Threads : pc[t] = "ret" /\ loc[t].op = "find" =>
        (IF loc[t].ok THEN "present" ELSE "absent") \in seen[t]

\* add returns false only for a key that is there, or without memory.
AddAnswers ==
    \A t \in Threads : pc[t] = "ret" /\ loc[t].op = "add" /\ ~loc[t].ok =>
        seen[t] \intersect {"present", "no memory"} # {}

\* The old table is freed when its nodes are in the new one, and once.
OldTableFreedOnce == fault # "freed memory"
=============================================================================
