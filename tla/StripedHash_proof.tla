------------------------- MODULE StripedHash_proof -------------------------
(***************************************************************************)
(* Proofs about the striped hash table, for any threads, keys, number of   *)
(* stripes and bound on the table: the types, who holds which stripe, that *)
(* every key stays in the bucket a search looks into, and that the threads *)
(* never all wait for each other's stripes.                                *)
(***************************************************************************)
EXTENDS StripedHash, FiniteSetTheorems, TLAPS
-----------------------------------------------------------------------------
(* Buckets and stripes *)

\* Quotient and remainder.
LEMMA DivMod ==
    ASSUME NEW a \in Nat, NEW n \in Nat \ {0}
    PROVE  /\ a \div n \in Nat
           /\ a % n \in 0..(n - 1)
           /\ a = n * (a \div n) + (a % n)
  BY SMT

\* There is one remainder.
LEMMA ModUnique ==
    ASSUME NEW n \in Nat \ {0}, NEW q \in Nat, NEW r \in 0..(n - 1)
    PROVE  (n * q + r) % n = r
  BY SMT

\* In a table whose size the stripes divide, the bucket of a key has the
\* stripe of the key.
LEMMA ModMod ==
    ASSUME NEW l \in Nat \ {0}, NEW n \in Nat \ {0}, NEW k \in Nat, n % l = 0
    PROVE  (k % n) % l = k % l
<1> DEFINE m == n \div l
           q == k \div n
           r == k % n
           p == r \div l
<1>1. m \in Nat /\ n = l * m
  BY DivMod
<1>2. q \in Nat /\ r \in Nat /\ k = n * q + r
  BY DivMod
<1>3. p \in Nat /\ r % l \in 0..(l - 1) /\ r = l * p + (r % l)
  BY <1>2, DivMod
<1> HIDE DEF m, q, r, p
<1>4. m * q + p \in Nat
  BY <1>1, <1>2, <1>3
<1>5. n * q + l * p = l * (m * q + p)
  BY <1>1, <1>2, <1>3
<1>6. k = l * (m * q + p) + (r % l)
  BY <1>2, <1>3, <1>5
<1>7. k % l = r % l
  BY <1>3, <1>4, <1>6, ModUnique
<1> QED
  BY <1>7 DEF r

\* The stripes divide a table that is doubled.
LEMMA DoubleMod ==
    ASSUME NEW l \in Nat \ {0}, NEW n \in Nat, n % l = 0
    PROVE  (2 * n) % l = 0
<1> DEFINE m == n \div l
<1>1. m \in Nat /\ n = l * m
  BY DivMod
<1> HIDE DEF m
<1>2. 2 * n = l * (2 * m) + 0 /\ 2 * m \in Nat /\ 0 \in 0..(l - 1)
  BY <1>1
<1>3. (l * (2 * m) + 0) % l = 0
  BY ONLY <1>2, ModUnique, l \in Nat \ {0}
<1> QED
  BY <1>2, <1>3
-----------------------------------------------------------------------------
(* The inductive invariant *)

\* The stripes that a thread has locked and will unlock, by its next step.
Holds(t, s) ==
    \/ pc[t] \in Working /\ s = loc[t].key % lock_size
    \/ pc[t] = "rlock" /\ s < loc[t].i
    \/ pc[t] \in Resizing
    \/ pc[t] \in {"runlock", "rquit"} /\ s >= loc[t].i

Owned == \A t \in Threads, s \in Stripe : Holds(t, s) => mtx[s] = t

\* A thread has locked no other stripes, as long as there is a table.
Kept == HalfTable \/ \A t \in Threads, s \in Stripe : mtx[s] = t => Holds(t, s)

\* A table that could not be made leaves all the stripes locked by nobody who
\* will unlock them.
Abandoned ==
    HalfTable => \A t \in Threads, s \in Stripe : mtx[s] # NULL /\ ~Holds(t, s)

\* What a thread knows of its call.
CallingOf(t) ==
    /\ pc[t] = "idle" => loc[t] = NoLocals /\ seen[t] = {}
    /\ pc[t] # "idle" => loc[t].op \in {"add", "delete", "find"} /\ loc[t].key \in Key
    /\ pc[t] \in {"size", "hash", "lock", "work"} => ~loc[t].ok
    /\ pc[t] \in {"count", "store"} => loc[t].ok

\* The bucket a thread computed has the stripe of its key, whatever the size of
\* the table was; it is the key's bucket unless the table has grown since.
BucketedOf(t) ==
    /\ pc[t] = "lock" \/ pc[t] \in Working =>
           loc[t].mb % lock_size = loc[t].key % lock_size
    /\ pc[t] \in {"hash", "lock", "work"} => loc[t].ts <= table_size
    /\ pc[t] \in {"lock", "work"} /\ loc[t].ts = table_size =>
           loc[t].mb = hashCode(loc[t].key)

\* A resize doubles a table that may be doubled, frees an array that was in use,
\* and has gone round the stripes before it begins to unlock the first.
SizedOf(t) ==
    /\ pc[t] \in {"rlock", "rcheck"} => 2 * loc[t].ts <= MaxTable
    /\ pc[t] \in {"rsave", "rswap", "rdouble"} => 2 * table_size <= MaxTable
    /\ pc[t] = "rdouble" => old_bucket = table_size
    /\ pc[t] = "rehash" => old_bucket < table_size
    /\ pc[t] \in {"rdouble", "rehash", "runlock", "rfree", "rfree_b"} => old_bucket > 0
    /\ pc[t] \in {"rfree_s", "free"} => loc[t].fb > 0
    /\ pc[t] \in Resizing => loc[t].i = 0

Calling == \A t \in Threads : CallingOf(t)
Bucketed == \A t \in Threads : BucketedOf(t)
Sized == \A t \in Threads : SizedOf(t)

Inv ==
    /\ TypeOK
    /\ Owned
    /\ Kept
    /\ Abandoned
    /\ Calling
    /\ Bucketed
    /\ Sized
    /\ InItsBucket
-----------------------------------------------------------------------------
(* What every step of a thread leaves alone *)

OnlyMoves(t) ==
    \A u \in Threads \ {t} :
        pc'[u] = pc[u] /\ loc'[u] = loc[u] /\ seen'[u] = seen[u]

\* A step takes stripes that are free, gives up stripes the thread holds, and
\* forgets none.
Respects(t) ==
    \A s \in Stripe :
        /\ Holds(t, s)' => mtx'[s] = t /\ (Holds(t, s) \/ mtx[s] = NULL)
        /\ mtx'[s] # mtx[s] => (Holds(t, s) \/ mtx[s] = NULL) /\ mtx'[s] \in {t, NULL}
        /\ mtx'[s] = t /\ (Holds(t, s) \/ mtx[s] # t) => Holds(t, s)'

LEMMA Bounds ==
    ASSUME TypeOK
    PROVE  /\ lock_size \in Nat \ {0} /\ MaxTable \in Nat
           /\ table_size \in Nat \ {0} /\ table_size <= MaxTable
           /\ lock_size <= table_size /\ table_size % lock_size = 0
<1>1. lock_size \in Nat \ {0} /\ MaxTable \in Nat
  BY StripedAssumption
<1>2. table_size \in lock_size..MaxTable /\ table_size % lock_size = 0
  BY DEF TypeOK
<1>3. table_size \in Nat \ {0} /\ table_size <= MaxTable /\ lock_size <= table_size
  BY <1>1, <1>2
<1> QED
  BY <1>1, <1>2, <1>3

LEMMA LocalType ==
    ASSUME TypeOK, NEW t \in Threads
    PROVE  /\ pc[t] \in Label /\ loc[t] \in Local
           /\ loc[t].op \in {"none", "add", "delete", "find"}
           /\ loc[t].key \in Nat /\ loc[t].key \in Key \union {0}
           /\ loc[t].ts \in Nat /\ loc[t].ts \in 0..MaxTable /\ loc[t].mb \in Bucket
           /\ loc[t].retry \in 0..2 /\ loc[t].ok \in BOOLEAN
           /\ loc[t].n \in Int /\ loc[t].i \in Stripe /\ loc[t].fb \in 0..MaxTable
<1>1. pc[t] \in Label /\ loc[t] \in Local
  BY DEF TypeOK
<1>2. /\ loc[t].op \in {"none", "add", "delete", "find"}
      /\ loc[t].key \in Key \union {0}
      /\ loc[t].ts \in 0..MaxTable /\ loc[t].mb \in Bucket
      /\ loc[t].retry \in 0..2 /\ loc[t].ok \in BOOLEAN
      /\ loc[t].n \in Int /\ loc[t].i \in Stripe /\ loc[t].fb \in 0..MaxTable
  BY <1>1 DEF Local
<1>3. loc[t].key \in Nat
  <2>1. loc[t].key \in Key \/ loc[t].key = 0
    BY <1>2
  <2>2. \A k \in Key : k \in Nat
    BY StripedAssumption
  <2> QED
    BY <2>1, <2>2
<1>4. loc[t].ts \in Nat
  <2>1. MaxTable \in Nat
    BY StripedAssumption
  <2> QED
    BY <1>2, <2>1
<1> QED
  BY <1>1, <1>2, <1>3, <1>4

LEMMA KeyStripe ==
    ASSUME NEW k \in Nat
    PROVE  k % lock_size \in Stripe
<1>1. lock_size \in Nat \ {0}
  BY StripedAssumption
<1> QED
  BY <1>1, DivMod DEF Stripe

\* The bucket of a key has the key's stripe, for the stripes divide the table.
LEMMA BucketStripe ==
    ASSUME TypeOK, NEW k \in Nat
    PROVE  /\ hashCode(k) \in 0..(table_size - 1) /\ hashCode(k) \in Bucket
           /\ hashCode(k) % lock_size = k % lock_size
<1>1. hashCode(k) \in 0..(table_size - 1)
  BY Bounds, DivMod DEF hashCode
<1>2. hashCode(k) \in Bucket
  BY <1>1, Bounds DEF Bucket
<1>3. hashCode(k) % lock_size = k % lock_size
  BY Bounds, ModMod DEF hashCode
<1> QED
  BY <1>1, <1>2, <1>3

\* No two threads hold a stripe.
LEMMA HeldOnce ==
    ASSUME Inv, NEW t \in Threads, NEW u \in Threads, NEW s \in Stripe,
           Holds(t, s), Holds(u, s)
    PROVE  t = u
  BY DEF Inv, Owned

LEMMA RespectfulStep ==
    ASSUME Inv, NEW t \in Threads, OnlyMoves(t), Respects(t), HalfTable' => HalfTable,
           UNCHANGED <<table_size, old_bucket>> \/ pc[t] \in Resizing
    PROVE  Owned' /\ Kept' /\ Abandoned'
<1>1. NULL \notin Threads
  BY StripedAssumption
<1>2. ASSUME NEW u \in Threads, u # t, NEW s \in Stripe
      PROVE  Holds(u, s)' <=> Holds(u, s)
  BY <1>2 DEF OnlyMoves, Holds
<1>3. ASSUME NEW u \in Threads, NEW s \in Stripe, Holds(u, s)'
      PROVE  mtx'[s] = u
  <2>1. CASE u = t
    BY <1>3, <2>1 DEF Respects
  <2>2. CASE u # t
    <3>1. mtx[s] = u
      BY <1>2, <1>3, <2>2 DEF Inv, Owned
    <3>2. ~Holds(t, s)
      BY <3>1, <2>2 DEF Inv, Owned
    <3> QED
      BY <1>1, <3>1, <3>2 DEF Respects
  <2> QED
    BY <2>1, <2>2
<1>4. Owned'
  BY <1>3 DEF Owned, Stripe
<1>5. ASSUME HalfTable', NEW u \in Threads, NEW s \in Stripe
      PROVE  mtx'[s] # NULL /\ ~Holds(u, s)'
  <2>1. mtx[s] # NULL /\ ~Holds(t, s) /\ ~Holds(u, s)
    BY <1>5 DEF Inv, Abandoned
  <2>2. mtx'[s] = mtx[s] /\ ~Holds(t, s)'
    BY <2>1 DEF Respects
  <2> QED
    BY <1>2, <2>1, <2>2
<1>6. Abandoned'
  BY <1>5 DEF Abandoned, Stripe
<1>7. HalfTable => HalfTable'
  <2>1. SUFFICES ASSUME HalfTable
                 PROVE  HalfTable'
    OBVIOUS
  <2>2. 0 \in Stripe
    BY StripedAssumption DEF Stripe
  <2>3. \A u \in Threads : mtx[0] # NULL /\ ~Holds(u, 0)
    BY <2>1, <2>2 DEF Inv, Abandoned
  <2>4. pc[t] \notin Resizing /\ pc'[t] \notin Resizing
    <3>1. ~Holds(t, 0) /\ ~Holds(t, 0)'
      BY <2>2, <2>3 DEF Respects
    <3> QED
      BY <3>1 DEF Holds
  <2>5. \A u \in Threads : pc'[u] \notin {"rdouble", "rehash"}
    BY <2>1, <2>4 DEF HalfTable, OnlyMoves, Resizing
  <2> QED
    BY <2>1, <2>4, <2>5 DEF HalfTable
<1>8. ASSUME ~HalfTable', NEW u \in Threads, NEW s \in Stripe, mtx'[s] = u
      PROVE  Holds(u, s)'
  <2>1. mtx[s] = t => Holds(t, s)
    BY <1>7, <1>8 DEF Inv, Kept
  <2>2. CASE u = t
    BY <1>8, <2>1, <2>2 DEF Respects
  <2>3. CASE u # t
    <3>1. mtx[s] = u
      BY <1>1, <1>8, <2>3 DEF Respects
    <3>2. Holds(u, s)
      BY <1>7, <1>8, <3>1 DEF Inv, Kept
    <3> QED
      BY <1>2, <2>3, <3>2
  <2> QED
    BY <2>2, <2>3
<1>9. Kept'
  BY <1>8 DEF Kept, Stripe
<1> QED
  BY <1>4, <1>6, <1>9

LEMMA SameTable ==
    ASSUME Inv, NEW t \in Threads, OnlyMoves(t),
           UNCHANGED <<table_size, old_bucket>>,
           CallingOf(t)', BucketedOf(t)', SizedOf(t)'
    PROVE  Calling' /\ Bucketed' /\ Sized'
<1>1. ASSUME NEW u \in Threads, u # t
      PROVE  CallingOf(u)' /\ BucketedOf(u)' /\ SizedOf(u)'
  <2>1. CallingOf(u) /\ BucketedOf(u) /\ SizedOf(u)
    BY DEF Inv, Calling, Bucketed, Sized
  <2>2. CallingOf(u)'
    BY <1>1, <2>1 DEF OnlyMoves, CallingOf
  <2>3. BucketedOf(u)'
    BY <1>1, <2>1 DEF OnlyMoves, BucketedOf, hashCode
  <2>4. SizedOf(u)'
    BY <1>1, <2>1 DEF OnlyMoves, SizedOf
  <2> QED
    BY <2>2, <2>3, <2>4
<1> QED
  BY <1>1 DEF Calling, Bucketed, Sized

LEMMA SameKeys ==
    ASSUME Inv, NEW t \in Threads, OnlyMoves(t), pc[t] \notin {"rdouble", "rehash"},
           UNCHANGED <<table_size, old_bucket>>
    PROVE  /\ HalfTable' => HalfTable
           /\ UNCHANGED chain => InItsBucket'
<1>1. \A u \in Threads : pc[u] \in {"rdouble", "rehash"} => pc'[u] = pc[u]
  BY DEF OnlyMoves
<1>2. HalfTable' => HalfTable
  BY <1>1 DEF HalfTable
<1>3. UNCHANGED chain => InItsBucket'
  BY <1>1 DEF Inv, InItsBucket, hashCode, Bucket
<1> QED
  BY <1>2, <1>3

\* A step that changes neither the table nor its keys.
LEMMA QuietStep ==
    ASSUME Inv, NEW t \in Threads, OnlyMoves(t), pc[t] \notin {"rdouble", "rehash"},
           UNCHANGED <<table_size, old_bucket, chain>>,
           TypeOK', Respects(t), CallingOf(t)', BucketedOf(t)', SizedOf(t)'
    PROVE  Inv'
<1>1. Owned' /\ Kept' /\ Abandoned'
  BY RespectfulStep, SameKeys
<1>2. Calling' /\ Bucketed' /\ Sized'
  BY SameTable
<1>3. InItsBucket'
  BY SameKeys
<1> QED
  BY <1>1, <1>2, <1>3 DEF Inv
-----------------------------------------------------------------------------
(* The steps of a call *)

LEMMA CallInv ==
    ASSUME Inv, NEW t \in Threads, NEW op \in Ops, NEW k \in Key, Call(t, op, k)
    PROVE  Inv'
<1> DEFINE r == [NoLocals EXCEPT !.op = op, !.key = k, !.retry = 2]
           l == IF op = "find" THEN "hash" ELSE "size"
<1>1. /\ pc[t] = "idle" /\ pc' = [pc EXCEPT ![t] = l]
      /\ loc' = [loc EXCEPT ![t] = r]
      /\ UNCHANGED <<shared, seen>>
  BY DEF Call, At, Goto
<1>2. r \in Local /\ r.op \in {"add", "delete", "find"} /\ r.key = k /\ ~r.ok /\ r.ts = 0
  <2>1. 0 \in 0..MaxTable /\ 0 \in Bucket /\ 0 \in Stripe
    BY Bounds DEF Inv, Bucket, Stripe
  <2>2. op \in {"add", "delete", "find"}
    BY StripedAssumption
  <2>3. NoLocals \in Local /\ ~NoLocals.ok /\ NoLocals.ts = 0
    BY <2>1 DEF NoLocals, Local
  <2>4. r \in Local
    <3> DEFINE q == [NoLocals EXCEPT !.op = op, !.key = k]
    <3>1. q \in Local
      BY <2>2, <2>3 DEF Local
    <3>2. r = [q EXCEPT !.retry = 2]
      BY <2>3 DEF Local
    <3> HIDE DEF q, r
    <3> QED
      BY <3>1, <3>2 DEF Local
  <2>5. r.op = op /\ r.key = k /\ ~r.ok /\ r.ts = 0
    BY <2>3 DEF Local
  <2> QED
    BY <2>2, <2>4, <2>5
<1> HIDE DEF r
<1>3. TypeOK'
  BY <1>1, <1>2 DEF Inv, TypeOK, Label, shared, table
<1>4. OnlyMoves(t) /\ pc'[t] \in {"size", "hash"} /\ loc'[t] = r
  BY <1>1 DEF Inv, TypeOK, OnlyMoves
<1>5. Respects(t)
  BY <1>1, <1>4 DEF Respects, Holds, Working, Resizing, shared, table
<1>6. CallingOf(t)' /\ BucketedOf(t)' /\ SizedOf(t)'
  BY <1>1, <1>2, <1>4, Bounds
  DEF Inv, CallingOf, BucketedOf, SizedOf, Working, Resizing, shared, table
<1> QED
  BY <1>1, <1>3, <1>4, <1>5, <1>6, QuietStep DEF shared, table

LEMMA ReadSizeInv ==
    ASSUME Inv, NEW t \in Threads, ReadSize(t)
    PROVE  Inv'
<1> DEFINE r == [loc[t] EXCEPT !.ts = table_size]
<1>1. /\ pc[t] = "size" /\ pc' = [pc EXCEPT ![t] = "hash"]
      /\ loc' = [loc EXCEPT ![t] = r]
      /\ UNCHANGED <<shared, seen>>
  BY DEF ReadSize, At, Goto
<1>2. /\ r \in Local /\ r.op = loc[t].op /\ r.key = loc[t].key
      /\ r.ok = loc[t].ok /\ r.ts = table_size
  BY LocalType, Bounds DEF Inv, Local
<1> HIDE DEF r
<1>3. TypeOK'
  BY <1>1, <1>2 DEF Inv, TypeOK, Label, shared, table
<1>4. OnlyMoves(t) /\ pc'[t] = "hash" /\ loc'[t] = r
  BY <1>1 DEF Inv, TypeOK, OnlyMoves
<1>5. Respects(t)
  BY <1>1, <1>4 DEF Respects, Holds, Working, Resizing, shared, table
<1>6. CallingOf(t)' /\ BucketedOf(t)' /\ SizedOf(t)'
  BY <1>1, <1>2, <1>4, Bounds
  DEF Inv, Calling, CallingOf, BucketedOf, SizedOf, Working, Resizing, shared, table
<1> QED
  BY <1>1, <1>3, <1>4, <1>5, <1>6, QuietStep DEF shared, table

LEMMA HashInv ==
    ASSUME Inv, NEW t \in Threads, Hash(t)
    PROVE  Inv'
<1> DEFINE r == [loc[t] EXCEPT !.mb = hashCode(loc[t].key)]
<1>1. /\ pc[t] = "hash" /\ pc' = [pc EXCEPT ![t] = "lock"]
      /\ loc' = [loc EXCEPT ![t] = r]
      /\ UNCHANGED <<shared, seen>>
  BY DEF Hash, At, Goto
<1>2. /\ hashCode(loc[t].key) \in Bucket
      /\ hashCode(loc[t].key) % lock_size = loc[t].key % lock_size
  BY LocalType, BucketStripe DEF Inv
<1>3. /\ r \in Local /\ r.op = loc[t].op /\ r.key = loc[t].key
      /\ r.ok = loc[t].ok /\ r.ts = loc[t].ts /\ r.mb = hashCode(loc[t].key)
  BY <1>2, LocalType DEF Inv, Local
<1> HIDE DEF r
<1>4. TypeOK'
  BY <1>1, <1>3 DEF Inv, TypeOK, Label, shared, table
<1>5. OnlyMoves(t) /\ pc'[t] = "lock" /\ loc'[t] = r
  BY <1>1 DEF Inv, TypeOK, OnlyMoves
<1>6. Respects(t)
  BY <1>1, <1>5 DEF Respects, Holds, Working, Resizing, shared, table
<1>7. BucketedOf(t)'
  BY <1>1, <1>2, <1>3, <1>5 DEF Inv, Bucketed, BucketedOf, shared, table, hashCode
<1>8. CallingOf(t)' /\ SizedOf(t)'
  BY <1>1, <1>3, <1>5 DEF Inv, Calling, CallingOf, SizedOf, Resizing, shared, table
<1> QED
  BY <1>1, <1>4, <1>5, <1>6, <1>7, <1>8, QuietStep DEF shared, table

LEMMA LockInv ==
    ASSUME Inv, NEW t \in Threads, Lock(t)
    PROVE  Inv'
<1>1. /\ pc[t] = "lock" /\ pc' = [pc EXCEPT ![t] = "work"]
      /\ mtx[lockKey(t)] = NULL /\ mtx' = [mtx EXCEPT ![lockKey(t)] = t]
      /\ UNCHANGED <<table_size, old_table_size, old_bucket, chain,
                     setSize, freed, fault, loc, seen>>
  BY DEF Lock, At, Goto, table
<1>2. BucketedOf(t) /\ CallingOf(t)
  BY DEF Inv, Bucketed, Calling
<1>3. lockKey(t) = loc[t].key % lock_size /\ lockKey(t) \in Stripe
  BY <1>1, <1>2, LocalType, KeyStripe DEF Inv, BucketedOf, lockKey
<1>4. TypeOK'
  BY <1>1, <1>3 DEF Inv, TypeOK, Label, Working
<1>5. OnlyMoves(t) /\ pc'[t] = "work"
  BY <1>1 DEF Inv, TypeOK, OnlyMoves
<1>6. Respects(t)
  BY <1>1, <1>3, <1>5 DEF Respects, Holds, Working, Resizing, Inv, TypeOK
<1>7. CallingOf(t)' /\ BucketedOf(t)' /\ SizedOf(t)'
  BY <1>1, <1>2, <1>5 DEF CallingOf, BucketedOf, SizedOf, Working, Resizing, hashCode
<1> QED
  BY <1>1, <1>4, <1>5, <1>6, <1>7, QuietStep

\* A thread whose table is not stale is in its key's bucket, and then its key
\* is in the set exactly if it is in that bucket.
LEMMA WorkBucket ==
    ASSUME Inv, NEW t \in Threads, pc[t] = "work"
    PROVE  /\ \A u \in Threads : pc[u] \notin Resizing
           /\ \A b \in Bucket : \A k \in chain[b] : hashCode(k) = b
           /\ loc[t].key \in Key /\ loc[t].mb \in Bucket
           /\ ~Stale(t) => /\ loc[t].mb = hashCode(loc[t].key)
                           /\ loc[t].key \in Members <=> loc[t].key \in chain[loc[t].mb]
<1>1. loc[t].key \in Key /\ loc[t].key \in Nat /\ loc[t].mb \in Bucket
  BY LocalType DEF Inv, Calling, CallingOf
<1>2. \A u \in Threads : pc[u] \notin Resizing
  <2>1. loc[t].key % lock_size \in Stripe
    BY <1>1, KeyStripe
  <2>2. Holds(t, loc[t].key % lock_size)
    BY DEF Holds, Working
  <2>3. ASSUME NEW u \in Threads, pc[u] \in Resizing
        PROVE  FALSE
    <3>1. Holds(u, loc[t].key % lock_size)
      BY <2>3 DEF Holds
    <3>2. u = t
      BY <3>1, <2>1, <2>2, HeldOnce
    <3> QED
      BY <3>2, <2>3 DEF Resizing
  <2> QED
    BY <2>3
<1>3. \A b \in Bucket : \A k \in chain[b] : hashCode(k) = b
  BY <1>2 DEF Inv, InItsBucket, Resizing
<1>4. ~Stale(t) => loc[t].mb = hashCode(loc[t].key)
  BY DEF Inv, Bucketed, BucketedOf, Stale
<1>5. ~Stale(t) => (loc[t].key \in Members <=> loc[t].key \in chain[loc[t].mb])
  BY <1>1, <1>3, <1>4 DEF Members
<1> QED
  BY <1>1, <1>2, <1>3, <1>4, <1>5

\* A step of a thread that is in its bucket and puts there, or takes from there,
\* at most its own key.
LEMMA WorkStep ==
    ASSUME Inv, NEW t \in Threads, pc[t] = "work",
           OnlyMoves(t), pc'[t] \in {"work", "count", "unlock"},
           loc'[t].key = loc[t].key, loc'[t].mb = loc[t].mb, loc'[t].ts = loc[t].ts,
           loc'[t].op = loc[t].op, pc'[t] = "work" => loc'[t].ok = loc[t].ok,
           pc'[t] = "count" => loc'[t].ok,
           UNCHANGED <<table_size, old_bucket, mtx>>, TypeOK',
           \A b \in Bucket : \A k \in chain'[b] :
               k \in chain[b] \/ (b = loc[t].mb /\ k = loc[t].key /\ ~Stale(t))
    PROVE  Inv'
<1>1. HalfTable' => HalfTable
  BY SameKeys
<1>2. Respects(t)
  BY DEF Respects, Holds, Working, Resizing, Inv, Owned
<1>3. CallingOf(t)' /\ BucketedOf(t)' /\ SizedOf(t)'
  BY DEF Inv, Calling, CallingOf, Bucketed, BucketedOf, SizedOf, Working, Resizing, hashCode
<1>4. InItsBucket'
  BY WorkBucket DEF InItsBucket, hashCode, Bucket
<1> QED
  BY <1>1, <1>2, <1>3, <1>4, RespectfulStep, SameTable DEF Inv

LEMMA AddNodeInv ==
    ASSUME Inv, NEW t \in Threads, AddNode(t)
    PROVE  Inv'
<1> DEFINE r == [loc[t] EXCEPT !.ok = TRUE]
           k == loc[t].key
           b == loc[t].mb
<1>1. /\ pc[t] = "work" /\ loc[t] \in Local /\ k \in Key /\ b \in Bucket
      /\ UNCHANGED <<table_size, old_table_size, old_bucket, setSize, mtx, freed, fault>>
  BY LocalType, WorkBucket DEF Inv, AddNode, At
<1>2. /\ r \in Local /\ r.op = loc[t].op /\ r.key = loc[t].key
      /\ r.mb = loc[t].mb /\ r.ts = loc[t].ts /\ r.ok
  BY <1>1 DEF Local
<1>3. CASE /\ pc' = [pc EXCEPT ![t] = "unlock"] /\ UNCHANGED <<chain, loc>>
           /\ Look(t) \/ Meet(t, "no memory")
  <2>1. seen' \in [Threads -> SUBSET {"present", "absent", "no memory"}]
    <3>1. PICK w \in {"present", "absent", "no memory"} : Meet(t, w)
      <4>1. CASE Look(t)
        BY <4>1, loc[t].key \in Members \/ loc[t].key \notin Members DEF Look
      <4> QED
        BY <1>3, <4>1
    <3> QED
      BY <3>1 DEF Inv, TypeOK, Meet
  <2>2. TypeOK'
    BY <1>1, <1>3, <2>1 DEF Inv, TypeOK, Label, Working
  <2>3. OnlyMoves(t) /\ pc'[t] = "unlock"
    BY <1>3 DEF Inv, TypeOK, OnlyMoves, Look, Meet
  <2> QED
    BY <1>1, <1>3, <2>2, <2>3, WorkStep
<1>4. CASE /\ ~Stale(t) /\ k \notin chain[b]
           /\ chain' = [chain EXCEPT ![b] = @ \union {k}]
           /\ loc' = [loc EXCEPT ![t] = r]
           /\ seen' = [seen EXCEPT ![t] = {}]
           /\ pc' = [pc EXCEPT ![t] = "count"]
  <2> HIDE DEF r
  <2>1. chain' \in [Bucket -> SUBSET Key]
    BY <1>1, <1>4 DEF Inv, TypeOK
  <2>2. TypeOK'
    BY <1>1, <1>2, <1>4, <2>1 DEF Inv, TypeOK, Label, Working
  <2>3. OnlyMoves(t) /\ pc'[t] = "count" /\ loc'[t] = r
    BY <1>4 DEF Inv, TypeOK, OnlyMoves
  <2>4. \A c \in Bucket : \A j \in chain'[c] : j \in chain[c] \/ (c = b /\ j = k)
    BY <1>1, <1>4 DEF Inv, TypeOK
  <2> QED
    BY <1>1, <1>2, <1>4, <2>2, <2>3, <2>4, WorkStep
<1> QED
  BY <1>3, <1>4 DEF AddNode, Goto

LEMMA DeleteNodeInv ==
    ASSUME Inv, NEW t \in Threads, DeleteNode(t)
    PROVE  Inv'
<1> DEFINE r == [loc[t] EXCEPT !.ok = TRUE]
           k == loc[t].key
           b == loc[t].mb
<1>1. /\ pc[t] = "work" /\ loc[t] \in Local /\ k \in Key /\ b \in Bucket
      /\ UNCHANGED <<table_size, old_table_size, old_bucket, setSize, mtx, freed>>
  BY LocalType, WorkBucket DEF Inv, DeleteNode, At
<1>2. /\ r \in Local /\ r.op = loc[t].op /\ r.key = loc[t].key
      /\ r.mb = loc[t].mb /\ r.ts = loc[t].ts /\ r.ok
  BY <1>1 DEF Local
<1>3. CASE pc' = [pc EXCEPT ![t] = "unlock"] /\ UNCHANGED <<chain, loc, fault>> /\ Look(t)
  <2>1. TypeOK'
    BY <1>1, <1>3 DEF Inv, TypeOK, Look, Meet, Label, Working
  <2>2. OnlyMoves(t) /\ pc'[t] = "unlock"
    BY <1>3 DEF Inv, TypeOK, OnlyMoves, Look, Meet
  <2> QED
    BY <1>1, <1>3, <2>1, <2>2, WorkStep
<1>4. CASE /\ chain' = [chain EXCEPT ![b] = @ \ {k}]
           /\ loc' = [loc EXCEPT ![t] = r]
           /\ seen' = [seen EXCEPT ![t] = {}]
           /\ pc' = [pc EXCEPT ![t] = "count"]
           /\ UNCHANGED fault
  <2> HIDE DEF r
  <2>1. chain' \in [Bucket -> SUBSET Key]
    BY <1>1, <1>4 DEF Inv, TypeOK
  <2>2. TypeOK'
    BY <1>1, <1>2, <1>4, <2>1 DEF Inv, TypeOK, Label, Working
  <2>3. OnlyMoves(t) /\ pc'[t] = "count" /\ loc'[t] = r
    BY <1>4 DEF Inv, TypeOK, OnlyMoves
  <2>4. \A c \in Bucket : \A j \in chain'[c] : j \in chain[c]
    BY <1>1, <1>4 DEF Inv, TypeOK
  <2> QED
    BY <1>1, <1>2, <1>4, <2>2, <2>3, <2>4, WorkStep
<1>5. CASE fault' = "null pointer" /\ UNCHANGED <<chain, loc, pc, seen>>
  <2>1. TypeOK'
    BY <1>1, <1>5 DEF Inv, TypeOK
  <2>2. OnlyMoves(t) /\ pc'[t] = "work"
    BY <1>1, <1>5 DEF OnlyMoves
  <2> QED
    BY <1>1, <1>5, <2>1, <2>2, WorkStep
<1> QED
  BY <1>3, <1>4, <1>5 DEF DeleteNode, Goto

LEMMA FindNodeInv ==
    ASSUME Inv, NEW t \in Threads, FindNode(t)
    PROVE  Inv'
<1> DEFINE found == loc[t].key \in chain[loc[t].mb]
           r == [loc[t] EXCEPT !.ok = found]
<1>1. /\ pc[t] = "work" /\ pc' = [pc EXCEPT ![t] = "unlock"]
      /\ loc' = [loc EXCEPT ![t] = r] /\ Look(t)
      /\ UNCHANGED shared
  BY DEF FindNode, At, Goto
<1>2. /\ r \in Local /\ r.op = loc[t].op /\ r.key = loc[t].key
      /\ r.mb = loc[t].mb /\ r.ts = loc[t].ts
  <2>1. found \in BOOLEAN
    OBVIOUS
  <2> HIDE DEF found
  <2> QED
    BY <2>1, LocalType DEF Inv, Local
<1> HIDE DEF r
<1>3. TypeOK'
  BY <1>1, <1>2 DEF Inv, TypeOK, Look, Meet, Label, Working, shared, table
<1>4. OnlyMoves(t) /\ pc'[t] = "unlock" /\ loc'[t] = r
  BY <1>1 DEF Inv, TypeOK, OnlyMoves, Look, Meet
<1> QED
  BY <1>1, <1>2, <1>3, <1>4, WorkStep DEF shared, table

LEMMA LoadCountInv ==
    ASSUME Inv, NEW t \in Threads, LoadCount(t)
    PROVE  Inv'
<1> DEFINE r == [loc[t] EXCEPT !.n = setSize]
<1>1. /\ pc[t] = "count" /\ pc' = [pc EXCEPT ![t] = "store"]
      /\ loc' = [loc EXCEPT ![t] = r]
      /\ UNCHANGED <<shared, seen>>
  BY DEF LoadCount, At, Goto
<1>2. /\ r \in Local /\ r.op = loc[t].op /\ r.key = loc[t].key
      /\ r.mb = loc[t].mb /\ r.ok = loc[t].ok
  <2>1. setSize \in Int
    BY DEF Inv, TypeOK
  <2> QED
    BY <2>1, LocalType DEF Inv, Local
<1> HIDE DEF r
<1>3. TypeOK'
  <2>1. /\ pc' \in [Threads -> Label] /\ loc' \in [Threads -> Local]
        /\ UNCHANGED <<shared, seen>>
    <3>1. pc \in [Threads -> Label] /\ loc \in [Threads -> Local]
      BY DEF Inv, TypeOK
    <3>2. "store" \in Label
      BY DEF Label, Working
    <3> QED
      BY <1>1, <1>2, <3>1, <3>2
  <2> QED
    BY <2>1 DEF Inv, TypeOK, shared, table
<1>4. OnlyMoves(t) /\ pc'[t] = "store" /\ loc'[t] = r
  BY <1>1 DEF Inv, TypeOK, OnlyMoves
<1>5. Respects(t)
  BY <1>1, <1>2, <1>4 DEF Respects, Holds, Working, Resizing, shared, table, Inv, Owned
<1>6. CallingOf(t)' /\ BucketedOf(t)' /\ SizedOf(t)'
  BY <1>1, <1>2, <1>4
  DEF Inv, Calling, CallingOf, Bucketed, BucketedOf, SizedOf, Working, Resizing
<1> QED
  BY <1>1, <1>3, <1>4, <1>5, <1>6, QuietStep DEF shared, table

LEMMA StoreCountInv ==
    ASSUME Inv, NEW t \in Threads, StoreCount(t)
    PROVE  Inv'
<1>1. /\ pc[t] = "store" /\ pc' = [pc EXCEPT ![t] = "unlock"]
      /\ setSize' = loc[t].n + IF loc[t].op = "add" THEN 1 ELSE -1
      /\ UNCHANGED <<table_size, old_table_size, old_bucket, chain,
                     mtx, freed, fault, loc, seen>>
  BY DEF StoreCount, At, Goto, table
<1>2. setSize' \in Int
  BY <1>1, LocalType DEF Inv
<1>3. TypeOK'
  BY <1>1, <1>2 DEF Inv, TypeOK, Label, Working
<1>4. OnlyMoves(t) /\ pc'[t] = "unlock"
  BY <1>1 DEF Inv, TypeOK, OnlyMoves
<1>5. Respects(t)
  BY <1>1, <1>4 DEF Respects, Holds, Working, Resizing, Inv, Owned
<1>6. CallingOf(t)' /\ BucketedOf(t)' /\ SizedOf(t)'
  BY <1>1, <1>4
  DEF Inv, Calling, CallingOf, Bucketed, BucketedOf, SizedOf, Working, Resizing
<1> QED
  BY <1>1, <1>3, <1>4, <1>5, <1>6, QuietStep

LEMMA UnlockInv ==
    ASSUME Inv, NEW t \in Threads, Unlock(t)
    PROVE  Inv'
<1>0. PICK a \in 0..MaxTable, b \in Bucket, n \in Int : a = 0 /\ b = 0 /\ n = 0
  BY Bounds DEF Inv, Bucket
<1> DEFINE again == loc[t].op # "find" /\ ~loc[t].ok /\ loc[t].retry > 0
           x == IF again THEN loc[t].retry - 1 ELSE 0
           r == [loc[t] EXCEPT !.retry = x, !.ts = a, !.mb = b, !.n = n]
           l == IF again THEN "size" ELSE IF loc[t].op = "add" THEN "policy" ELSE "ret"
<1>1. /\ pc[t] = "unlock" /\ pc' = [pc EXCEPT ![t] = l]
      /\ mtx' = [mtx EXCEPT ![lockKey(t)] = NULL]
      /\ loc' = [loc EXCEPT ![t] = r]
      /\ UNCHANGED <<table_size, old_table_size, old_bucket, chain,
                     setSize, freed, fault, seen>>
  BY <1>0 DEF Unlock, At, Goto, table
<1>2. r \in Local /\ r.op = loc[t].op /\ r.key = loc[t].key /\ r.ok = loc[t].ok
  <2>1. x \in 0..2
    BY LocalType DEF Inv
  <2>2. loc[t] \in Local
    BY LocalType DEF Inv
  <2> HIDE DEF x
  <2>3. r \in Local
    BY <2>1, <2>2 DEF Local
  <2>4. r.op = loc[t].op /\ r.key = loc[t].key /\ r.ok = loc[t].ok
    BY <2>2 DEF Local
  <2> QED
    BY <2>3, <2>4
<1>3. lockKey(t) = loc[t].key % lock_size /\ lockKey(t) \in Stripe
  BY <1>1, LocalType, KeyStripe DEF Inv, Bucketed, BucketedOf, lockKey, Working
<1>4. l \in {"size", "policy", "ret"} /\ (l = "size" => ~loc[t].ok)
  OBVIOUS
<1> HIDE DEF r, l, again
<1>5. TypeOK'
  <2>1. mtx' \in [Stripe -> Threads \union {NULL}]
    BY <1>1, <1>3 DEF Inv, TypeOK
  <2> QED
    BY <1>1, <1>2, <1>4, <2>1 DEF Inv, TypeOK, Label
<1>6. OnlyMoves(t) /\ pc'[t] = l /\ loc'[t] = r
  BY <1>1 DEF Inv, TypeOK, OnlyMoves
<1>7. Respects(t)
  BY <1>1, <1>3, <1>4, <1>6, StripedAssumption
  DEF Respects, Holds, Working, Resizing, Inv, TypeOK
<1>8. CallingOf(t)' /\ BucketedOf(t)' /\ SizedOf(t)'
  BY <1>1, <1>2, <1>4, <1>6 DEF Inv, Calling, CallingOf, BucketedOf, SizedOf, Working, Resizing
<1> QED
  BY <1>1, <1>5, <1>6, <1>7, <1>8, QuietStep
-----------------------------------------------------------------------------
(* The steps of policy and resize *)

LEMMA PolicyCountInv ==
    ASSUME Inv, NEW t \in Threads, PolicyCount(t)
    PROVE  Inv'
<1> DEFINE r == [loc[t] EXCEPT !.n = setSize]
<1>1. /\ pc[t] = "policy" /\ pc' = [pc EXCEPT ![t] = "policy_size"]
      /\ loc' = [loc EXCEPT ![t] = r]
      /\ UNCHANGED <<shared, seen>>
  BY DEF PolicyCount, At, Goto
<1>2. r \in Local /\ r.op = loc[t].op /\ r.key = loc[t].key
  <2>1. setSize \in Int
    BY DEF Inv, TypeOK
  <2> QED
    BY <2>1, LocalType DEF Inv, Local
<1> HIDE DEF r
<1>3. TypeOK'
  BY <1>1, <1>2 DEF Inv, TypeOK, Label, shared, table
<1>4. OnlyMoves(t) /\ pc'[t] = "policy_size" /\ loc'[t] = r
  BY <1>1 DEF Inv, TypeOK, OnlyMoves
<1>5. Respects(t)
  BY <1>1, <1>4 DEF Respects, Holds, Working, Resizing, shared, table
<1>6. CallingOf(t)' /\ BucketedOf(t)' /\ SizedOf(t)'
  BY <1>1, <1>2, <1>4 DEF Inv, Calling, CallingOf, BucketedOf, SizedOf, Working, Resizing
<1> QED
  BY <1>1, <1>3, <1>4, <1>5, <1>6, QuietStep DEF shared, table

LEMMA PolicySizeInv ==
    ASSUME Inv, NEW t \in Threads, PolicySize(t)
    PROVE  Inv'
<1> DEFINE r == [loc[t] EXCEPT !.n = 0]
           l == IF loc[t].n \div table_size > Load THEN "rsize" ELSE "ret"
<1>1. /\ pc[t] = "policy_size" /\ pc' = [pc EXCEPT ![t] = l]
      /\ loc' = [loc EXCEPT ![t] = r]
      /\ UNCHANGED <<shared, seen>>
  BY DEF PolicySize, At, Goto
<1>2. r \in Local /\ r.op = loc[t].op /\ r.key = loc[t].key
  BY LocalType DEF Inv, Local
<1>3. l \in {"rsize", "ret"}
  OBVIOUS
<1> HIDE DEF r, l
<1>4. TypeOK'
  BY <1>1, <1>2, <1>3 DEF Inv, TypeOK, Label, shared, table
<1>5. OnlyMoves(t) /\ pc'[t] = l /\ loc'[t] = r
  BY <1>1 DEF Inv, TypeOK, OnlyMoves
<1>6. Respects(t)
  BY <1>1, <1>3, <1>5 DEF Respects, Holds, Working, Resizing, shared, table
<1>7. CallingOf(t)' /\ BucketedOf(t)' /\ SizedOf(t)'
  BY <1>1, <1>2, <1>3, <1>5 DEF Inv, Calling, CallingOf, BucketedOf, SizedOf, Working, Resizing
<1> QED
  BY <1>1, <1>4, <1>5, <1>6, <1>7, QuietStep DEF shared, table

LEMMA ResizeReadInv ==
    ASSUME Inv, NEW t \in Threads, ResizeRead(t)
    PROVE  Inv'
<1> DEFINE r == [loc[t] EXCEPT !.ts = table_size, !.i = 0]
           l == IF 2 * table_size <= MaxTable THEN "rlock" ELSE "ret"
<1>1. /\ pc[t] = "rsize" /\ pc' = [pc EXCEPT ![t] = l]
      /\ loc' = [loc EXCEPT ![t] = r]
      /\ UNCHANGED <<shared, seen>>
  BY LocalType DEF Inv, TypeOK, Local, ResizeRead, At, Goto
<1>2. /\ r \in Local /\ r.op = loc[t].op /\ r.key = loc[t].key
      /\ r.ts = table_size /\ r.i = 0
  <2>1. table_size \in 0..MaxTable /\ 0 \in Stripe
    BY Bounds DEF Inv, Stripe
  <2> QED
    BY <2>1, LocalType DEF Inv, Local
<1>3. l \in {"rlock", "ret"} /\ (l = "rlock" => 2 * table_size <= MaxTable)
  OBVIOUS
<1> HIDE DEF r, l
<1>4. TypeOK'
  BY <1>1, <1>2, <1>3 DEF Inv, TypeOK, Label, shared, table
<1>5. OnlyMoves(t) /\ pc'[t] = l /\ loc'[t] = r
  BY <1>1 DEF Inv, TypeOK, OnlyMoves
<1>6. Respects(t)
  BY <1>1, <1>2, <1>3, <1>5 DEF Respects, Holds, Working, Resizing, Stripe, shared, table
<1>7. CallingOf(t)' /\ BucketedOf(t)' /\ SizedOf(t)'
  BY <1>1, <1>2, <1>3, <1>5 DEF Inv, Calling, CallingOf, BucketedOf, SizedOf, Working, Resizing
<1> QED
  BY <1>1, <1>4, <1>5, <1>6, <1>7, QuietStep DEF shared, table

LEMMA ResizeLockInv ==
    ASSUME Inv, NEW t \in Threads, ResizeLock(t)
    PROVE  Inv'
<1> DEFINE i == loc[t].i
           j == (i + 1) % lock_size
           r == [loc[t] EXCEPT !.i = j]
           l == IF i + 1 < lock_size THEN "rlock" ELSE "rcheck"
<1>1. /\ pc[t] = "rlock" /\ pc' = [pc EXCEPT ![t] = l]
      /\ mtx[i] = NULL /\ mtx' = [mtx EXCEPT ![i] = t]
      /\ loc' = [loc EXCEPT ![t] = r]
      /\ UNCHANGED <<table_size, old_table_size, old_bucket, chain,
                     setSize, freed, fault, seen>>
  BY DEF ResizeLock, At, Goto, table
<1>2. /\ i \in Stripe /\ j \in Stripe
      /\ j = IF i + 1 < lock_size THEN i + 1 ELSE 0
  <2>1. lock_size \in Nat \ {0} /\ i \in 0..(lock_size - 1)
    BY Bounds, LocalType DEF Inv, Stripe
  <2>2. j \in 0..(lock_size - 1)
    <3>1. i + 1 \in Nat
      BY <2>1
    <3> QED
      BY <2>1, <3>1, DivMod
  <2>3. i + 1 < lock_size => j = i + 1
    BY <2>1
  <2>4. ~(i + 1 < lock_size) => j = 0
    <3>1. ~(i + 1 < lock_size) => i + 1 = lock_size * 1 + 0
      BY <2>1
    <3>2. (lock_size * 1 + 0) % lock_size = 0
      BY <2>1, ModUnique
    <3> QED
      BY <3>1, <3>2
  <2> QED
    BY <2>1, <2>2, <2>3, <2>4 DEF Stripe
<1> HIDE DEF j
<1>3. /\ r \in Local /\ r.op = loc[t].op /\ r.key = loc[t].key
      /\ r.ts = loc[t].ts /\ r.i = j
  BY <1>2, LocalType DEF Inv, Local
<1> HIDE DEF r
<1>4. /\ l \in {"rlock", "rcheck"} /\ (l = "rcheck" => j = 0)
      /\ \A s \in Stripe : l = "rcheck" \/ s < j <=> s < i \/ s = i
  BY <1>2, StripedAssumption DEF Stripe
<1> HIDE DEF l
<1>5. TypeOK'
  <2>1. mtx' \in [Stripe -> Threads \union {NULL}]
    BY <1>1, <1>2 DEF Inv, TypeOK
  <2> QED
    BY <1>1, <1>3, <1>4, <2>1 DEF Inv, TypeOK, Label, Resizing
<1>6. OnlyMoves(t) /\ pc'[t] = l /\ loc'[t] = r
  BY <1>1 DEF Inv, TypeOK, OnlyMoves
<1>7. \A s \in Stripe : mtx'[s] = IF s = i THEN t ELSE mtx[s]
  BY <1>1 DEF Inv, TypeOK
<1>8. Respects(t)
  <2>1. \A s \in Stripe : Holds(t, s)' <=> s < i \/ s = i
    BY <1>3, <1>4, <1>6 DEF Holds, Working, Resizing
  <2>2. \A s \in Stripe : s < i => Holds(t, s) /\ mtx[s] = t
    BY <1>1 DEF Holds, Inv, Owned
  <2>3. \A s \in Stripe : Holds(t, s) => s < i
    BY <1>1 DEF Holds, Working, Resizing
  <2> QED
    BY <1>1, <1>7, <2>1, <2>2, <2>3 DEF Respects
<1>9. CallingOf(t)' /\ BucketedOf(t)' /\ SizedOf(t)'
  BY <1>1, <1>3, <1>4, <1>6
  DEF Inv, Calling, CallingOf, BucketedOf, Sized, SizedOf, Working, Resizing
<1> QED
  BY <1>1, <1>5, <1>6, <1>8, <1>9, QuietStep

LEMMA ResizeCheckInv ==
    ASSUME Inv, NEW t \in Threads, ResizeCheck(t)
    PROVE  Inv'
<1> DEFINE r == [loc[t] EXCEPT !.ts = 0]
           l == IF loc[t].ts # table_size THEN "rquit" ELSE "rsave"
<1>1. /\ pc[t] = "rcheck" /\ pc' = [pc EXCEPT ![t] = l]
      /\ loc' = [loc EXCEPT ![t] = r]
      /\ UNCHANGED <<shared, seen>>
  BY DEF ResizeCheck, At, Goto
<1>2. r \in Local /\ r.op = loc[t].op /\ r.key = loc[t].key /\ r.i = loc[t].i
  <2>1. 0 \in 0..MaxTable
    BY Bounds DEF Inv
  <2> QED
    BY <2>1, LocalType DEF Inv, Local
<1> HIDE DEF r
<1>3. /\ l \in {"rquit", "rsave"}
      /\ l = "rsave" => 2 * table_size <= MaxTable
  BY <1>1 DEF Inv, Sized, SizedOf
<1> HIDE DEF l
<1>4. TypeOK'
  BY <1>1, <1>2, <1>3 DEF Inv, TypeOK, Label, Resizing, shared, table
<1>5. OnlyMoves(t) /\ pc'[t] = l /\ loc'[t] = r
  BY <1>1 DEF Inv, TypeOK, OnlyMoves
<1>6. Respects(t)
  <2>1. \A s \in Stripe : Holds(t, s) /\ mtx[s] = t
    BY <1>1 DEF Holds, Resizing, Inv, Owned
  <2>2. loc'[t].i = 0 /\ \A s \in Stripe : s >= 0
    BY <1>1, <1>2, <1>5, StripedAssumption DEF Inv, Sized, SizedOf, Resizing, Stripe
  <2>3. \A s \in Stripe : Holds(t, s)'
    BY <1>3, <1>5, <2>2 DEF Holds, Resizing
  <2> QED
    BY <1>1, <2>1, <2>3 DEF Respects, shared, table
<1>7. CallingOf(t)' /\ BucketedOf(t)' /\ SizedOf(t)'
  BY <1>1, <1>2, <1>3, <1>5
  DEF Inv, Calling, CallingOf, BucketedOf, Sized, SizedOf, Working, Resizing, shared, table
<1> QED
  BY <1>1, <1>4, <1>5, <1>6, <1>7, QuietStep DEF shared, table

LEMMA ResizeSaveInv ==
    ASSUME Inv, NEW t \in Threads, ResizeSave(t)
    PROVE  Inv'
<1>1. /\ pc[t] = "rsave" /\ pc' = [pc EXCEPT ![t] = "rswap"]
      /\ old_table_size' = table_size
      /\ UNCHANGED <<table_size, old_bucket, chain, setSize, mtx, freed, fault, loc, seen>>
  BY DEF ResizeSave, At, Goto
<1>2. TypeOK'
  <2>1. table_size \in 0..MaxTable
    BY Bounds DEF Inv
  <2> QED
    BY <1>1, <2>1 DEF Inv, TypeOK, Label, Resizing
<1>3. OnlyMoves(t) /\ pc'[t] = "rswap"
  BY <1>1 DEF Inv, TypeOK, OnlyMoves
<1>4. Respects(t)
  BY <1>1, <1>3 DEF Respects, Holds, Working, Resizing, Inv, Owned
<1>5. CallingOf(t)' /\ BucketedOf(t)' /\ SizedOf(t)'
  BY <1>1, <1>3
  DEF Inv, Calling, CallingOf, BucketedOf, Sized, SizedOf, Working, Resizing
<1> QED
  BY <1>1, <1>2, <1>3, <1>4, <1>5, QuietStep

LEMMA ResizeUnlockInv ==
    ASSUME Inv, NEW t \in Threads, ResizeUnlock(t)
    PROVE  Inv'
<1> DEFINE i == loc[t].i
           j == (i + 1) % lock_size
           r == [loc[t] EXCEPT !.i = j]
           l == IF i + 1 < lock_size THEN pc[t]
                ELSE IF pc[t] = "runlock" THEN "rfree" ELSE "ret"
<1>1. /\ pc[t] \in {"runlock", "rquit"} /\ pc' = [pc EXCEPT ![t] = l]
      /\ mtx' = [mtx EXCEPT ![i] = NULL]
      /\ loc' = [loc EXCEPT ![t] = r]
      /\ UNCHANGED <<table_size, old_table_size, old_bucket, chain,
                     setSize, freed, fault, seen>>
  BY DEF ResizeUnlock, At, Goto, table
<1>2. /\ i \in Stripe /\ j \in Stripe /\ (i + 1 < lock_size => j = i + 1)
  <2>1. lock_size \in Nat \ {0} /\ i \in 0..(lock_size - 1)
    BY Bounds, LocalType DEF Inv, Stripe
  <2>2. j \in 0..(lock_size - 1)
    <3>1. i + 1 \in Nat
      BY <2>1
    <3> QED
      BY <2>1, <3>1, DivMod
  <2>3. i + 1 < lock_size => j = i + 1
    BY <2>1
  <2> QED
    BY <2>1, <2>2, <2>3 DEF Stripe
<1> HIDE DEF j
<1>3. r \in Local /\ r.op = loc[t].op /\ r.key = loc[t].key /\ r.i = j
  BY <1>2, LocalType DEF Inv, Local
<1> HIDE DEF r
<1>4. /\ l \in {"runlock", "rquit", "rfree", "ret"}
      /\ l \in {"runlock", "rfree"} => pc[t] = "runlock"
      /\ l \in {"runlock", "rquit"} =>
             l = pc[t] /\ \A s \in Stripe : s >= j <=> s >= i /\ s # i
      /\ l \in {"rfree", "ret"} => \A s \in Stripe : ~(s >= i /\ s # i)
  BY <1>1, <1>2, StripedAssumption DEF Stripe
<1> HIDE DEF l
<1>5. TypeOK'
  <2>1. mtx' \in [Stripe -> Threads \union {NULL}]
    BY <1>1, <1>2 DEF Inv, TypeOK
  <2> QED
    BY <1>1, <1>3, <1>4, <2>1 DEF Inv, TypeOK, Label
<1>6. OnlyMoves(t) /\ pc'[t] = l /\ loc'[t] = r
  BY <1>1 DEF Inv, TypeOK, OnlyMoves
<1>7. \A s \in Stripe : mtx'[s] = IF s = i THEN NULL ELSE mtx[s]
  BY <1>1 DEF Inv, TypeOK
<1>8. Respects(t)
  <2>1. \A s \in Stripe : s >= i => Holds(t, s) /\ mtx[s] = t
    BY <1>1 DEF Holds, Inv, Owned
  <2>2. \A s \in Stripe : Holds(t, s)' <=> s >= i /\ s # i
    BY <1>3, <1>4, <1>6 DEF Holds, Working, Resizing
  <2>3. i >= i
    BY <1>2, StripedAssumption DEF Stripe
  <2>4. \A s \in Stripe : Holds(t, s) => s >= i
    BY <1>1 DEF Holds, Working, Resizing
  <2> QED
    BY <1>7, <2>1, <2>2, <2>3, <2>4, StripedAssumption DEF Respects
<1>9. CallingOf(t)' /\ BucketedOf(t)' /\ SizedOf(t)'
  BY <1>1, <1>3, <1>4, <1>6
  DEF Inv, Calling, CallingOf, BucketedOf, Sized, SizedOf, Working, Resizing
<1> QED
  BY <1>1, <1>5, <1>6, <1>8, <1>9, QuietStep

\* One of the two arguments of free_bucket is loaded.
LEMMA LoadOldInv ==
    ASSUME Inv, NEW t \in Threads, LoadOldBucket(t) \/ LoadOldSize(t)
    PROVE  Inv'
<1>1. PICK l \in {"rfree_b", "rfree_s", "free"} : pc' = [pc EXCEPT ![t] = l]
  BY DEF LoadOldBucket, LoadOldSize, Goto
<1>2. /\ pc[t] \in {"rfree", "rfree_b", "rfree_s"} /\ UNCHANGED <<shared, seen>>
      /\ pc[t] = "rfree" \/ l = "free"
  BY <1>1 DEF LoadOldBucket, LoadOldSize, At, Goto, Inv, TypeOK
<1>3. PICK r \in Local :
          /\ loc' = [loc EXCEPT ![t] = r] /\ r.op = loc[t].op /\ r.key = loc[t].key
          /\ l = "rfree_b" => old_bucket > 0
          /\ l \in {"rfree_s", "free"} => r.fb > 0
  <2>1. loc[t] \in Local /\ old_bucket \in 0..MaxTable /\ old_table_size \in 0..MaxTable
    BY LocalType DEF Inv, TypeOK
  <2>2. /\ pc[t] \in {"rfree", "rfree_b"} => old_bucket > 0
        /\ pc[t] = "rfree_s" => loc[t].fb > 0
    BY DEF Inv, Sized, SizedOf
  <2>3. CASE LoadOldBucket(t)
    <3> DEFINE r == [loc[t] EXCEPT !.fb = old_bucket]
    <3>1. r \in Local /\ r.op = loc[t].op /\ r.key = loc[t].key /\ r.fb = old_bucket
      BY <2>1 DEF Local
    <3>2. loc' = [loc EXCEPT ![t] = r] /\ pc[t] \in {"rfree", "rfree_b"}
      BY <2>3 DEF LoadOldBucket, At
    <3> HIDE DEF r
    <3> QED
      BY <2>2, <3>1, <3>2
  <2>4. CASE LoadOldSize(t)
    <3> DEFINE r == [loc[t] EXCEPT !.fs = old_table_size]
    <3>1. r \in Local /\ r.op = loc[t].op /\ r.key = loc[t].key /\ r.fb = loc[t].fb
      BY <2>1 DEF Local
    <3>2. loc' = [loc EXCEPT ![t] = r] /\ pc[t] \in {"rfree", "rfree_s"}
      BY <2>4 DEF LoadOldSize, At
    <3>3. l = IF pc[t] = "rfree" THEN "rfree_b" ELSE "free"
      <4>1. pc'[t] = l /\ pc'[t] = IF pc[t] = "rfree" THEN "rfree_b" ELSE "free"
        BY <1>1, <2>4 DEF LoadOldSize, Goto, Inv, TypeOK
      <4> QED
        BY <4>1
    <3> HIDE DEF r
    <3> QED
      BY <2>2, <3>1, <3>2, <3>3
  <2> QED
    BY <2>3, <2>4
<1>4. TypeOK'
  BY <1>1, <1>2, <1>3 DEF Inv, TypeOK, Label, shared, table
<1>5. OnlyMoves(t) /\ pc'[t] = l /\ loc'[t] = r
  BY <1>1, <1>2, <1>3 DEF Inv, TypeOK, OnlyMoves
<1>6. Respects(t)
  BY <1>1, <1>2, <1>5 DEF Respects, Holds, Working, Resizing, shared, table
<1>7. CallingOf(t)' /\ BucketedOf(t)' /\ SizedOf(t)'
  BY <1>1, <1>2, <1>3, <1>5
  DEF Inv, Calling, CallingOf, BucketedOf, SizedOf, Working, Resizing, shared, table
<1> QED
  BY <1>2, <1>4, <1>5, <1>6, <1>7, QuietStep DEF shared, table

LEMMA FreeOldInv ==
    ASSUME Inv, NEW t \in Threads, FreeOld(t)
    PROVE  Inv'
<1>1. /\ pc[t] = "free" /\ pc' = [pc EXCEPT ![t] = "ret"]
      /\ fault' \in {fault, "freed memory", "past the array"}
      /\ freed' = freed \union {loc[t].fb}
      /\ UNCHANGED <<table_size, old_table_size, old_bucket, chain, setSize, mtx, loc, seen>>
  BY DEF FreeOld, At, Goto, table
<1>2. freed' \subseteq 1..MaxTable
  <2>1. loc[t].fb > 0 /\ loc[t].fb \in 0..MaxTable /\ MaxTable \in Nat
    BY <1>1, StripedAssumption, LocalType DEF Inv, Sized, SizedOf
  <2>2. loc[t].fb \in 1..MaxTable
    BY <2>1
  <2> QED
    BY <1>1, <2>2 DEF Inv, TypeOK
<1>3. TypeOK'
  BY <1>1, <1>2 DEF Inv, TypeOK, Label
<1>4. OnlyMoves(t) /\ pc'[t] = "ret"
  BY <1>1 DEF Inv, TypeOK, OnlyMoves
<1>5. Respects(t)
  BY <1>1, <1>4 DEF Respects, Holds, Working, Resizing
<1>6. CallingOf(t)' /\ BucketedOf(t)' /\ SizedOf(t)'
  BY <1>1, <1>4 DEF Inv, Calling, CallingOf, BucketedOf, SizedOf, Working, Resizing
<1> QED
  BY <1>1, <1>3, <1>4, <1>5, <1>6, QuietStep

LEMMA ReturnInv ==
    ASSUME Inv, NEW t \in Threads, Return(t)
    PROVE  Inv'
<1>1. /\ pc[t] = "ret" /\ pc' = [pc EXCEPT ![t] = "idle"]
      /\ loc' = [loc EXCEPT ![t] = NoLocals]
      /\ seen' = [seen EXCEPT ![t] = {}]
      /\ UNCHANGED shared
  BY DEF Return, At, Goto
<1>2. NoLocals \in Local
  <2>1. 0 \in 0..MaxTable /\ 0 \in Bucket /\ 0 \in Stripe
    BY Bounds DEF Inv, Bucket, Stripe
  <2> QED
    BY <2>1 DEF NoLocals, Local
<1>3. TypeOK'
  BY <1>1, <1>2 DEF Inv, TypeOK, Label, shared, table
<1>4. OnlyMoves(t) /\ pc'[t] = "idle" /\ loc'[t] = NoLocals /\ seen'[t] = {}
  BY <1>1 DEF Inv, TypeOK, OnlyMoves
<1>5. Respects(t)
  BY <1>1, <1>4 DEF Respects, Holds, Working, Resizing, shared, table
<1>6. CallingOf(t)' /\ BucketedOf(t)' /\ SizedOf(t)'
  BY <1>4 DEF CallingOf, BucketedOf, SizedOf, Working, Resizing
<1> QED
  BY <1>1, <1>3, <1>4, <1>5, <1>6, QuietStep DEF shared, table
-----------------------------------------------------------------------------
(* The steps that change the table: every stripe is locked *)

LEMMA Alone ==
    ASSUME Inv, NEW t \in Threads, pc[t] \in Resizing
    PROVE  /\ \A s \in Stripe : Holds(t, s) /\ mtx[s] = t
           /\ \A u \in Threads \ {t} : pc[u] \notin Working \union Resizing
           /\ \A u \in Threads \ {t}, s \in Stripe : ~Holds(u, s)
<1>1. \A s \in Stripe : Holds(t, s) /\ mtx[s] = t
  BY DEF Holds, Inv, Owned
<1>2. \A u \in Threads \ {t}, s \in Stripe : ~Holds(u, s)
  BY <1>1, HeldOnce
<1>3. ASSUME NEW u \in Threads \ {t}, pc[u] \in Working \union Resizing
      PROVE  FALSE
  <2>1. loc[u].key % lock_size \in Stripe
    BY LocalType, KeyStripe DEF Inv
  <2>2. Holds(u, loc[u].key % lock_size)
    BY <1>3 DEF Holds
  <2> QED
    BY <1>2, <2>1, <2>2
<1> QED
  BY <1>1, <1>2, <1>3

LEMMA ResizeSwapInv ==
    ASSUME Inv, NEW t \in Threads, ResizeSwap(t)
    PROVE  Inv'
<1>1. /\ pc[t] = "rswap" /\ old_bucket' = table_size
      /\ UNCHANGED <<table_size, old_table_size, chain, setSize, mtx, freed, fault, loc, seen>>
  BY DEF ResizeSwap, At
<1>2. PICK l \in {"rdouble", "ret"} : pc' = [pc EXCEPT ![t] = l]
  BY DEF ResizeSwap, Goto
<1>3. /\ \A s \in Stripe : Holds(t, s) /\ mtx[s] = t
      /\ \A u \in Threads \ {t} : pc[u] \notin Working \union Resizing
      /\ \A u \in Threads \ {t}, s \in Stripe : ~Holds(u, s)
  BY <1>1, Alone DEF Resizing
<1>4. TypeOK'
  <2>1. table_size \in 0..MaxTable
    BY Bounds DEF Inv
  <2> QED
    BY <1>1, <1>2, <2>1 DEF Inv, TypeOK, Label, Resizing
<1>5. OnlyMoves(t) /\ pc'[t] = l
  BY <1>1, <1>2 DEF Inv, TypeOK, OnlyMoves
<1>6. Owned'
  <2>1. ASSUME NEW u \in Threads, NEW s \in Stripe, Holds(u, s)'
        PROVE  u = t
    BY <2>1, <1>1, <1>3, <1>5 DEF OnlyMoves, Holds
  <2> QED
    BY <2>1, <1>1, <1>3 DEF Owned, Stripe
<1>7. Abandoned'
  <2>1. ASSUME HalfTable', NEW u \in Threads, NEW s \in Stripe
        PROVE  mtx'[s] # NULL /\ ~Holds(u, s)'
    <3>1. l = "ret"
      BY <2>1, <1>5 DEF HalfTable
    <3>2. mtx'[s] # NULL
      BY <1>1, <1>3, StripedAssumption
    <3>3. ~Holds(t, s)'
      BY <3>1, <1>5 DEF Holds, Working, Resizing
    <3>4. u # t => ~Holds(u, s)'
      BY <1>1, <1>3, <1>5 DEF OnlyMoves, Holds
    <3> QED
      BY <3>2, <3>3, <3>4
  <2> QED
    BY <2>1 DEF Abandoned, Stripe
<1>7a. Kept'
  <2>1. ~HalfTable
    <3>1. 0 \in Stripe
      BY StripedAssumption DEF Stripe
    <3> QED
      BY <1>3, <3>1 DEF Inv, Abandoned
  <2>2. CASE l = "ret"
    <3>1. \A u \in Threads : pc'[u] \notin {"rdouble", "rehash"}
      BY <1>3, <1>5, <2>2 DEF OnlyMoves, Resizing
    <3> QED
      BY <1>1, <3>1 DEF Kept, HalfTable
  <2>3. CASE l = "rdouble"
    <3>1. ASSUME NEW u \in Threads, NEW s \in Stripe, mtx'[s] = u
          PROVE  Holds(u, s)'
      BY <1>1, <1>3, <1>5, <2>3, <3>1 DEF Holds, Resizing
    <3> QED
      BY <3>1 DEF Kept, Stripe
  <2> QED
    BY <2>2, <2>3
<1>8. ASSUME NEW u \in Threads
      PROVE  CallingOf(u)' /\ BucketedOf(u)' /\ SizedOf(u)'
  <2>1. CallingOf(u) /\ BucketedOf(u) /\ SizedOf(u)
    BY DEF Inv, Calling, Bucketed, Sized
  <2>2. table_size > 0
    BY Bounds DEF Inv
  <2>3. CASE u = t
    BY <1>1, <1>2, <1>5, <2>1, <2>2, <2>3 DEF CallingOf, BucketedOf, SizedOf, Working, Resizing
  <2>4. CASE u # t
    <3>1. pc[u] \notin Working \union Resizing /\ pc'[u] = pc[u]
      BY <1>3, <1>5, <2>4 DEF OnlyMoves
    <3> QED
      BY <1>1, <2>1, <2>2, <3>1
      DEF CallingOf, BucketedOf, SizedOf, Working, Resizing, hashCode
  <2> QED
    BY <2>3, <2>4
<1>9. InItsBucket'
  BY <1>1, <1>2, <1>3, <1>5 DEF OnlyMoves, Inv, InItsBucket, Bucket, hashCode
<1> QED
  BY <1>4, <1>6, <1>7, <1>7a, <1>8, <1>9 DEF Inv, Calling, Bucketed, Sized

LEMMA ResizeDoubleInv ==
    ASSUME Inv, NEW t \in Threads, ResizeDouble(t)
    PROVE  Inv'
<1>1. /\ pc[t] = "rdouble" /\ pc' = [pc EXCEPT ![t] = "rehash"]
      /\ table_size' = 2 * table_size
      /\ UNCHANGED <<old_table_size, old_bucket, chain, setSize, mtx, freed, fault, loc, seen>>
  BY DEF ResizeDouble, At, Goto
<1>2. /\ \A s \in Stripe : Holds(t, s) /\ mtx[s] = t
      /\ \A u \in Threads \ {t} : pc[u] \notin Working \union Resizing
  BY <1>1, Alone DEF Resizing
<1>3. /\ table_size' \in lock_size..MaxTable /\ table_size' % lock_size = 0
      /\ old_bucket = table_size /\ old_bucket > 0
      /\ table_size' > table_size /\ table_size' \in Nat
  <2>1. 2 * table_size <= MaxTable /\ old_bucket = table_size
    BY <1>1 DEF Inv, Sized, SizedOf
  <2>2. (2 * table_size) % lock_size = 0
    BY Bounds, DoubleMod DEF Inv
  <2> QED
    BY <1>1, <2>1, <2>2, Bounds DEF Inv
<1>4. TypeOK'
  BY <1>1, <1>3 DEF Inv, TypeOK, Label, Resizing
<1>5. OnlyMoves(t) /\ pc'[t] = "rehash"
  BY <1>1 DEF Inv, TypeOK, OnlyMoves
<1>6. Respects(t)
  BY <1>1, <1>2, <1>5 DEF Respects, Holds, Resizing
<1>7. Owned' /\ Kept' /\ Abandoned'
  <2>1. ~HalfTable'
    BY <1>5 DEF HalfTable
  <2>2. pc[t] \in Resizing
    BY <1>1 DEF Resizing
  <2> QED
    BY <2>1, <2>2, <1>5, <1>6, RespectfulStep
<1>8. ASSUME NEW u \in Threads
      PROVE  CallingOf(u)' /\ BucketedOf(u)' /\ SizedOf(u)'
  <2>1. CallingOf(u) /\ BucketedOf(u) /\ SizedOf(u)
    BY DEF Inv, Calling, Bucketed, Sized
  <2>2. CASE u = t
    BY <1>1, <1>3, <1>5, <2>1, <2>2 DEF CallingOf, BucketedOf, SizedOf, Working, Resizing
  <2>3. CASE u # t
    <3>1. /\ pc[u] \notin Working \union Resizing
          /\ pc'[u] = pc[u] /\ loc'[u] = loc[u] /\ seen'[u] = seen[u]
      BY <1>2, <1>5, <2>3 DEF OnlyMoves
    <3>2. CallingOf(u)'
      BY <2>1, <3>1 DEF CallingOf
    <3>3. SizedOf(u)'
      BY <1>1, <2>1, <3>1 DEF SizedOf, Resizing
    <3>4. loc[u].ts <= table_size => loc[u].ts <= table_size' /\ loc[u].ts # table_size'
      BY <1>3, LocalType, Bounds DEF Inv
    <3>5. BucketedOf(u)'
      BY <2>1, <3>1, <3>4 DEF BucketedOf, Working
    <3> QED
      BY <3>2, <3>3, <3>5
  <2> QED
    BY <2>2, <2>3
<1>9. InItsBucket'
  BY <1>5 DEF InItsBucket
<1> QED
  BY <1>4, <1>7, <1>8, <1>9 DEF Inv, Calling, Bucketed, Sized

LEMMA RehashInv ==
    ASSUME Inv, NEW t \in Threads, Rehash(t)
    PROVE  Inv'
<1>1. /\ pc[t] = "rehash" /\ pc' = [pc EXCEPT ![t] = "runlock"]
      /\ chain' = [b \in Bucket |-> {k \in Members : hashCode(k) = b}]
      /\ UNCHANGED <<table_size, old_table_size, old_bucket,
                     setSize, mtx, freed, fault, loc, seen>>
  BY DEF Rehash, At, Goto
<1>2. old_bucket < table_size /\ old_bucket > 0
  BY <1>1 DEF Inv, Sized, SizedOf
<1>3. TypeOK'
  <2>1. Members \subseteq Key
    BY DEF Inv, TypeOK, Members
  <2>2. chain' \in [Bucket -> SUBSET Key]
    BY <1>1, <2>1
  <2> QED
    BY <1>1, <2>2 DEF Inv, TypeOK, Label
<1>4. OnlyMoves(t) /\ pc'[t] = "runlock"
  BY <1>1 DEF Inv, TypeOK, OnlyMoves
<1>5. Respects(t)
  <2>1. loc'[t].i = 0 /\ \A s \in Stripe : s >= 0
    BY <1>1, StripedAssumption DEF Inv, Sized, SizedOf, Resizing, Stripe
  <2>2. \A s \in Stripe : Holds(t, s)'
    BY <1>4, <2>1 DEF Holds
  <2> QED
    BY <1>1, <2>2, Alone DEF Respects, Resizing
<1>6. Owned' /\ Kept' /\ Abandoned'
  <2>1. old_bucket # table_size
    <3>1. old_bucket \in 0..MaxTable /\ MaxTable \in Nat /\ table_size \in Nat
      BY Bounds DEF Inv, TypeOK
    <3> QED
      BY <1>2, <3>1
  <2>2. ~HalfTable'
    BY <1>1, <2>1 DEF HalfTable
  <2>3. pc[t] \in Resizing
    BY <1>1 DEF Resizing
  <2> QED
    BY <2>2, <2>3, <1>4, <1>5, RespectfulStep
<1>7. CallingOf(t)' /\ BucketedOf(t)' /\ SizedOf(t)'
  BY <1>1, <1>2, <1>4 DEF Inv, Calling, CallingOf, BucketedOf, SizedOf, Working, Resizing
<1>8. Calling' /\ Bucketed' /\ Sized'
  BY <1>1, <1>4, <1>7, SameTable
<1>9. InItsBucket'
  BY <1>1 DEF InItsBucket, hashCode, Bucket
<1> QED
  BY <1>3, <1>6, <1>8, <1>9 DEF Inv
-----------------------------------------------------------------------------
(* The theorems *)

LEMMA InitInv == Init => Inv
<1> SUFFICES ASSUME Init
             PROVE  Inv
  OBVIOUS
<1>1. /\ lock_size \in Nat \ {0} /\ MaxTable \in Nat /\ MaxTable >= lock_size
  BY StripedAssumption
<1>2. table_size \in lock_size..MaxTable /\ table_size = lock_size /\ table_size > 0
  BY <1>1 DEF Init
<1>3. table_size % lock_size = 0
  <2>1. (lock_size * 1 + 0) % lock_size = 0
    BY <1>1, ModUnique
  <2> QED
    BY <1>1, <1>2, <2>1
<1>4. 0 \in 0..MaxTable /\ 0 \in Bucket /\ 0 \in Stripe
  BY <1>1 DEF Bucket, Stripe
<1>5. NoLocals \in Local
  BY <1>4 DEF NoLocals, Local
<1>6. TypeOK
  BY <1>2, <1>3, <1>4, <1>5 DEF Init, TypeOK, Label
<1>7. \A t \in Threads : pc[t] = "idle" /\ loc[t] = NoLocals /\ seen[t] = {}
  BY DEF Init
<1>8. Owned /\ Kept
  <2>1. \A s \in Stripe : mtx[s] = NULL
    BY DEF Init
  <2>2. Kept
    BY <2>1, StripedAssumption DEF Kept
  <2> QED
    BY <1>7, <2>2 DEF Owned, Holds, Working, Resizing
<1>9. Abandoned
  BY <1>2 DEF Abandoned, HalfTable, Init
<1>10. Calling /\ Bucketed /\ Sized
  BY <1>7 DEF Calling, CallingOf, Bucketed, BucketedOf, Sized, SizedOf, Working, Resizing
<1>11. InItsBucket
  BY DEF Init, InItsBucket
<1> QED
  BY <1>6, <1>8, <1>9, <1>10, <1>11 DEF Inv

LEMMA StutterInv == Inv /\ UNCHANGED vars => Inv'
<1> SUFFICES ASSUME Inv, UNCHANGED vars
             PROVE  Inv'
  OBVIOUS
<1>1. TypeOK'
  BY DEF Inv, TypeOK, vars, shared, table
<1>2. Owned' /\ Kept' /\ Abandoned'
  BY DEF Inv, Owned, Kept, Abandoned, HalfTable, Holds, vars, shared, table
<1>3. Calling' /\ Bucketed' /\ Sized' /\ InItsBucket'
  BY DEF Inv, Calling, CallingOf, Bucketed, BucketedOf, Sized, SizedOf, InItsBucket,
         hashCode, vars, shared, table
<1> QED
  BY <1>1, <1>2, <1>3 DEF Inv

LEMMA NextInv == Inv /\ [Next]_vars => Inv'
<1> SUFFICES ASSUME Inv, [Next]_vars
             PROVE  Inv'
  OBVIOUS
<1>1. ASSUME NEW t \in Threads, Step(t)
      PROVE  Inv'
  BY <1>1, ReadSizeInv, HashInv, LockInv, AddNodeInv, DeleteNodeInv, FindNodeInv,
     LoadCountInv, StoreCountInv, UnlockInv, PolicyCountInv, PolicySizeInv,
     ResizeReadInv, ResizeLockInv, ResizeCheckInv, ResizeSaveInv, ResizeSwapInv,
     ResizeDoubleInv, RehashInv, ResizeUnlockInv, LoadOldInv, FreeOldInv, ReturnInv
  DEF Step
<1>2. ASSUME NEW t \in Threads, NEW op \in Ops, NEW k \in Key, Call(t, op, k)
      PROVE  Inv'
  BY <1>2, CallInv
<1>3. CASE UNCHANGED vars
  BY <1>3, StutterInv
<1> QED
  BY <1>1, <1>2, <1>3 DEF Next, Stopped

\* Who holds which stripe, what each thread knows of the table it hashed for,
\* and where the keys are: the invariant the properties follow from.
THEOREM Invariance == Spec => []Inv
<1>1. Init => Inv
  BY InitInv
<1>2. Inv /\ [Next]_vars => Inv'
  BY NextInv
<1> QED
  BY <1>1, <1>2, PTL DEF Spec

\* Every variable of hash/StripedHash.c has its type, and the number of buckets
\* is always a multiple of the number of stripes.
THEOREM TypeCorrect == Spec => []TypeOK
<1>1. Inv => TypeOK
  BY DEF Inv
<1> QED
  BY <1>1, Invariance, PTL

\* A key is where a search for it looks, however add, delete and the rehash of
\* resize interleave.
THEOREM KeysInTheirBuckets == Spec => []InItsBucket
<1>1. Inv => InItsBucket
  BY DEF Inv
<1> QED
  BY <1>1, Invariance, PTL

\* A thread in a bucket has locked the stripe of its key, resize has locked all
\* the stripes, and nobody uses a table that resize could not make.
THEOREM StripesGuardBuckets == Spec => []StripesGuard
<1>1. ASSUME Inv
      PROVE  StripesGuard
  <2>1. ASSUME NEW t \in Threads, pc[t] \in Working
        PROVE  mtx[loc[t].key % lock_size] = t /\ ~HalfTable
    <3>1. loc[t].key % lock_size \in Stripe
      BY <1>1, LocalType, KeyStripe DEF Inv
    <3>2. Holds(t, loc[t].key % lock_size)
      BY <2>1 DEF Holds
    <3> QED
      BY <1>1, <3>1, <3>2 DEF Inv, Owned, Abandoned
  <2>2. ASSUME NEW t \in Threads, pc[t] \in Resizing, NEW s \in Stripe
        PROVE  mtx[s] = t
    BY <1>1, <2>2 DEF Holds, Inv, Owned
  <2> QED
    BY <2>1, <2>2 DEF StripesGuard
<1> QED
  BY <1>1, Invariance, PTL

\* Calls that wait for the stripe of a bucket and resizes that wait for the next
\* of all the stripes never form a circle: of the threads inside a call, at least
\* one has its next mutex free, unless a table could not be made.
THEOREM NeverAllWaiting == Spec => []SomeoneRuns
<1>1. ASSUME Inv, ~HalfTable, NEW t \in Threads, pc[t] # "idle",
             \A u \in Threads : pc[u] # "idle" => Waits(u)
      PROVE  FALSE
  \* Whoever holds a stripe that somebody waits for waits for a later one.
  <2>1. ASSUME NEW u \in Threads, NEW s \in Stripe, mtx[s] # NULL
        PROVE  \E h \in Threads :
                   /\ pc[h] = "rlock" /\ s < loc[h].i /\ loc[h].i \in Stripe
                   /\ mtx[loc[h].i] # NULL
    <3>1. PICK h \in Threads : mtx[s] = h
      BY <1>1, <2>1 DEF Inv, TypeOK
    <3>2. Holds(h, s)
      BY <1>1, <3>1 DEF Inv, Kept
    <3>3. pc[h] # "idle" /\ pc[h] # "lock"
      BY <3>2 DEF Holds, Working, Resizing
    <3>4. Waits(h)
      BY <1>1, <3>3
    <3>5. pc[h] = "rlock" /\ mtx[loc[h].i] # NULL
      BY <3>3, <3>4 DEF Waits
    <3>6. s < loc[h].i
      BY <3>2, <3>5 DEF Holds, Working, Resizing
    <3> QED
      BY <1>1, <3>5, <3>6, LocalType DEF Inv
  <2>2. PICK s \in Stripe : mtx[s] # NULL
    <3>1. Waits(t)
      BY <1>1
    <3>2. CASE pc[t] = "lock"
      <4>1. lockKey(t) \in Stripe
        BY <1>1, <3>2, LocalType, KeyStripe DEF Inv, Bucketed, BucketedOf, lockKey
      <4> QED
        BY <3>1, <3>2, <4>1 DEF Waits
    <3>3. CASE pc[t] = "rlock"
      BY <1>1, <3>1, <3>3, LocalType DEF Waits, Inv
    <3> QED
      BY <3>1, <3>2, <3>3 DEF Waits
  <2>3. PICK h \in Threads : /\ pc[h] = "rlock" /\ s < loc[h].i /\ loc[h].i \in Stripe
                             /\ mtx[loc[h].i] # NULL
    BY <2>1, <2>2
  <2>4. PICK g \in Threads : pc[g] = "rlock" /\ loc[h].i < loc[g].i /\ loc[g].i \in Stripe
    BY <2>1, <2>3
  \* Both resizes hold the first stripe.
  <2>5. 0 \in Stripe /\ 0 < loc[h].i /\ 0 < loc[g].i /\ loc[h].i # loc[g].i
    BY <2>2, <2>3, <2>4, StripedAssumption DEF Stripe
  <2>6. Holds(h, 0) /\ Holds(g, 0)
    BY <2>3, <2>4, <2>5 DEF Holds
  <2> QED
    BY <1>1, <2>5, <2>6, HeldOnce
<1>2. Inv => SomeoneRuns
  BY <1>1 DEF SomeoneRuns
<1> QED
  BY <1>2, Invariance, PTL
-----------------------------------------------------------------------------
(* add and delete are atomic *)

\* What a call has met is not enough for the answer FALSE.
Unanswered(t) ==
    /\ loc[t].op \in {"add", "delete"} /\ ~loc[t].ok
    /\ loc[t].op = "add" => seen[t] \intersect {"present", "no memory"} = {}
    /\ loc[t].op = "delete" => "absent" \notin seen[t]

\* The least size of the table at the beginning of an attempt.
Least(retry) ==
    IF retry = 2 THEN lock_size ELSE IF retry = 1 THEN 2 * lock_size ELSE 4 * lock_size

\* An attempt only fails without an answer when the table has doubled since.
RetriedOf(t) ==
    Unanswered(t) =>
        /\ pc[t] = "size" => table_size >= Least(loc[t].retry)
        /\ pc[t] \in {"hash", "lock", "work"} =>
               /\ loc[t].ts >= Least(loc[t].retry)
               /\ loc[t].ts # table_size => table_size >= 2 * loc[t].ts
        /\ pc[t] = "unlock" => table_size >= 2 * Least(loc[t].retry)

Retried == \A t \in Threads : RetriedOf(t)

\* A call that gives up, with neither a change nor an answer.
GivesUp(t) == pc[t] = "unlock" /\ loc[t].retry = 0 /\ Unanswered(t)

\* The steps a caller cannot see.
Hidden(t) ==
    \/ ReadSize(t) \/ Hash(t) \/ Lock(t) \/ LoadCount(t) \/ StoreCount(t)
    \/ PolicyCount(t) \/ PolicySize(t) \/ ResizeRead(t) \/ ResizeLock(t)
    \/ ResizeCheck(t) \/ ResizeSave(t) \/ ResizeSwap(t) \/ ResizeDouble(t) \/ Rehash(t)
    \/ ResizeUnlock(t) \/ LoadOldBucket(t) \/ LoadOldSize(t) \/ FreeOld(t)

\* A step that writes the pc and the locals of its own thread.
LEMMA HiddenStep ==
    ASSUME Inv, NEW t \in Threads, NEW l, NEW r,
           pc' = [pc EXCEPT ![t] = l], loc' = [loc EXCEPT ![t] = r], seen' = seen,
           r.op = loc[t].op, r.key = loc[t].key, r.ok = loc[t].ok, r.retry = loc[t].retry,
           loc[t].ok \/ (l \in After \union Resizing <=> pc[t] \in After \union Resizing)
    PROVE  /\ OnlyMoves(t) /\ seen' = seen
           /\ loc'[t].op = loc[t].op /\ loc'[t].key = loc[t].key
           /\ loc'[t].ok = loc[t].ok /\ loc'[t].retry = loc[t].retry
           /\ Done(t)' = Done(t)
<1>1. pc \in [Threads -> Label] /\ loc \in [Threads -> Local]
  BY DEF Inv, TypeOK
<1>2. /\ pc'[t] = l /\ loc'[t] = r
      /\ \A u \in Threads \ {t} : pc'[u] = pc[u] /\ loc'[u] = loc[u]
  BY <1>1
<1>3. OnlyMoves(t)
  BY <1>2 DEF OnlyMoves
<1>4. Done(t)' <=> (l \in After \union Resizing \/ r.ok)
  BY <1>2 DEF Done, After, Resizing
<1>5. Done(t)' = Done(t)
  BY <1>4 DEF Done
<1> QED
  BY <1>2, <1>3, <1>5

LEMMA HiddenEffect ==
    ASSUME Inv, NEW t \in Threads, Hidden(t)
    PROVE  /\ OnlyMoves(t) /\ seen' = seen
           /\ loc'[t].op = loc[t].op /\ loc'[t].key = loc[t].key
           /\ loc'[t].ok = loc[t].ok /\ loc'[t].retry = loc[t].retry
           /\ Done(t)' = Done(t)
<1>1. /\ loc = [loc EXCEPT ![t] = loc[t]]
      /\ DOMAIN loc[t] = {"op", "key", "ts", "mb", "retry", "ok", "n", "i", "fb", "fs"}
  BY LocalType DEF Inv, TypeOK, Local
<1>2. CASE ReadSize(t)
  <2> DEFINE r == [loc[t] EXCEPT !.ts = table_size]
  <2>1. /\ r.op = loc[t].op /\ r.key = loc[t].key /\ r.ok = loc[t].ok
        /\ r.retry = loc[t].retry
    BY <1>1
  <2>2. /\ pc[t] = "size" /\ seen' = seen
        /\ pc' = [pc EXCEPT ![t] = "hash"]
        /\ loc' = [loc EXCEPT ![t] = r]
    BY <1>2 DEF ReadSize, At, Goto, shared, table
  <2> HIDE DEF r
  <2> QED
    BY <2>1, <2>2, HiddenStep DEF After, Resizing
<1>3. CASE Hash(t)
  <2> DEFINE r == [loc[t] EXCEPT !.mb = hashCode(loc[t].key)]
  <2>1. /\ r.op = loc[t].op /\ r.key = loc[t].key /\ r.ok = loc[t].ok
        /\ r.retry = loc[t].retry
    BY <1>1
  <2>2. /\ pc[t] = "hash" /\ seen' = seen
        /\ pc' = [pc EXCEPT ![t] = "lock"]
        /\ loc' = [loc EXCEPT ![t] = r]
    BY <1>3 DEF Hash, At, Goto, shared, table
  <2> HIDE DEF r
  <2> QED
    BY <2>1, <2>2, HiddenStep DEF After, Resizing
<1>4. CASE Lock(t)
  <2>1. /\ pc[t] = "lock" /\ seen' = seen
        /\ pc' = [pc EXCEPT ![t] = "work"]
        /\ loc' = loc
    BY <1>4 DEF Lock, At, Goto, shared, table
  <2> QED
    BY <1>1, <2>1, HiddenStep DEF After, Resizing
<1>5. CASE LoadCount(t)
  <2> DEFINE r == [loc[t] EXCEPT !.n = setSize]
  <2>1. /\ r.op = loc[t].op /\ r.key = loc[t].key /\ r.ok = loc[t].ok
        /\ r.retry = loc[t].retry
    BY <1>1
  <2>2. /\ pc[t] = "count" /\ seen' = seen
        /\ pc' = [pc EXCEPT ![t] = "store"]
        /\ loc' = [loc EXCEPT ![t] = r]
    BY <1>5 DEF LoadCount, At, Goto, shared, table
  <2> HIDE DEF r
  <2> QED
    BY <2>1, <2>2, HiddenStep DEF After, Resizing
<1>6. CASE StoreCount(t)
  <2>1. /\ pc[t] = "store" /\ seen' = seen
        /\ pc' = [pc EXCEPT ![t] = "unlock"]
        /\ loc' = loc
    BY <1>6 DEF StoreCount, At, Goto, shared, table
  <2>2. loc[t].ok
    BY <2>1 DEF Inv, Calling, CallingOf
  <2> QED
    BY <1>1, <2>1, <2>2, HiddenStep DEF After, Resizing
<1>7. CASE PolicyCount(t)
  <2> DEFINE r == [loc[t] EXCEPT !.n = setSize]
  <2>1. /\ r.op = loc[t].op /\ r.key = loc[t].key /\ r.ok = loc[t].ok
        /\ r.retry = loc[t].retry
    BY <1>1
  <2>2. /\ pc[t] = "policy" /\ seen' = seen
        /\ pc' = [pc EXCEPT ![t] = "policy_size"]
        /\ loc' = [loc EXCEPT ![t] = r]
    BY <1>7 DEF PolicyCount, At, Goto, shared, table
  <2> HIDE DEF r
  <2> QED
    BY <2>1, <2>2, HiddenStep DEF After, Resizing
<1>8. CASE PolicySize(t)
  <2> DEFINE r == [loc[t] EXCEPT !.n = 0]
  <2>1. /\ r.op = loc[t].op /\ r.key = loc[t].key /\ r.ok = loc[t].ok
        /\ r.retry = loc[t].retry
    BY <1>1
  <2>2. PICK l \in {"rsize", "ret"} : pc' = [pc EXCEPT ![t] = l]
    BY <1>8 DEF PolicySize, At, Goto
  <2>3. /\ pc[t] = "policy_size" /\ seen' = seen
        /\ loc' = [loc EXCEPT ![t] = r]
    BY <1>8 DEF PolicySize, At, shared, table
  <2> HIDE DEF r
  <2> QED
    BY <2>1, <2>2, <2>3, HiddenStep DEF After, Resizing
<1>9. CASE ResizeRead(t)
  <2> DEFINE r == [loc[t] EXCEPT !.ts = table_size, !.i = 0]
  <2>1. /\ r.op = loc[t].op /\ r.key = loc[t].key /\ r.ok = loc[t].ok
        /\ r.retry = loc[t].retry
    BY <1>1
  <2>2. PICK l \in {"rlock", "ret"} : pc' = [pc EXCEPT ![t] = l]
    BY <1>9 DEF ResizeRead, At, Goto
  <2>3. /\ pc[t] = "rsize" /\ seen' = seen
        /\ loc' = [loc EXCEPT ![t] = r]
    BY <1>9 DEF ResizeRead, At, shared, table
  <2> HIDE DEF r
  <2> QED
    BY <2>1, <2>2, <2>3, HiddenStep DEF After, Resizing
<1>10. CASE ResizeLock(t)
  <2> DEFINE r == [loc[t] EXCEPT !.i = (loc[t].i + 1) % lock_size]
  <2>1. /\ r.op = loc[t].op /\ r.key = loc[t].key /\ r.ok = loc[t].ok
        /\ r.retry = loc[t].retry
    BY <1>1
  <2>2. PICK l \in {"rlock", "rcheck"} : pc' = [pc EXCEPT ![t] = l]
    BY <1>10 DEF ResizeLock, At, Goto
  <2>3. /\ pc[t] = "rlock" /\ seen' = seen
        /\ loc' = [loc EXCEPT ![t] = r]
    BY <1>10 DEF ResizeLock, At, shared, table
  <2> HIDE DEF r
  <2> QED
    BY <2>1, <2>2, <2>3, HiddenStep DEF After, Resizing
<1>11. CASE ResizeCheck(t)
  <2> DEFINE r == [loc[t] EXCEPT !.ts = 0]
  <2>1. /\ r.op = loc[t].op /\ r.key = loc[t].key /\ r.ok = loc[t].ok
        /\ r.retry = loc[t].retry
    BY <1>1
  <2>2. PICK l \in {"rquit", "rsave"} : pc' = [pc EXCEPT ![t] = l]
    BY <1>11 DEF ResizeCheck, At, Goto
  <2>3. /\ pc[t] = "rcheck" /\ seen' = seen
        /\ loc' = [loc EXCEPT ![t] = r]
    BY <1>11 DEF ResizeCheck, At, shared, table
  <2> HIDE DEF r
  <2> QED
    BY <2>1, <2>2, <2>3, HiddenStep DEF After, Resizing
<1>12. CASE ResizeSwap(t)
  <2>1. PICK l \in {"rdouble", "ret"} : pc' = [pc EXCEPT ![t] = l]
    BY <1>12 DEF ResizeSwap, At, Goto
  <2>2. /\ pc[t] = "rswap" /\ seen' = seen
        /\ loc' = loc
    BY <1>12 DEF ResizeSwap, At, shared, table
  <2> QED
    BY <1>1, <2>1, <2>2, HiddenStep DEF After, Resizing
<1>13. CASE ResizeDouble(t)
  <2>1. /\ pc[t] = "rdouble" /\ seen' = seen
        /\ pc' = [pc EXCEPT ![t] = "rehash"]
        /\ loc' = loc
    BY <1>13 DEF ResizeDouble, At, Goto, shared, table
  <2> QED
    BY <1>1, <2>1, HiddenStep DEF After, Resizing
<1>14. CASE Rehash(t)
  <2>1. /\ pc[t] = "rehash" /\ seen' = seen
        /\ pc' = [pc EXCEPT ![t] = "runlock"]
        /\ loc' = loc
    BY <1>14 DEF Rehash, At, Goto, shared, table
  <2> QED
    BY <1>1, <2>1, HiddenStep DEF After, Resizing
<1>15. CASE ResizeUnlock(t)
  <2> DEFINE r == [loc[t] EXCEPT !.i = (loc[t].i + 1) % lock_size]
  <2>1. /\ r.op = loc[t].op /\ r.key = loc[t].key /\ r.ok = loc[t].ok
        /\ r.retry = loc[t].retry
    BY <1>1
  <2>2. PICK l \in {"runlock", "rquit", "rfree", "ret"} : pc' = [pc EXCEPT ![t] = l]
    BY <1>15 DEF ResizeUnlock, At, Goto
  <2>3. /\ pc[t] \in {"runlock", "rquit"} /\ seen' = seen
        /\ loc' = [loc EXCEPT ![t] = r]
    BY <1>15 DEF ResizeUnlock, At, shared, table
  <2> HIDE DEF r
  <2> QED
    BY <2>1, <2>2, <2>3, HiddenStep DEF After, Resizing
<1>16. CASE FreeOld(t)
  <2>1. /\ pc[t] = "free" /\ seen' = seen
        /\ pc' = [pc EXCEPT ![t] = "ret"]
        /\ loc' = loc
    BY <1>16 DEF FreeOld, At, Goto, shared, table
  <2> QED
    BY <1>1, <2>1, HiddenStep DEF After, Resizing
<1>17. CASE ResizeSave(t)
  <2>1. /\ pc[t] = "rsave" /\ seen' = seen
        /\ pc' = [pc EXCEPT ![t] = "rswap"]
        /\ loc' = loc
    BY <1>17 DEF ResizeSave, At, Goto
  <2> QED
    BY <1>1, <2>1, HiddenStep DEF After, Resizing
<1>18. CASE LoadOldBucket(t)
  <2> DEFINE r == [loc[t] EXCEPT !.fb = old_bucket]
  <2>1. /\ r.op = loc[t].op /\ r.key = loc[t].key /\ r.ok = loc[t].ok
        /\ r.retry = loc[t].retry
    BY <1>1
  <2>2. PICK l \in {"rfree_s", "free"} : pc' = [pc EXCEPT ![t] = l]
    BY <1>18 DEF LoadOldBucket, Goto
  <2>3. /\ pc[t] \in {"rfree", "rfree_b"} /\ seen' = seen
        /\ loc' = [loc EXCEPT ![t] = r]
    BY <1>18 DEF LoadOldBucket, At
  <2> HIDE DEF r
  <2> QED
    BY <2>1, <2>2, <2>3, HiddenStep DEF After, Resizing
<1>19. CASE LoadOldSize(t)
  <2> DEFINE r == [loc[t] EXCEPT !.fs = old_table_size]
  <2>1. /\ r.op = loc[t].op /\ r.key = loc[t].key /\ r.ok = loc[t].ok
        /\ r.retry = loc[t].retry
    BY <1>1
  <2>2. PICK l \in {"rfree_b", "free"} : pc' = [pc EXCEPT ![t] = l]
    BY <1>19 DEF LoadOldSize, Goto
  <2>3. /\ pc[t] \in {"rfree", "rfree_s"} /\ seen' = seen
        /\ loc' = [loc EXCEPT ![t] = r]
    BY <1>19 DEF LoadOldSize, At
  <2> HIDE DEF r
  <2> QED
    BY <2>1, <2>2, <2>3, HiddenStep DEF After, Resizing
<1> QED
  BY <1>2, <1>3, <1>4, <1>5, <1>6, <1>7, <1>8, <1>9, <1>10, <1>11, <1>12, <1>13,
     <1>14, <1>15, <1>16, <1>17, <1>18, <1>19 DEF Hidden

LEMMA CallEffect ==
    ASSUME Inv, NEW t \in Threads, NEW op \in Ops, NEW k \in Key, Call(t, op, k)
    PROVE  /\ OnlyMoves(t) /\ UNCHANGED shared
           /\ loc[t] = NoLocals /\ seen[t] = {} /\ seen'[t] = {}
           /\ loc'[t].op = op /\ loc'[t].key = k /\ loc'[t].retry = 2 /\ ~loc'[t].ok
           /\ ~Done(t) /\ ~Done(t)'
           /\ pc'[t] = IF op = "find" THEN "hash" ELSE "size"
<1> DEFINE r == [NoLocals EXCEPT !.op = op, !.key = k, !.retry = 2]
           l == IF op = "find" THEN "hash" ELSE "size"
<1>1. /\ pc[t] = "idle" /\ pc' = [pc EXCEPT ![t] = l]
      /\ loc' = [loc EXCEPT ![t] = r]
      /\ UNCHANGED <<shared, seen>>
  BY DEF Call, At, Goto
<1>2. r.op = op /\ r.key = k /\ r.retry = 2 /\ ~r.ok /\ ~NoLocals.ok
  BY DEF NoLocals
<1>3. l \in {"hash", "size"}
  OBVIOUS
<1> HIDE DEF r, l
<1>4. OnlyMoves(t) /\ pc'[t] = l /\ loc'[t] = r
  BY <1>1 DEF Inv, TypeOK, OnlyMoves
<1>5. loc[t] = NoLocals /\ seen[t] = {}
  BY <1>1 DEF Inv, Calling, CallingOf
<1>6. ~Done(t) /\ ~Done(t)'
  BY <1>1, <1>2, <1>3, <1>4, <1>5 DEF Done, After, Resizing
<1> QED
  BY <1>1, <1>2, <1>4, <1>5, <1>6 DEF l

LEMMA UnlockEffect ==
    ASSUME Inv, NEW t \in Threads, Unlock(t)
    PROVE  /\ OnlyMoves(t) /\ UNCHANGED <<table_size, chain, seen>> /\ pc[t] = "unlock"
           /\ loc'[t].op = loc[t].op /\ loc'[t].key = loc[t].key /\ loc'[t].ok = loc[t].ok
           /\ \/ /\ ~loc[t].ok /\ loc[t].retry > 0 /\ pc'[t] = "size"
                 /\ loc'[t].retry = loc[t].retry - 1 /\ loc[t].op # "find"
              \/ /\ loc[t].ok \/ loc[t].retry = 0 \/ loc[t].op = "find"
                 /\ pc'[t] \in {"policy", "ret"}
<1>0. PICK a \in 0..MaxTable, b \in Bucket, n \in Int : a = 0 /\ b = 0 /\ n = 0
  BY Bounds DEF Inv, Bucket
<1> DEFINE again == loc[t].op # "find" /\ ~loc[t].ok /\ loc[t].retry > 0
           x == IF again THEN loc[t].retry - 1 ELSE 0
           r == [loc[t] EXCEPT !.retry = x, !.ts = a, !.mb = b, !.n = n]
           l == IF again THEN "size" ELSE IF loc[t].op = "add" THEN "policy" ELSE "ret"
<1>1. /\ pc[t] = "unlock" /\ pc' = [pc EXCEPT ![t] = l]
      /\ loc' = [loc EXCEPT ![t] = r]
      /\ UNCHANGED <<table_size, chain, seen>>
  BY <1>0 DEF Unlock, At, Goto, table
<1>2. /\ r.op = loc[t].op /\ r.key = loc[t].key /\ r.ok = loc[t].ok /\ r.retry = x
  <2> HIDE DEF x
  <2> QED
    BY LocalType DEF Inv, Local
<1> HIDE DEF r
<1>3. OnlyMoves(t) /\ pc'[t] = l /\ loc'[t] = r
  BY <1>1 DEF Inv, TypeOK, OnlyMoves
<1>4. ~(loc[t].retry > 0) => loc[t].retry = 0
  BY LocalType DEF Inv
<1> QED
  BY <1>1, <1>2, <1>3, <1>4

\* A call looks at the set, and changes nothing.
Looks(t) ==
    /\ UNCHANGED <<chain, loc>> /\ pc'[t] = "unlock"
    /\ seen'[t] = seen[t] \union {IF loc[t].key \in Members THEN "present" ELSE "absent"}

\* A call changes the set.
Changes(t) ==
    /\ pc'[t] = "count" /\ seen'[t] = {}
    /\ loc'[t].op = loc[t].op /\ loc'[t].key = loc[t].key /\ loc'[t].ok

LEMMA AddEffect ==
    ASSUME Inv, NEW t \in Threads, AddNode(t)
    PROVE  /\ pc[t] = "work" /\ loc[t].op = "add" /\ ~loc[t].ok
           /\ OnlyMoves(t) /\ UNCHANGED table_size
           /\ \/ Looks(t) /\ (Stale(t) \/ loc[t].key \in Members)
              \/ /\ UNCHANGED <<chain, loc>> /\ pc'[t] = "unlock"
                 /\ seen'[t] = seen[t] \union {"no memory"}
              \/ /\ Changes(t) /\ loc[t].key \notin Members
                 /\ Members' = Members \union {loc[t].key}
<1> DEFINE k == loc[t].key
           b == loc[t].mb
<1>1. /\ pc[t] = "work" /\ loc[t].op = "add" /\ ~loc[t].ok /\ UNCHANGED table_size
  BY DEF AddNode, At, Inv, Calling, CallingOf
<1>2. /\ loc[t] \in Local /\ k \in Key /\ b \in Bucket
      /\ k \in chain[b] => k \in Members
      /\ ~Stale(t) /\ k \notin chain[b] => k \notin Members
  BY <1>1, LocalType, WorkBucket DEF Inv, Members
<1>3. CASE /\ Stale(t) \/ k \in chain[b]
           /\ Look(t) /\ Goto(t, "unlock") /\ UNCHANGED <<chain, loc>>
  <2>1. OnlyMoves(t) /\ Looks(t)
    BY <1>3 DEF Looks, Look, Meet, Goto, OnlyMoves, Inv, TypeOK
  <2> QED
    BY <1>1, <1>2, <1>3, <2>1
<1>4. CASE Meet(t, "no memory") /\ Goto(t, "unlock") /\ UNCHANGED <<chain, loc>>
  <2>1. /\ OnlyMoves(t) /\ pc'[t] = "unlock"
        /\ seen'[t] = seen[t] \union {"no memory"}
    BY <1>4 DEF Meet, Goto, OnlyMoves, Inv, TypeOK
  <2> QED
    BY <1>1, <1>4, <2>1
<1>5. CASE /\ ~Stale(t) /\ k \notin chain[b]
           /\ chain' = [chain EXCEPT ![b] = @ \union {k}]
           /\ loc' = [loc EXCEPT ![t].ok = TRUE]
           /\ seen' = [seen EXCEPT ![t] = {}]
           /\ Goto(t, "count")
  <2>1. OnlyMoves(t) /\ pc'[t] = "count" /\ seen'[t] = {}
    BY <1>5 DEF Goto, OnlyMoves, Inv, TypeOK
  <2>2. loc'[t].op = loc[t].op /\ loc'[t].key = loc[t].key /\ loc'[t].ok
    <3> DEFINE r == [loc[t] EXCEPT !.ok = TRUE]
    <3>1. r.op = loc[t].op /\ r.key = loc[t].key /\ r.ok
      BY <1>2 DEF Local
    <3>2. loc' = [loc EXCEPT ![t] = r] /\ loc \in [Threads -> Local]
      BY <1>5 DEF Inv, TypeOK
    <3> HIDE DEF r
    <3> QED
      BY <3>1, <3>2
  <2>3. \A c \in Bucket : chain'[c] = IF c = b THEN chain[b] \union {k} ELSE chain[c]
    BY <1>5 DEF Inv, TypeOK
  <2>4. Members' = Members \union {k}
    BY <1>2, <2>3 DEF Members, Bucket
  <2> QED
    BY <1>1, <1>2, <1>5, <2>1, <2>2, <2>4 DEF Changes
<1> QED
  BY <1>3, <1>4, <1>5 DEF AddNode

LEMMA DeleteEffect ==
    ASSUME Inv, NEW t \in Threads, DeleteNode(t)
    PROVE  /\ pc[t] = "work" /\ loc[t].op = "delete" /\ ~loc[t].ok
           /\ OnlyMoves(t) /\ UNCHANGED table_size
           /\ \/ Looks(t) /\ (Stale(t) \/ loc[t].key \notin Members)
              \/ UNCHANGED <<chain, loc, pc, seen>>
              \/ /\ Changes(t) /\ loc[t].key \in Members
                 /\ Members' = Members \ {loc[t].key}
<1> DEFINE k == loc[t].key
           b == loc[t].mb
<1>1. /\ pc[t] = "work" /\ loc[t].op = "delete" /\ ~loc[t].ok /\ UNCHANGED table_size
  BY DEF DeleteNode, At, Inv, Calling, CallingOf
<1>2. /\ loc[t] \in Local /\ k \in Key /\ b \in Bucket
      /\ k \in chain[b] => k \in Members
      /\ ~Stale(t) /\ k \notin chain[b] => k \notin Members
      /\ \A c \in Bucket : \A j \in chain[c] : hashCode(j) = c
  BY <1>1, LocalType, WorkBucket DEF Inv, Members
<1>3. CASE /\ Stale(t) \/ k \notin chain[b]
           /\ Look(t) /\ Goto(t, "unlock") /\ UNCHANGED <<chain, loc>>
  <2>1. OnlyMoves(t) /\ Looks(t)
    BY <1>3 DEF Looks, Look, Meet, Goto, OnlyMoves, Inv, TypeOK
  <2> QED
    BY <1>1, <1>2, <1>3, <2>1
<1>4. CASE UNCHANGED <<chain, loc, pc, seen>>
  BY <1>1, <1>4 DEF OnlyMoves
<1>5. CASE /\ ~Stale(t) /\ k \in chain[b]
           /\ chain' = [chain EXCEPT ![b] = @ \ {k}]
           /\ loc' = [loc EXCEPT ![t].ok = TRUE]
           /\ seen' = [seen EXCEPT ![t] = {}]
           /\ Goto(t, "count")
  <2>1. OnlyMoves(t) /\ pc'[t] = "count" /\ seen'[t] = {}
    BY <1>5 DEF Goto, OnlyMoves, Inv, TypeOK
  <2>2. loc'[t].op = loc[t].op /\ loc'[t].key = loc[t].key /\ loc'[t].ok
    <3> DEFINE r == [loc[t] EXCEPT !.ok = TRUE]
    <3>1. r.op = loc[t].op /\ r.key = loc[t].key /\ r.ok
      BY <1>2 DEF Local
    <3>2. loc' = [loc EXCEPT ![t] = r] /\ loc \in [Threads -> Local]
      BY <1>5 DEF Inv, TypeOK
    <3> HIDE DEF r
    <3> QED
      BY <3>1, <3>2
  <2>3. \A c \in Bucket : chain'[c] = IF c = b THEN chain[b] \ {k} ELSE chain[c]
    BY <1>5 DEF Inv, TypeOK
  <2>4. \A c \in Bucket : c # b => k \notin chain[c]
    BY <1>2, <1>5
  <2>5. Members' = Members \ {k}
    BY <1>2, <2>3, <2>4 DEF Members, Bucket
  <2> QED
    BY <1>1, <1>2, <1>5, <2>1, <2>2, <2>5 DEF Changes
<1> QED
  BY <1>3, <1>4, <1>5 DEF DeleteNode

LEMMA FindEffect ==
    ASSUME Inv, NEW t \in Threads, FindNode(t)
    PROVE  /\ OnlyMoves(t) /\ UNCHANGED shared /\ loc[t].op = "find" /\ loc'[t].op = "find"
<1> DEFINE found == loc[t].key \in chain[loc[t].mb]
<1>1. /\ loc[t].op = "find" /\ loc' = [loc EXCEPT ![t].ok = found] /\ Look(t)
      /\ Goto(t, "unlock") /\ UNCHANGED shared
  BY DEF FindNode
<1> HIDE DEF found
<1>2. loc'[t].op = "find"
  BY <1>1, LocalType DEF Inv, TypeOK, Local
<1>3. OnlyMoves(t)
  BY <1>1 DEF OnlyMoves, Inv, TypeOK, Look, Meet, Goto
<1> QED
  BY <1>1, <1>2, <1>3

LEMMA ReturnEffect ==
    ASSUME Inv, NEW t \in Threads, Return(t)
    PROVE  /\ OnlyMoves(t) /\ UNCHANGED shared /\ Done(t) /\ ~Done(t)'
           /\ loc'[t] = NoLocals /\ seen'[t] = {} /\ pc'[t] = "idle"
<1>1. /\ pc[t] = "ret" /\ pc' = [pc EXCEPT ![t] = "idle"]
      /\ loc' = [loc EXCEPT ![t] = NoLocals]
      /\ seen' = [seen EXCEPT ![t] = {}]
      /\ UNCHANGED shared
  BY DEF Return, At, Goto
<1>2. OnlyMoves(t) /\ pc'[t] = "idle" /\ loc'[t] = NoLocals /\ seen'[t] = {}
  BY <1>1 DEF Inv, TypeOK, OnlyMoves
<1> QED
  BY <1>1, <1>2 DEF Done, After, Resizing, NoLocals

LEMMA LeastType ==
    ASSUME NEW n \in 0..2
    PROVE  /\ Least(n) \in Nat /\ Least(2) = lock_size /\ Least(0) = 4 * lock_size
           /\ n > 0 => Least(n - 1) = 2 * Least(n)
<1>1. lock_size \in Nat
  BY StripedAssumption
<1>2. n = 0 \/ n = 1 \/ n = 2
  OBVIOUS
<1> QED
  BY <1>1, <1>2 DEF Least

LEMMA RetriedOthers ==
    ASSUME Inv, Retried, NEW t \in Threads, OnlyMoves(t),
           table_size' = table_size \/ table_size' = 2 * table_size, RetriedOf(t)'
    PROVE  Retried'
<1>1. ASSUME NEW u \in Threads, u # t
      PROVE  RetriedOf(u)'
  <2>1. pc'[u] = pc[u] /\ loc'[u] = loc[u] /\ seen'[u] = seen[u]
    BY <1>1 DEF OnlyMoves
  <2>2. Unanswered(u)' <=> Unanswered(u)
    BY <2>1 DEF Unanswered
  <2>3. RetriedOf(u) /\ BucketedOf(u)
    BY DEF Retried, Inv, Bucketed
  <2>4. /\ Least(loc[u].retry) \in Nat /\ loc[u].ts \in Nat /\ table_size \in Nat
    BY LocalType, LeastType, Bounds DEF Inv
  <2> HIDE DEF Least
  <2>5. /\ table_size >= Least(loc[u].retry) => table_size' >= Least(loc[u].retry)
        /\ table_size >= 2 * Least(loc[u].retry) => table_size' >= 2 * Least(loc[u].retry)
        /\ loc[u].ts <= table_size /\ (loc[u].ts # table_size => table_size >= 2 * loc[u].ts)
               => (loc[u].ts # table_size' => table_size' >= 2 * loc[u].ts)
    BY <2>4
  <2>6. Least(loc[u].retry)' = Least(loc[u].retry)
    BY <2>1 DEF Least
  <2>7. pc[u] = "size" => RetriedOf(u)'
    BY <2>1, <2>2, <2>3, <2>5, <2>6 DEF RetriedOf
  <2>8. pc[u] \in {"hash", "lock", "work"} => RetriedOf(u)'
    BY <2>1, <2>2, <2>3, <2>5, <2>6 DEF RetriedOf, BucketedOf
  <2>9. pc[u] = "unlock" => RetriedOf(u)'
    BY <2>1, <2>2, <2>3, <2>5, <2>6 DEF RetriedOf
  <2> QED
    BY <2>1, <2>7, <2>8, <2>9 DEF RetriedOf
<1> QED
  BY <1>1 DEF Retried

LEMMA HiddenRetried ==
    ASSUME Inv, Retried, NEW t \in Threads, Hidden(t)
    PROVE  Retried'
<1>0. pc \in [Threads -> Label] /\ loc \in [Threads -> Local]
  BY DEF Inv, TypeOK
<1>1. /\ OnlyMoves(t) /\ seen' = seen
      /\ loc'[t].op = loc[t].op /\ loc'[t].key = loc[t].key
      /\ loc'[t].ok = loc[t].ok /\ loc'[t].retry = loc[t].retry
  BY HiddenEffect
<1>2. Unanswered(t)' <=> Unanswered(t)
  BY <1>1 DEF Unanswered
<1>3. RetriedOf(t) /\ CallingOf(t)
  BY DEF Retried, Inv, Calling
<1>4. table_size' = table_size \/ table_size' = 2 * table_size
  BY DEF Hidden, ReadSize, Hash, Lock, LoadCount, StoreCount, PolicyCount, PolicySize,
     ResizeRead, ResizeLock, ResizeCheck, ResizeSave, ResizeSwap, ResizeDouble, Rehash,
     ResizeUnlock, LoadOldBucket, LoadOldSize, FreeOld, shared, table
<1>5. RetriedOf(t)'
  <2>1. CASE ReadSize(t)
    <3>1. /\ pc[t] = "size" /\ pc'[t] = "hash"
          /\ loc'[t].ts = table_size /\ table_size' = table_size
      BY <1>0, <2>1 DEF ReadSize, At, Goto, Local, shared, table
    <3> QED
      BY <1>1, <1>2, <1>3, <3>1 DEF RetriedOf, Least
  <2>2. CASE Hash(t)
    <3>1. /\ pc[t] = "hash" /\ pc'[t] = "lock"
          /\ loc'[t].ts = loc[t].ts /\ table_size' = table_size
      BY <1>0, <2>2 DEF Hash, At, Goto, Local, shared, table
    <3> QED
      BY <1>1, <1>2, <1>3, <3>1 DEF RetriedOf, Least
  <2>3. CASE Lock(t)
    <3>1. /\ pc[t] = "lock" /\ pc'[t] = "work"
          /\ loc'[t].ts = loc[t].ts /\ table_size' = table_size
      BY <1>0, <2>3 DEF Lock, At, Goto, table
    <3> QED
      BY <1>1, <1>2, <1>3, <3>1 DEF RetriedOf, Least
  <2>4. CASE StoreCount(t)
    <3>1. loc[t].ok
      BY <1>3, <2>4 DEF CallingOf, StoreCount, At
    <3> QED
      BY <1>2, <3>1 DEF RetriedOf, Unanswered
  <2>5. CASE ~(ReadSize(t) \/ Hash(t) \/ Lock(t) \/ StoreCount(t))
    <3>1. pc'[t] \notin {"size", "hash", "lock", "work", "unlock"}
      BY <1>0, <2>5 DEF Hidden, LoadCount, PolicyCount, PolicySize,
         ResizeRead, ResizeLock, ResizeCheck, ResizeSave, ResizeSwap, ResizeDouble, Rehash,
         ResizeUnlock, LoadOldBucket, LoadOldSize, FreeOld, At, Goto
    <3> QED
      BY <3>1 DEF RetriedOf
  <2> QED
    BY <2>1, <2>2, <2>3, <2>4, <2>5
<1> QED
  BY <1>1, <1>4, <1>5, RetriedOthers

LEMMA StaleRetried ==
    ASSUME Inv, Retried, NEW t \in Threads, pc[t] = "work", Unanswered(t), Stale(t)
    PROVE  table_size >= 2 * Least(loc[t].retry)
<1>1. loc[t].ts \in Nat /\ table_size \in Nat /\ Least(loc[t].retry) \in Nat
  BY LocalType, LeastType, Bounds DEF Inv
<1>2. loc[t].ts >= Least(loc[t].retry) /\ table_size >= 2 * loc[t].ts
  BY DEF Retried, RetriedOf, Stale
<1> HIDE DEF Least
<1> QED
  BY <1>1, <1>2

LEMMA VisibleRetried ==
    ASSUME Inv, Retried, NEW t \in Threads,
           \/ AddNode(t) \/ DeleteNode(t) \/ FindNode(t) \/ Unlock(t) \/ Return(t)
           \/ \E op \in Ops, k \in Key : Call(t, op, k)
    PROVE  Retried'
<1>0. /\ loc[t].retry \in 0..2 /\ loc[t].ts \in Nat /\ table_size \in Nat
      /\ lock_size \in Nat /\ lock_size <= table_size
  BY LocalType, Bounds DEF Inv
<1>1. RetriedOf(t)
  BY DEF Retried
<1>2. CASE AddNode(t)
  <2>1. /\ pc[t] = "work" /\ loc[t].op = "add" /\ ~loc[t].ok
        /\ OnlyMoves(t) /\ UNCHANGED table_size
        /\ \/ Looks(t) /\ (Stale(t) \/ loc[t].key \in Members)
           \/ /\ UNCHANGED <<chain, loc>> /\ pc'[t] = "unlock"
              /\ seen'[t] = seen[t] \union {"no memory"}
           \/ Changes(t)
    BY <1>2, AddEffect
  <2>2. RetriedOf(t)'
    <3>1. CASE Changes(t)
      BY <3>1 DEF Changes, RetriedOf, Unanswered
    <3>2. CASE ~Changes(t)
      <4>1. UNCHANGED loc /\ pc'[t] = "unlock" /\ seen[t] \subseteq seen'[t]
        BY <2>1, <3>2 DEF Looks
      <4>2. Unanswered(t)' => Unanswered(t) /\ Stale(t)
        BY <2>1, <3>2, <4>1 DEF Unanswered, Looks
      <4> QED
        BY <2>1, <4>1, <4>2, StaleRetried DEF RetriedOf, Least
    <3> QED
      BY <3>1, <3>2
  <2> QED
    BY <2>1, <2>2, RetriedOthers
<1>3. CASE DeleteNode(t)
  <2>1. /\ pc[t] = "work" /\ loc[t].op = "delete" /\ ~loc[t].ok
        /\ OnlyMoves(t) /\ UNCHANGED table_size
        /\ \/ Looks(t) /\ (Stale(t) \/ loc[t].key \notin Members)
           \/ UNCHANGED <<chain, loc, pc, seen>>
           \/ Changes(t)
    BY <1>3, DeleteEffect
  <2>2. RetriedOf(t)'
    <3>1. CASE Changes(t)
      BY <3>1 DEF Changes, RetriedOf, Unanswered
    <3>2. CASE UNCHANGED <<chain, loc, pc, seen>>
      BY <1>1, <2>1, <3>2 DEF RetriedOf, Unanswered, Least
    <3>3. CASE Looks(t) /\ (Stale(t) \/ loc[t].key \notin Members)
      <4>1. UNCHANGED loc /\ pc'[t] = "unlock" /\ seen[t] \subseteq seen'[t]
        BY <3>3 DEF Looks
      <4>2. Unanswered(t)' => Unanswered(t) /\ Stale(t)
        BY <2>1, <3>3, <4>1 DEF Unanswered, Looks
      <4> QED
        BY <2>1, <4>1, <4>2, StaleRetried DEF RetriedOf, Least
    <3> QED
      BY <2>1, <3>1, <3>2, <3>3
  <2> QED
    BY <2>1, <2>2, RetriedOthers
<1>4. CASE FindNode(t)
  BY <1>4, FindEffect, RetriedOthers DEF RetriedOf, Unanswered, shared, table
<1>5. CASE Unlock(t)
  <2>1. /\ OnlyMoves(t) /\ UNCHANGED <<table_size, chain, seen>> /\ pc[t] = "unlock"
        /\ loc'[t].op = loc[t].op /\ loc'[t].key = loc[t].key /\ loc'[t].ok = loc[t].ok
        /\ \/ /\ loc[t].retry > 0 /\ pc'[t] = "size" /\ loc'[t].retry = loc[t].retry - 1
           \/ pc'[t] \in {"policy", "ret"}
    BY <1>5, UnlockEffect
  <2>2. Unanswered(t)' => Unanswered(t)
    BY <2>1 DEF Unanswered
  <2>3. Unanswered(t) => table_size >= 2 * Least(loc[t].retry)
    BY <1>1, <2>1 DEF RetriedOf
  <2>4. loc[t].retry > 0 => Least(loc[t].retry - 1) = 2 * Least(loc[t].retry)
    BY <1>0, LeastType
  <2>5. RetriedOf(t)'
    <3>1. CASE pc'[t] \in {"policy", "ret"}
      BY <3>1 DEF RetriedOf
    <3>2. CASE loc[t].retry > 0 /\ pc'[t] = "size" /\ loc'[t].retry = loc[t].retry - 1
      <4>1. Least(loc[t].retry)' = Least(loc[t].retry - 1)
        BY <3>2 DEF Least
      <4> QED
        BY <2>1, <2>2, <2>3, <2>4, <3>2, <4>1 DEF RetriedOf
    <3> QED
      BY <2>1, <3>1, <3>2
  <2> QED
    BY <2>1, <2>5, RetriedOthers
<1>6. CASE Return(t)
  BY <1>6, ReturnEffect, RetriedOthers DEF RetriedOf, shared, table
<1>7. ASSUME NEW op \in Ops, NEW k \in Key, Call(t, op, k)
      PROVE  Retried'
  <2>1. /\ OnlyMoves(t) /\ UNCHANGED shared /\ loc'[t].op = op /\ loc'[t].retry = 2
        /\ pc'[t] = IF op = "find" THEN "hash" ELSE "size"
    BY <1>7, CallEffect
  <2>2. RetriedOf(t)'
    BY <1>0, <2>1 DEF RetriedOf, Unanswered, Least, shared, table
  <2> QED
    BY <2>1, <2>2, RetriedOthers DEF shared, table
<1> QED
  BY <1>2, <1>3, <1>4, <1>5, <1>6, <1>7

CallRecord == [op : {"none", "add", "delete", "find"}, key : Key \union {0},
               done : BOOLEAN, res : BOOLEAN]

LEMMA SameRecord ==
    ASSUME NEW r \in CallRecord, NEW q \in CallRecord,
           r.op = q.op, r.key = q.key, r.done = q.done, r.res = q.res
    PROVE  r = q
  BY DEF CallRecord

LEMMA NewCall ==
    ASSUME NEW op \in Ops, NEW k \in Key
    PROVE  [Set!NoCall EXCEPT !.op = op, !.key = k] =
               [op |-> op, key |-> k, done |-> FALSE, res |-> FALSE]
<1>1. /\ Set!NoCall \in CallRecord
      /\ Set!NoCall.done = FALSE /\ Set!NoCall.res = FALSE
  BY DEF Set!NoCall, CallRecord
<1>2. op \in {"none", "add", "delete", "find"}
  BY StripedAssumption
<1> DEFINE q == [Set!NoCall EXCEPT !.op = op, !.key = k]
           r == [op |-> op, key |-> k, done |-> FALSE, res |-> FALSE]
<1>3. q \in CallRecord
  BY <1>1, <1>2 DEF CallRecord
<1>4. q.op = op /\ q.key = k /\ q.done = FALSE /\ q.res = FALSE
  BY <1>1 DEF CallRecord
<1>5. r \in CallRecord
  BY <1>2 DEF CallRecord
<1> QED
  BY <1>3, <1>4, <1>5, SameRecord

LEMMA DoneCall ==
    ASSUME NEW c \in CallRecord, NEW x \in BOOLEAN
    PROVE  [c EXCEPT !.done = TRUE, !.res = x] =
               [op |-> c.op, key |-> c.key, done |-> TRUE, res |-> x]
<1> DEFINE q == [c EXCEPT !.done = TRUE, !.res = x]
           r == [op |-> c.op, key |-> c.key, done |-> TRUE, res |-> x]
<1>1. q \in CallRecord
  BY DEF CallRecord
<1>2. q.op = c.op /\ q.key = c.key /\ q.done = TRUE /\ q.res = x
  BY DEF CallRecord
<1>3. r \in CallRecord
  BY DEF CallRecord
<1> QED
  BY <1>1, <1>2, <1>3, SameRecord

calls == [u \in Threads |-> callOf(u)]
meets == [u \in Threads |-> seenOf(u)]

LEMMA AbstractFrame ==
    ASSUME NEW t \in Threads, OnlyMoves(t)
    PROVE  /\ calls' = [calls EXCEPT ![t] = callOf(t)']
           /\ meets' = [meets EXCEPT ![t] = seenOf(t)']
<1>1. \A u \in Threads \ {t} : callOf(u)' = callOf(u) /\ seenOf(u)' = seenOf(u)
  BY DEF OnlyMoves, callOf, seenOf, Done
<1> QED
  BY <1>1 DEF calls, meets

LEMMA StutterStep ==
    ASSUME NEW t \in Threads, OnlyMoves(t), Members' = Members,
           callOf(t)' = callOf(t), seenOf(t)' = seenOf(t)
    PROVE  UNCHANGED Set!vars
<1>1. calls' = calls /\ meets' = meets
  <2>1. calls' = [calls EXCEPT ![t] = callOf(t)] /\ meets' = [meets EXCEPT ![t] = seenOf(t)]
    BY AbstractFrame
  <2> QED
    BY <2>1 DEF calls, meets
<1> QED
  BY <1>1 DEF Set!vars, calls, meets

LEMMA HiddenAbstract ==
    ASSUME Inv, NEW t \in Threads, Hidden(t)
    PROVE  UNCHANGED Set!vars
<1>1. /\ OnlyMoves(t) /\ seen' = seen
      /\ loc'[t].op = loc[t].op /\ loc'[t].key = loc[t].key
      /\ loc'[t].ok = loc[t].ok /\ Done(t)' = Done(t)
  BY HiddenEffect
<1>2. callOf(t)' = callOf(t) /\ seenOf(t)' = seenOf(t)
  BY <1>1 DEF callOf, seenOf
<1>3. Members' = Members
  <2>1. CASE Rehash(t)
    <3>1. chain' = [b \in Bucket |-> {k \in Members : hashCode(k) = b}]
      BY <2>1 DEF Rehash
    <3>2. \A k \in Members : hashCode(k) \in Bucket
      <4>1. Members \subseteq Key
        BY DEF Inv, TypeOK, Members
      <4>2. \A k \in Members : k \in Nat
        BY <4>1, StripedAssumption
      <4> QED
        BY <4>2, BucketStripe DEF Inv
    <3>3. Members' = UNION {chain'[b] : b \in Bucket}
      BY DEF Members, Bucket
    <3> QED
      BY <3>1, <3>2, <3>3
  <2>2. CASE ~Rehash(t)
    <3>1. chain' = chain
      BY <2>2 DEF Hidden, ReadSize, Hash, Lock, LoadCount, StoreCount, PolicyCount,
         PolicySize, ResizeRead, ResizeLock, ResizeCheck, ResizeSave, ResizeSwap,
         ResizeDouble, ResizeUnlock, LoadOldBucket, LoadOldSize, FreeOld, shared, table
    <3> QED
      BY <3>1 DEF Members, Bucket
  <2> QED
    BY <2>1, <2>2
<1> QED
  BY <1>1, <1>2, <1>3, StutterStep

LEMMA CallAbstract ==
    ASSUME Inv, NEW t \in Threads, NEW op \in Ops, NEW k \in Key, Call(t, op, k)
    PROVE  Set!Call(t, op, k) \/ UNCHANGED Set!vars
<1>1. /\ OnlyMoves(t) /\ UNCHANGED shared
      /\ loc[t] = NoLocals /\ seen[t] = {} /\ seen'[t] = {}
      /\ loc'[t].op = op /\ loc'[t].key = k /\ ~loc'[t].ok
      /\ ~Done(t) /\ ~Done(t)'
  BY CallEffect
<1>2. Members' = Members
  BY <1>1 DEF shared, table, Members, Bucket
<1>3. callOf(t) = Set!NoCall
  <2>1. Done(t) = FALSE /\ (Done(t) /\ loc[t].ok) = FALSE
    BY <1>1
  <2>2. loc[t].op = "none" /\ loc[t].key = 0
    BY <1>1 DEF NoLocals
  <2> HIDE DEF Done
  <2> QED
    BY <2>1, <2>2 DEF callOf, Set!NoCall
<1>4. seenOf(t) = {} /\ seenOf(t)' = {}
  BY <1>1 DEF seenOf
<1>5. CASE op = "find"
  <2>1. callOf(t)' = Set!NoCall
    BY <1>1, <1>5 DEF callOf, Set!NoCall
  <2> QED
    BY <1>1, <1>2, <1>3, <1>4, <2>1, StutterStep
<1>6. CASE op # "find"
  <2>1. callOf(t)' = [Set!NoCall EXCEPT !.op = op, !.key = k]
    <3>1. Done(t)' = FALSE /\ (Done(t)' /\ loc'[t].ok) = FALSE
      BY <1>1
    <3>2. callOf(t)' = [op |-> op, key |-> k, done |-> FALSE, res |-> FALSE]
      BY <1>1, <1>6, <3>1 DEF callOf
    <3> QED
      BY <3>2, NewCall
  <2>2. calls[t] = Set!NoCall
    BY <1>3 DEF calls
  <2>3. meets' = meets
    BY <1>1, <1>4, AbstractFrame DEF meets
  <2> QED
    BY <1>1, <1>2, <2>1, <2>2, <2>3, AbstractFrame DEF Set!Call, calls, meets
<1> QED
  BY <1>5, <1>6

\* A call of add or delete that has not taken effect.
LEMMA PendingCall ==
    ASSUME Inv, NEW t \in Threads, loc[t].op \in {"add", "delete"}, ~Done(t)
    PROVE  /\ calls[t] = callOf(t) /\ meets[t] = seen[t] /\ calls[t] \in CallRecord
           /\ calls[t] = [op |-> loc[t].op, key |-> loc[t].key, done |-> FALSE, res |-> FALSE]
           /\ calls[t].op = loc[t].op /\ calls[t].key = loc[t].key /\ ~calls[t].done
           /\ calls[t] # Set!NoCall
<1>1. Done(t) = FALSE /\ (Done(t) /\ loc[t].ok) = FALSE
  OBVIOUS
<1>2. callOf(t) = [op |-> loc[t].op, key |-> loc[t].key, done |-> FALSE, res |-> FALSE]
  <2> HIDE DEF Done
  <2> QED
    BY <1>1 DEF callOf
<1>3. callOf(t) \in CallRecord
  BY <1>2, LocalType DEF Inv, CallRecord
<1>4. calls[t] = callOf(t) /\ meets[t] = seen[t]
  BY DEF calls, meets, seenOf
<1>5. /\ calls[t].op = loc[t].op /\ calls[t].key = loc[t].key /\ ~calls[t].done
      /\ calls[t] # Set!NoCall
  BY <1>2, <1>4 DEF Set!NoCall
<1> QED
  BY <1>2, <1>3, <1>4, <1>5

LEMMA FinishCall ==
    ASSUME Inv, NEW t \in Threads, loc[t].op \in {"add", "delete"}, ~Done(t),
           OnlyMoves(t), loc'[t].op = loc[t].op, loc'[t].key = loc[t].key,
           Done(t)', NEW x \in BOOLEAN, loc'[t].ok = x
    PROVE  calls' = [calls EXCEPT ![t].done = TRUE, ![t].res = x]
<1>1. /\ calls[t] = [op |-> loc[t].op, key |-> loc[t].key, done |-> FALSE, res |-> FALSE]
      /\ calls[t] \in CallRecord
      /\ calls[t].op = loc[t].op /\ calls[t].key = loc[t].key
  BY PendingCall
<1>2. callOf(t)' = [op |-> loc[t].op, key |-> loc[t].key, done |-> TRUE, res |-> x]
  <2>1. Done(t)' = TRUE /\ (Done(t)' /\ loc'[t].ok) = x
    BY DEF Done
  <2>2. callOf(t)' = [op |-> loc'[t].op, key |-> loc'[t].key, done |-> Done(t)',
                      res |-> Done(t)' /\ loc'[t].ok]
    BY DEF callOf
  <2> QED
    BY <2>1, <2>2
<1>3. callOf(t)' = [calls[t] EXCEPT !.done = TRUE, !.res = x]
  BY <1>1, <1>2, DoneCall
<1>4. calls' = [calls EXCEPT ![t] = callOf(t)']
  BY AbstractFrame
<1> QED
  BY <1>3, <1>4

LEMMA LookAbstract ==
    ASSUME Inv, NEW t \in Threads, loc[t].op \in {"add", "delete"}, ~loc[t].ok,
           pc[t] = "work", OnlyMoves(t), Looks(t)
    PROVE  Set!Look(t)
<1>1. ~Done(t) /\ ~Done(t)'
  BY DEF Done, After, Resizing, Looks
<1>2. /\ calls[t] = callOf(t) /\ meets[t] = seen[t]
      /\ calls[t] # Set!NoCall /\ ~calls[t].done /\ calls[t].key = loc[t].key
  BY <1>1, PendingCall
<1>3. Members' = Members
  BY DEF Looks, Members, Bucket
<1>4. callOf(t)' = callOf(t)
  <2>1. Done(t) = FALSE /\ Done(t)' = FALSE
    BY <1>1
  <2> QED
    BY <2>1 DEF callOf, Looks
<1>5. calls' = calls
  BY <1>2, <1>4, AbstractFrame DEF calls
<1>6. seenOf(t)' = meets[t] \union
          {IF calls[t].key \in Members THEN "present" ELSE "absent"}
  BY <1>2 DEF seenOf, Looks
<1>7. meets' = [meets EXCEPT ![t] = @ \union
          {IF calls[t].key \in Members THEN "present" ELSE "absent"}]
  BY <1>6, AbstractFrame
<1> QED
  BY <1>2, <1>3, <1>5, <1>7 DEF Set!Look, calls, meets

LEMMA AddAbstract ==
    ASSUME Inv, NEW t \in Threads, AddNode(t)
    PROVE  Set!Look(t) \/ Set!RunOut(t) \/ Set!Add(t)
<1>1. /\ pc[t] = "work" /\ loc[t].op = "add" /\ ~loc[t].ok /\ OnlyMoves(t)
      /\ \/ Looks(t)
         \/ /\ UNCHANGED <<chain, loc>> /\ pc'[t] = "unlock"
            /\ seen'[t] = seen[t] \union {"no memory"}
         \/ /\ Changes(t) /\ loc[t].key \notin Members
            /\ Members' = Members \union {loc[t].key}
  BY AddEffect
<1>2. ~Done(t)
  BY <1>1 DEF Done, After, Resizing
<1>3. /\ calls[t] = callOf(t) /\ meets[t] = seen[t]
      /\ calls[t].op = "add" /\ ~calls[t].done /\ calls[t].key = loc[t].key
  BY <1>1, <1>2, PendingCall
<1>4. CASE Looks(t)
  BY <1>1, <1>4, LookAbstract
<1>5. CASE /\ UNCHANGED <<chain, loc>> /\ pc'[t] = "unlock"
           /\ seen'[t] = seen[t] \union {"no memory"}
  <2>1. ~Done(t)'
    BY <1>1, <1>5 DEF Done, After, Resizing
  <2>2. callOf(t)' = callOf(t)
    <3>1. Done(t) = FALSE /\ Done(t)' = FALSE
      BY <1>2, <2>1
    <3> QED
      BY <1>5, <3>1 DEF callOf
  <2>3. calls' = calls
    BY <1>1, <1>3, <2>2, AbstractFrame DEF calls
  <2>4. seenOf(t)' = meets[t] \union {"no memory"}
    BY <1>1, <1>3, <1>5 DEF seenOf
  <2>5. meets' = [meets EXCEPT ![t] = @ \union {"no memory"}]
    BY <1>1, <2>4, AbstractFrame
  <2>6. Members' = Members
    BY <1>5 DEF Members, Bucket
  <2> QED
    BY <1>3, <2>3, <2>5, <2>6 DEF Set!RunOut, Set!Pending, calls, meets
<1>6. CASE /\ Changes(t) /\ loc[t].key \notin Members
           /\ Members' = Members \union {loc[t].key}
  <2>1. Done(t)' /\ loc'[t].op = loc[t].op /\ loc'[t].key = loc[t].key
    BY <1>6 DEF Done, Changes
  <2>2. loc'[t].ok = TRUE
    BY <1>6 DEF Changes
  <2>3. calls' = [calls EXCEPT ![t].done = TRUE, ![t].res = TRUE]
    BY <1>1, <1>2, <2>1, <2>2, FinishCall
  <2>4. meets' = [meets EXCEPT ![t] = {}]
    <3>1. seenOf(t)' = {}
      BY <1>1, <1>6, <2>1 DEF seenOf, Changes
    <3> QED
      BY <1>1, <3>1, AbstractFrame
  <2> QED
    BY <1>3, <1>6, <2>3, <2>4 DEF Set!Add, Set!Pending, Set!Finish, calls, meets
<1> QED
  BY <1>1, <1>4, <1>5, <1>6

LEMMA DeleteAbstract ==
    ASSUME Inv, NEW t \in Threads, DeleteNode(t)
    PROVE  Set!Look(t) \/ Set!Delete(t) \/ UNCHANGED Set!vars
<1>1. /\ pc[t] = "work" /\ loc[t].op = "delete" /\ ~loc[t].ok /\ OnlyMoves(t)
      /\ \/ Looks(t)
         \/ UNCHANGED <<chain, loc, pc, seen>>
         \/ /\ Changes(t) /\ loc[t].key \in Members
            /\ Members' = Members \ {loc[t].key}
  BY DeleteEffect
<1>2. ~Done(t)
  BY <1>1 DEF Done, After, Resizing
<1>3. /\ calls[t] = callOf(t) /\ meets[t] = seen[t]
      /\ calls[t].op = "delete" /\ ~calls[t].done /\ calls[t].key = loc[t].key
  BY <1>1, <1>2, PendingCall
<1>4. CASE Looks(t)
  BY <1>1, <1>4, LookAbstract
<1>5. CASE UNCHANGED <<chain, loc, pc, seen>>
  BY <1>1, <1>5, StutterStep DEF callOf, seenOf, Done, Members, Bucket
<1>6. CASE /\ Changes(t) /\ loc[t].key \in Members
           /\ Members' = Members \ {loc[t].key}
  <2>1. Done(t)' /\ loc'[t].op = loc[t].op /\ loc'[t].key = loc[t].key
    BY <1>6 DEF Done, Changes
  <2>2. loc'[t].ok = TRUE
    BY <1>6 DEF Changes
  <2>3. calls' = [calls EXCEPT ![t].done = TRUE, ![t].res = TRUE]
    BY <1>1, <1>2, <2>1, <2>2, FinishCall
  <2>4. meets' = [meets EXCEPT ![t] = {}]
    <3>1. seenOf(t)' = {}
      BY <1>1, <1>6, <2>1 DEF seenOf, Changes
    <3> QED
      BY <1>1, <3>1, AbstractFrame
  <2> QED
    BY <1>3, <1>6, <2>3, <2>4 DEF Set!Delete, Set!Pending, Set!Finish, calls, meets
<1> QED
  BY <1>1, <1>4, <1>5, <1>6

LEMMA FindAbstract ==
    ASSUME Inv, NEW t \in Threads, FindNode(t)
    PROVE  UNCHANGED Set!vars
<1>1. /\ OnlyMoves(t) /\ UNCHANGED shared /\ loc[t].op = "find" /\ loc'[t].op = "find"
  BY FindEffect
<1>2. callOf(t)' = callOf(t) /\ seenOf(t)' = seenOf(t)
  BY <1>1 DEF callOf, seenOf
<1> QED
  BY <1>1, <1>2, StutterStep DEF shared, table, Members, Bucket

LEMMA UnlockAbstract ==
    ASSUME Inv, NEW t \in Threads, Unlock(t), ~GivesUp(t)
    PROVE  Set!Add(t) \/ Set!Delete(t) \/ UNCHANGED Set!vars
<1>1. /\ OnlyMoves(t) /\ UNCHANGED <<table_size, chain, seen>> /\ pc[t] = "unlock"
      /\ loc'[t].op = loc[t].op /\ loc'[t].key = loc[t].key /\ loc'[t].ok = loc[t].ok
      /\ \/ ~loc[t].ok /\ pc'[t] = "size"
         \/ /\ loc[t].ok \/ loc[t].retry = 0 \/ loc[t].op = "find"
            /\ pc'[t] \in {"policy", "ret"}
  BY UnlockEffect
<1>2. loc[t].op \in {"add", "delete", "find"} /\ loc[t].ok \in BOOLEAN
  BY <1>1, LocalType DEF Inv, Calling, CallingOf
<1>3. Members' = Members /\ seenOf(t)' = seenOf(t)
  BY <1>1 DEF Members, Bucket, seenOf
<1>4. CASE loc[t].op = "find"
  <2>1. callOf(t)' = callOf(t)
    BY <1>1, <1>4 DEF callOf
  <2> QED
    BY <1>1, <1>3, <2>1, StutterStep
<1>5. CASE ~loc[t].ok /\ pc'[t] = "size"
  <2>1. Done(t) = FALSE /\ Done(t)' = FALSE
    BY <1>1, <1>5 DEF Done, After, Resizing
  <2>2. callOf(t)' = callOf(t)
    BY <1>1, <2>1 DEF callOf
  <2> QED
    BY <1>1, <1>3, <2>2, StutterStep
<1>6. CASE loc[t].ok /\ pc'[t] \in {"policy", "ret"}
  <2>1. Done(t) = TRUE /\ Done(t)' = TRUE
    BY <1>1, <1>6 DEF Done, After
  <2>2. callOf(t)' = callOf(t)
    BY <1>1, <2>1 DEF callOf
  <2> QED
    BY <1>1, <1>3, <2>2, StutterStep
<1>7. CASE /\ ~loc[t].ok /\ loc[t].retry = 0 /\ loc[t].op \in {"add", "delete"}
           /\ pc'[t] \in {"policy", "ret"}
  <2>1. ~Done(t) /\ Done(t)'
    BY <1>1, <1>7 DEF Done, After, Resizing
  <2>2. /\ meets[t] = seen[t] /\ calls[t].op = loc[t].op /\ ~calls[t].done
    BY <1>7, <2>1, PendingCall
  <2>3. loc'[t].ok = FALSE
    BY <1>1, <1>7
  <2>4. calls' = [calls EXCEPT ![t].done = TRUE, ![t].res = FALSE]
    BY <1>1, <1>7, <2>1, <2>3, FinishCall
  <2>5. meets' = meets
    BY <1>1, <1>3, AbstractFrame DEF meets
  <2>6. ~Unanswered(t)
    BY <1>1, <1>7 DEF GivesUp
  <2>7. CASE loc[t].op = "add"
    <3>1. meets[t] \intersect {"present", "no memory"} # {}
      BY <1>7, <2>2, <2>6, <2>7 DEF Unanswered
    <3> QED
      BY <1>3, <2>2, <2>4, <2>5, <2>7, <3>1
      DEF Set!Add, Set!Pending, Set!Finish, calls, meets
  <2>8. CASE loc[t].op = "delete"
    <3>1. "absent" \in meets[t]
      BY <1>7, <2>2, <2>6, <2>8 DEF Unanswered
    <3> QED
      BY <1>3, <2>2, <2>4, <2>5, <2>8, <3>1
      DEF Set!Delete, Set!Pending, Set!Finish, calls, meets
  <2> QED
    BY <1>7, <2>7, <2>8
<1> QED
  BY <1>1, <1>2, <1>4, <1>5, <1>6, <1>7

LEMMA ReturnAbstract ==
    ASSUME Inv, NEW t \in Threads, Return(t)
    PROVE  Set!Return(t) \/ UNCHANGED Set!vars
<1>1. /\ OnlyMoves(t) /\ UNCHANGED shared /\ Done(t) /\ ~Done(t)'
      /\ loc'[t] = NoLocals /\ seen'[t] = {}
  BY ReturnEffect
<1>2. Members' = Members
  BY <1>1 DEF shared, table, Members, Bucket
<1>3. callOf(t)' = Set!NoCall
  <2>1. Done(t)' = FALSE /\ (Done(t)' /\ loc'[t].ok) = FALSE
    BY <1>1
  <2>2. loc'[t].op = "none" /\ loc'[t].key = 0
    BY <1>1 DEF NoLocals
  <2>3. callOf(t)' = [op |-> loc'[t].op, key |-> loc'[t].key, done |-> Done(t)',
                      res |-> Done(t)' /\ loc'[t].ok]
    BY <2>2 DEF callOf
  <2> QED
    BY <2>1, <2>2, <2>3 DEF Set!NoCall
<1>4. seenOf(t)' = {}
  BY <1>1 DEF seenOf
<1>5. CASE loc[t].op = "find"
  <2>1. callOf(t) = Set!NoCall /\ seenOf(t) = {}
    BY <1>5 DEF callOf, seenOf, Set!NoCall
  <2> QED
    BY <1>1, <1>2, <1>3, <1>4, <2>1, StutterStep
<1>6. CASE loc[t].op # "find"
  <2>1. calls[t].done
    BY <1>1, <1>6 DEF calls, callOf
  <2>2. calls' = [calls EXCEPT ![t] = Set!NoCall] /\ meets' = [meets EXCEPT ![t] = {}]
    BY <1>1, <1>3, <1>4, AbstractFrame
  <2> QED
    BY <1>2, <2>1, <2>2 DEF Set!Return, calls, meets
<1> QED
  BY <1>5, <1>6

LEMMA AbstractInit == Init => Set!Init
<1> SUFFICES ASSUME Init
             PROVE  Set!Init
  OBVIOUS
<1>1. \A t \in Threads : pc[t] = "idle" /\ loc[t] = NoLocals /\ seen[t] = {}
  BY DEF Init
<1>2. ASSUME NEW t \in Threads
      PROVE  callOf(t) = Set!NoCall /\ seenOf(t) = {}
  <2>1. Done(t) = FALSE /\ (Done(t) /\ loc[t].ok) = FALSE
    BY <1>1 DEF Done, After, Resizing, NoLocals
  <2>2. loc[t].op = "none" /\ loc[t].key = 0 /\ seen[t] = {}
    BY <1>1 DEF NoLocals
  <2> HIDE DEF Done
  <2> QED
    BY <2>1, <2>2 DEF callOf, seenOf, Set!NoCall
<1>3. Members = {}
  BY DEF Init, Members
<1> QED
  BY <1>2, <1>3 DEF Set!Init

\* Every step of the table is a step of the set or none, unless a call gives up.
LEMMA AbstractStep ==
    Inv /\ [Next]_vars /\ (\A t \in Threads : ~GivesUp(t)) => [Set!Next]_(Set!vars)
<1> SUFFICES ASSUME Inv, [Next]_vars, \A t \in Threads : ~GivesUp(t)
             PROVE  Set!Next \/ UNCHANGED Set!vars
  OBVIOUS
<1>1. ASSUME NEW t \in Threads, Step(t)
      PROVE  Set!Next \/ UNCHANGED Set!vars
  <2>1. CASE Hidden(t)
    BY <2>1, HiddenAbstract
  <2>2. CASE AddNode(t)
    BY <2>2, AddAbstract DEF Set!Next
  <2>3. CASE DeleteNode(t)
    BY <2>3, DeleteAbstract DEF Set!Next
  <2>4. CASE FindNode(t)
    BY <2>4, FindAbstract
  <2>5. CASE Unlock(t)
    BY <2>5, UnlockAbstract DEF Set!Next
  <2>6. CASE Return(t)
    BY <2>6, ReturnAbstract DEF Set!Next
  <2> QED
    BY <1>1, <2>1, <2>2, <2>3, <2>4, <2>5, <2>6 DEF Step, Hidden
<1>2. ASSUME NEW t \in Threads, NEW op \in Ops, NEW k \in Key, Call(t, op, k)
      PROVE  Set!Next \/ UNCHANGED Set!vars
  <2>1. Set!Call(t, op, k) \/ UNCHANGED Set!vars
    BY <1>2, CallAbstract
  <2>2. op \in {"add", "delete", "find"}
    BY StripedAssumption
  <2> QED
    BY <2>1, <2>2 DEF Set!Next
<1>3. CASE UNCHANGED vars
  BY <1>3 DEF vars, shared, table, Set!vars, callOf, seenOf, Done, Members, Bucket
<1> QED
  BY <1>1, <1>2, <1>3 DEF Next, Stopped

LEMMA RetriedInit == Init => Retried
<1> SUFFICES ASSUME Init, NEW t \in Threads
             PROVE  RetriedOf(t)
  BY DEF Retried
<1>1. pc[t] = "idle"
  BY DEF Init
<1> QED
  BY <1>1 DEF RetriedOf

LEMMA RetriedNext == Inv /\ Retried /\ [Next]_vars => Retried'
<1> SUFFICES ASSUME Inv, Retried, [Next]_vars
             PROVE  Retried'
  OBVIOUS
<1>1. ASSUME NEW t \in Threads, Step(t) \/ \E op \in Ops, k \in Key : Call(t, op, k)
      PROVE  Retried'
  BY <1>1, HiddenRetried, VisibleRetried DEF Step, Hidden
<1>2. CASE UNCHANGED vars
  BY <1>2 DEF Retried, RetriedOf, Unanswered, Least, vars, shared, table
<1> QED
  BY <1>1, <1>2 DEF Next, Stopped

LEMMA RetriedInvariant == Spec => []Retried
<1>1. Init => Retried
  BY RetriedInit
<1>2. Inv /\ Retried /\ [Next]_vars => Retried'
  BY RetriedNext
<1> QED
  BY <1>1, <1>2, Invariance, PTL DEF Spec

\* add and delete give up without an answer only when the table has doubled in
\* each of their three attempts, so it is eight times its first size.
THEOREM GivesUpAfterThreeResizes ==
    Spec => [](\A t \in Threads : GivesUp(t) => table_size >= 8 * lock_size)
<1>1. ASSUME Inv, Retried, NEW t \in Threads, GivesUp(t)
      PROVE  table_size >= 8 * lock_size
  <2>1. table_size >= 2 * Least(0)
    BY <1>1 DEF Retried, RetriedOf, GivesUp
  <2>2. lock_size \in Nat
    BY StripedAssumption
  <2> QED
    BY <2>1, <2>2 DEF Least
<1>2. Inv /\ Retried => \A t \in Threads : GivesUp(t) => table_size >= 8 * lock_size
  BY <1>1
<1> QED
  BY <1>2, Invariance, RetriedInvariant, PTL

\* As long as the table has not grown eightfold, every call of add and delete is
\* one step on a set of keys, whatever finds, resizes and other calls go on.
THEOREM AtomicUntilEightfold ==
    Spec /\ [](table_size < 8 * lock_size) => AtomicSet
<1>1. Init => Set!Init
  BY AbstractInit
<1>2. Inv /\ [Next]_vars /\ (\A t \in Threads : ~GivesUp(t)) => [Set!Next]_(Set!vars)
  BY AbstractStep
<1>3. ASSUME Inv, \A t \in Threads : GivesUp(t) => table_size >= 8 * lock_size,
             table_size < 8 * lock_size
      PROVE  \A t \in Threads : ~GivesUp(t)
  BY <1>3, Bounds DEF Inv
<1> QED
  BY <1>1, <1>2, <1>3, Invariance, GivesUpAfterThreeResizes, PTL
  DEF Spec, AtomicSet, Set!Spec

=============================================================================
