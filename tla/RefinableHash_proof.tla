------------------------ MODULE RefinableHash_proof ------------------------
(***************************************************************************)
(* Proofs about the refinable hash table, for any threads, keys, first     *)
(* size and bound on the table: the types, the mutual exclusion of the     *)
(* buckets, and that resize neither loses nor invents a key.               *)
(***************************************************************************)
EXTENDS RefinableHash, TLAPS, FiniteSetTheorems, WellFoundedInduction
-----------------------------------------------------------------------------
(* The inductive invariant *)

\* TypeOK but for who holds a mutex, which Owned and Knows tell.
Typed ==
    /\ table_size \in FirstSize..MaxTable /\ old_table_size \in 0..MaxTable
    /\ old_bucket \in 0..MaxTable
    /\ chain \in [Bucket -> SUBSET Key] /\ old_chain \in [Bucket -> SUBSET Key]
    /\ mtx \in [Bucket -> Threads \union {NULL}]
    /\ destroyed \subseteq Bucket /\ freed \subseteq 1..MaxTable
    /\ fault \in Faults \union {"none"}
    /\ pc \in [Threads -> Label] /\ loc \in [Threads -> Local]

Looking == {"bucket", "mutex", "lock"}

\* The mutexes a thread has locked: of the bucket it is at work in, of the first
\* buckets when resize locks them or owns them all, of the last ones when resize
\* gives them up.
Holds(t, b) ==
    \/ pc[t] \in Working /\ b = loc[t].mb
    \/ pc[t] \in Looking /\ loc[t].resizing /\ b < loc[t].mb
    \/ pc[t] \in Owning /\ b < loc[t].ts
    \/ pc[t] \in {"runlock", "rquit"} /\ loc[t].mb <= b /\ b < loc[t].ts

Owned == \A t \in Threads, b \in Bucket : mtx[b] = t <=> Holds(t, b)

\* What a thread knows of the table.
KnowsOf(t) ==
    /\ pc[t] = "idle" => loc[t] = NoLocals
    /\ pc[t] # "idle" => loc[t].key \in Key
    /\ pc[t] \in Working \union {"size", "hash", "policy", "rsize"} => ~loc[t].resizing
    /\ pc[t] \in Owning \union {"runlock", "rquit"} => loc[t].resizing
    /\ loc[t].ts <= table_size
    /\ pc[t] \in Looking \union Working /\ ~loc[t].resizing => loc[t].mb < table_size
    /\ pc[t] \in Looking /\ loc[t].resizing => loc[t].mb < loc[t].ts

\* A resize doubles the table it has locked, remembers the size of the old one as
\* long as it holds a mutex, and frees an array that was in use.
ResizesOf(t) ==
    /\ (pc[t] \in Looking /\ loc[t].resizing) \/ pc[t] \in Owning \ {"rehash"} =>
           2 * loc[t].ts <= MaxTable
    /\ pc[t] \in Owning => loc[t].ts > 0
    /\ pc[t] \in Owning \ {"rcheck"} => loc[t].mb = 0
    /\ pc[t] \in {"rsave", "rswap", "rinit"} => loc[t].ts = table_size
    /\ pc[t] \in {"rswap", "rinit", "rehash"} => loc[t].ts = old_table_size
    /\ pc[t] = "runlock" /\ loc[t].mb < loc[t].ts => loc[t].ts = old_table_size
    /\ pc[t] \in {"rinit", "rehash", "runlock", "rfree", "rfree_b"} => old_bucket > 0
    /\ pc[t] \in {"rfree_s", "free"} => loc[t].fb > 0

Knows == \A t \in Threads : KnowsOf(t)
Resizes == \A t \in Threads : ResizesOf(t)

\* The old array has nodes only while a resize moves them.
OldEmpty ==
    (\A t \in Threads : pc[t] \notin {"rinit", "rehash"}) => old_chain = Nothing

Inv ==
    /\ Typed
    /\ Owned
    /\ Knows
    /\ Resizes
    /\ OldEmpty

-----------------------------------------------------------------------------
(* The least of a set of numbers *)

\* The sets of the numbers up to n are well founded, and so are the numbers.
LEMMA LeastOf ==
    ASSUME NEW S \in SUBSET Nat, S # {}
    PROVE  Min(S) \in S /\ \A y \in S : Min(S) <= y
<1> DEFINE T == {0..n : n \in S}
<1>1. T \subseteq FiniteSubsetsOf(Nat) /\ T # {}
  <2>1. ASSUME NEW n \in S
        PROVE  0..n \in FiniteSubsetsOf(Nat)
    <3>1. IsFiniteSet(0..n) /\ 0..n \subseteq Nat
      BY FS_Interval
    <3> QED
      BY <3>1 DEF FiniteSubsetsOf
  <2> QED
    BY <2>1
<1>2. PICK X \in T : \A Y \in T : <<Y, X>> \notin StrictSubsetOrdering(Nat)
  BY <1>1, WFMin, FS_StrictSubsetOrderingWellFounded
<1>3. PICK n \in S : X = 0..n
  BY <1>2
<1>4. ASSUME NEW y \in S
      PROVE  n <= y
  <2> SUFFICES ASSUME y < n
               PROVE  FALSE
    OBVIOUS
  <2>1. 0..y \subseteq 0..n /\ n \in 0..n /\ n \notin 0..y
    OBVIOUS
  <2>2. 0..y \in T /\ 0..y \subseteq Nat /\ 0..n \subseteq Nat
    OBVIOUS
  <2>3. <<0..y, 0..n>> \in StrictSubsetOrdering(Nat)
    BY <2>1, <2>2 DEF StrictSubsetOrdering
  <2> QED
    BY <1>2, <1>3, <2>2, <2>3
<1> QED
  BY <1>4 DEF Min

-----------------------------------------------------------------------------
(* What the invariant says *)

LEMMA Bounds ==
    ASSUME Typed
    PROVE  /\ MaxTable \in Nat /\ table_size \in Nat /\ old_table_size \in Nat
           /\ 0 < table_size /\ table_size <= MaxTable /\ old_table_size <= MaxTable
           /\ 0 \in Bucket /\ 0..(table_size - 1) \subseteq Bucket /\ Bucket \subseteq Nat
<1>1. FirstSize \in Nat \ {0} /\ MaxTable \in Nat
  BY RefinableAssumption
<1>2. table_size \in FirstSize..MaxTable /\ old_table_size \in 0..MaxTable
  BY DEF Typed
<1> QED
  BY <1>1, <1>2 DEF Bucket

LEMMA LocalType ==
    ASSUME Typed, NEW t \in Threads
    PROVE  /\ pc[t] \in Label /\ loc[t] \in Local
           /\ loc[t].op \in {"none", "add", "delete", "find"}
           /\ loc[t].key \in Nat /\ loc[t].key \in Key \union {0}
           /\ loc[t].ts \in 0..MaxTable /\ loc[t].ts \in Nat
           /\ loc[t].mb \in 0..MaxTable /\ loc[t].mb \in Nat
           /\ loc[t].arr \in 0..MaxTable /\ loc[t].retry \in 0..2
           /\ loc[t].ok \in BOOLEAN /\ loc[t].resizing \in BOOLEAN
           /\ loc[t].fb \in 0..MaxTable /\ loc[t].fs \in 0..MaxTable
<1>1. pc[t] \in Label /\ loc[t] \in Local
  BY DEF Typed
<1>2. /\ loc[t].op \in {"none", "add", "delete", "find"}
      /\ loc[t].key \in Key \union {0}
      /\ loc[t].ts \in 0..MaxTable /\ loc[t].mb \in 0..MaxTable
      /\ loc[t].arr \in 0..MaxTable /\ loc[t].retry \in 0..2
      /\ loc[t].ok \in BOOLEAN /\ loc[t].resizing \in BOOLEAN
      /\ loc[t].fb \in 0..MaxTable /\ loc[t].fs \in 0..MaxTable
  BY <1>1 DEF Local
<1>3. loc[t].key \in Nat
  <2>1. loc[t].key \in Key \/ loc[t].key = 0
    BY <1>2
  <2>2. \A k \in Key : k \in Nat
    BY RefinableAssumption
  <2> QED
    BY <2>1, <2>2
<1>4. MaxTable \in Nat
  BY RefinableAssumption
<1>5. loc[t].ts \in Nat /\ loc[t].mb \in Nat
  BY <1>2, <1>4
<1> QED
  BY <1>1, <1>2, <1>3, <1>5

LEMMA HashInTable ==
    ASSUME Typed, NEW k \in Nat
    PROVE  hashCode(k) \in 0..(table_size - 1) /\ hashCode(k) \in Bucket
<1>1. \A n \in Nat \ {0} : k % n \in 0..(n - 1)
  BY SMT
<1> QED
  BY <1>1, Bounds DEF hashCode

LEMMA HeldOnce ==
    ASSUME Inv, NEW t \in Threads, NEW u \in Threads, NEW b \in Bucket,
           Holds(t, b), Holds(u, b)
    PROVE  t = u
  BY DEF Inv, Owned

\* While a resize owns the mutexes of the table, no one else resizes it, works
\* in it or still has to give up mutexes of it.
LEMMA OwnerAlone ==
    ASSUME Inv, NEW t \in Threads, pc[t] \in Owning, NEW u \in Threads, u # t
    PROVE  /\ pc[u] \notin Owning
           /\ pc[u] \in Working => loc[u].mb >= loc[t].ts
           /\ pc[u] \in {"runlock", "rquit"} /\ loc[u].mb < loc[u].ts =>
                  loc[u].mb >= loc[t].ts
<1>1. /\ loc[t].ts \in Nat /\ loc[t].ts > 0 /\ loc[t].ts <= table_size
      /\ loc[u].ts \in Nat /\ loc[u].ts <= table_size /\ loc[u].mb \in Nat
      /\ pc[u] \in Owning => loc[u].ts > 0
      /\ pc[u] \in Working => loc[u].mb < table_size
  BY LocalType DEF Inv, Knows, KnowsOf, Resizes, ResizesOf, Working
<1>2. \A b \in Nat : b < loc[t].ts => b \in Bucket /\ Holds(t, b)
  BY <1>1, Bounds DEF Inv, Holds
<1>3. \A b \in Bucket : ~(Holds(t, b) /\ Holds(u, b))
  BY HeldOnce
<1>4. pc[u] \notin Owning
  <2> SUFFICES ASSUME pc[u] \in Owning
               PROVE  FALSE
    OBVIOUS
  <2>1. Holds(u, 0)
    BY <1>1 DEF Holds
  <2> QED
    BY <1>1, <1>2, <1>3, <2>1
<1>5. pc[u] \in Working => loc[u].mb >= loc[t].ts
  <2>1. pc[u] \in Working => Holds(u, loc[u].mb)
    BY DEF Holds
  <2> QED
    BY <1>1, <1>2, <1>3, <2>1
<1>6. pc[u] \in {"runlock", "rquit"} /\ loc[u].mb < loc[u].ts => loc[u].mb >= loc[t].ts
  <2>1. pc[u] \in {"runlock", "rquit"} /\ loc[u].mb < loc[u].ts => Holds(u, loc[u].mb)
    BY <1>1 DEF Holds
  <2> QED
    BY <1>1, <1>2, <1>3, <2>1
<1> QED
  BY <1>4, <1>5, <1>6

LEMMA InvTypeOK ==
    ASSUME Inv
    PROVE  TypeOK
<1>1. ASSUME NEW b \in Bucket, mtx[b] # NULL
      PROVE  LET t == mtx[b] IN
             loc[t].resizing \/ (pc[t] \in Working /\ loc[t].mb = b)
  <2> DEFINE t == mtx[b]
  <2>1. t \in Threads
    BY <1>1 DEF Inv, Typed
  <2>2. Holds(t, b)
    BY <2>1 DEF Inv, Owned
  <2>3. pc[t] \in Owning \union {"runlock", "rquit"} => loc[t].resizing
    BY <2>1 DEF Inv, Knows, KnowsOf
  <2>4. loc[t].resizing \/ (pc[t] \in Working /\ loc[t].mb = b)
    <3> HIDE DEF t
    <3> QED
      BY <2>2, <2>3 DEF Holds
  <2> QED
    BY <2>4
<1> QED
  BY <1>1 DEF Inv, Typed, TypeOK

LEMMA InvBucketsGuarded ==
    ASSUME Inv
    PROVE  BucketsGuarded
<1> SUFFICES ASSUME NEW t \in Threads, NEW u \in Threads, t # u
             PROVE  /\ pc[t] \in Working /\ pc[u] \in Working => loc[t].mb # loc[u].mb
                    /\ pc[t] \in Owning => pc[u] \notin Owning
                    /\ pc[t] \in Owning /\ pc[u] \in Working => loc[u].mb >= loc[t].ts
  BY DEF BucketsGuarded
<1>1. pc[t] \in Owning =>
          pc[u] \notin Owning /\ (pc[u] \in Working => loc[u].mb >= loc[t].ts)
  BY OwnerAlone
<1>2. ASSUME pc[t] \in Working, pc[u] \in Working, loc[t].mb = loc[u].mb
      PROVE  FALSE
  <2>1. ~loc[t].resizing /\ loc[t].mb < table_size /\ loc[t].mb \in Nat
    BY <1>2, LocalType DEF Inv, Knows, KnowsOf
  <2>2. loc[t].mb \in Bucket
    BY <2>1, Bounds DEF Inv
  <2>3. Holds(t, loc[t].mb) /\ Holds(u, loc[t].mb)
    BY <1>2 DEF Holds
  <2> QED
    BY <2>2, <2>3, HeldOnce
<1> QED
  BY <1>1, <1>2
-----------------------------------------------------------------------------
(* What every step of a thread leaves alone *)

OnlyMoves(t) == \A u \in Threads \ {t} : pc'[u] = pc[u] /\ loc'[u] = loc[u]

\* A step takes mutexes that are free and gives up mutexes the thread holds.
Respects(t) ==
    \A b \in Bucket :
        /\ mtx'[b] = t <=> Holds(t, b)'
        /\ mtx'[b] # mtx[b] => mtx[b] \in {t, NULL} /\ mtx'[b] \in {t, NULL}

LEMMA RespectfulStep ==
    ASSUME Inv, NEW t \in Threads, OnlyMoves(t), Respects(t)
    PROVE  Owned'
<1>1. NULL \notin Threads
  BY RefinableAssumption
<1>2. ASSUME NEW u \in Threads, NEW b \in Bucket
      PROVE  mtx'[b] = u <=> Holds(u, b)'
  <2>1. CASE u = t
    BY <2>1 DEF Respects
  <2>2. CASE u # t
    <3>1. Holds(u, b)' <=> Holds(u, b)
      BY <2>2 DEF OnlyMoves, Holds
    <3>2. mtx[b] = u <=> Holds(u, b)
      BY DEF Inv, Owned
    <3>3. mtx'[b] = u <=> mtx[b] = u
      BY <1>1, <2>2 DEF Respects
    <3> QED
      BY <3>1, <3>2, <3>3
  <2> QED
    BY <2>1, <2>2
<1> QED
  BY <1>2 DEF Owned, Bucket

LEMMA LocksKept ==
    ASSUME Inv, NEW t \in Threads, UNCHANGED mtx,
           \A b \in Bucket : Holds(t, b)' <=> Holds(t, b)
    PROVE  Respects(t)
  BY DEF Inv, Owned, Respects

\* A step that changes neither the sizes nor the old array.
LEMMA QuietStep ==
    ASSUME Inv, NEW t \in Threads, OnlyMoves(t), Typed', Respects(t),
           UNCHANGED <<table_size, old_table_size, old_bucket, old_chain>>,
           pc[t] \notin {"rinit", "rehash"},
           KnowsOf(t)', ResizesOf(t)'
    PROVE  Inv'
<1>1. Owned'
  BY RespectfulStep
<1>2. ASSUME NEW u \in Threads
      PROVE  KnowsOf(u)' /\ ResizesOf(u)'
  <2>1. CASE u = t
    BY <2>1
  <2>2. CASE u # t
    <3>1. KnowsOf(u) /\ ResizesOf(u)
      BY DEF Inv, Knows, Resizes
    <3>2. KnowsOf(u)'
      BY <2>2, <3>1 DEF OnlyMoves, KnowsOf
    <3>3. ResizesOf(u)'
      BY <2>2, <3>1 DEF OnlyMoves, ResizesOf
    <3> QED
      BY <3>2, <3>3
  <2> QED
    BY <2>1, <2>2
<1>3. Knows' /\ Resizes'
  BY <1>2 DEF Knows, Resizes
<1>4. OldEmpty'
  BY DEF Inv, OldEmpty, OnlyMoves, Nothing, Bucket
<1> QED
  BY <1>1, <1>3, <1>4 DEF Inv

LEMMA FaultInv ==
    ASSUME Inv, NEW why \in Faults, Fault(why)
    PROVE  Inv' /\ Members' = Members
<1>1. UNCHANGED <<table_size, old_table_size, old_bucket, chain, old_chain, mtx, destroyed, freed, pc, loc>>
  BY DEF Fault, table, locks
<1>2. Typed'
  BY <1>1 DEF Inv, Typed, Fault
<1>3. Owned'
  BY <1>1 DEF Inv, Owned, Holds
<1>4. Knows'
  BY <1>1 DEF Inv, Knows, KnowsOf
<1>5. Resizes'
  BY <1>1 DEF Inv, Resizes, ResizesOf
<1>6. OldEmpty'
  BY <1>1 DEF Inv, OldEmpty, Nothing
<1>7. Members' = Members
  BY <1>1 DEF Members, KeysOf
<1> QED
  BY <1>2, <1>3, <1>4, <1>5, <1>6, <1>7 DEF Inv

-----------------------------------------------------------------------------
(* The steps of a call *)

LEMMA CallInv ==
    ASSUME Inv, NEW t \in Threads, NEW op \in {"add", "delete", "find"}, NEW k \in Key,
           Call(t, op, k)
    PROVE  Inv' /\ UNCHANGED <<chain, old_chain>>
<1> DEFINE r == [NoLocals EXCEPT !.op = op, !.key = k, !.retry = 2]
           l == IF op = "find" THEN "hash" ELSE "size"
<1>1. /\ pc[t] = "idle" /\ pc' = [pc EXCEPT ![t] = l]
      /\ loc' = [loc EXCEPT ![t] = r]
      /\ UNCHANGED <<table, locks, fault>>
  BY DEF Call, At, Goto
<1>2. r \in Local /\ r.key = k /\ r.ts = 0 /\ r.resizing = FALSE
  <2>1. 0 \in 0..MaxTable
    BY Bounds DEF Inv
  <2>2. NoLocals \in Local /\ NoLocals.resizing = FALSE /\ NoLocals.ts = 0
    BY <2>1 DEF NoLocals, Local
  <2>3. r \in Local
    <3> DEFINE q == [NoLocals EXCEPT !.op = op, !.key = k]
    <3>1. q \in Local
      BY <2>2 DEF Local
    <3>2. r = [q EXCEPT !.retry = 2]
      BY <2>2 DEF Local
    <3> HIDE DEF q, r
    <3> QED
      BY <3>1, <3>2 DEF Local
  <2>4. r.key = k /\ r.ts = 0 /\ r.resizing = FALSE
    BY <2>2 DEF Local
  <2> QED
    BY <2>3, <2>4
<1> HIDE DEF r
<1>3. Typed'
  BY <1>1, <1>2 DEF Inv, Typed, Label, table, locks
<1>4. OnlyMoves(t) /\ pc'[t] \in {"hash", "size"} /\ loc'[t] = r
  BY <1>1 DEF Inv, Typed, OnlyMoves
<1>5. Respects(t)
  <2>1. \A b \in Bucket : Holds(t, b)' <=> Holds(t, b)
    BY <1>1, <1>4 DEF Holds, Working, Looking, Owning
  <2> QED
    BY <1>1, <2>1, LocksKept DEF locks
<1>6. KnowsOf(t)' /\ ResizesOf(t)'
  BY <1>1, <1>2, <1>4, Bounds
  DEF Inv, KnowsOf, ResizesOf, Working, Looking, Owning, table
<1> QED
  BY <1>1, <1>3, <1>4, <1>5, <1>6, QuietStep DEF table

LEMMA ReadSizeInv ==
    ASSUME Inv, NEW t \in Threads, ReadSize(t)
    PROVE  Inv' /\ UNCHANGED <<chain, old_chain>>
<1> DEFINE r == [loc[t] EXCEPT !.ts = table_size]
<1>1. /\ pc[t] = "size" /\ pc' = [pc EXCEPT ![t] = "hash"]
      /\ loc' = [loc EXCEPT ![t] = r]
      /\ UNCHANGED <<table, locks, fault>>
  BY DEF ReadSize, At, Goto
<1>2. r \in Local /\ r.key = loc[t].key /\ r.ts = table_size /\ r.resizing = loc[t].resizing
  BY LocalType, Bounds DEF Inv, Local
<1> HIDE DEF r
<1>3. Typed'
  BY <1>1, <1>2 DEF Inv, Typed, Label, table, locks
<1>4. OnlyMoves(t) /\ pc'[t] = "hash" /\ loc'[t] = r
  BY <1>1 DEF Inv, Typed, OnlyMoves
<1>5. Respects(t)
  <2>1. \A b \in Bucket : Holds(t, b)' <=> Holds(t, b)
    BY <1>1, <1>4 DEF Holds, Working, Looking, Owning
  <2> QED
    BY <1>1, <2>1, LocksKept DEF locks
<1>6. KnowsOf(t)' /\ ResizesOf(t)'
  BY <1>1, <1>2, <1>4, Bounds
  DEF Inv, Knows, KnowsOf, ResizesOf, Working, Looking, Owning, table
<1> QED
  BY <1>1, <1>3, <1>4, <1>5, <1>6, QuietStep DEF table

LEMMA HashInv ==
    ASSUME Inv, NEW t \in Threads, Hash(t)
    PROVE  Inv' /\ UNCHANGED <<chain, old_chain>>
<1> DEFINE r == [loc[t] EXCEPT !.mb = hashCode(loc[t].key)]
<1>1. /\ pc[t] = "hash" /\ pc' = [pc EXCEPT ![t] = "bucket"]
      /\ loc' = [loc EXCEPT ![t] = r]
      /\ UNCHANGED <<table, locks, fault>>
  BY DEF Hash, At, Goto
<1>2. hashCode(loc[t].key) \in 0..(table_size - 1)
  BY LocalType, HashInTable DEF Inv
<1>3. /\ r \in Local /\ r.key = loc[t].key /\ r.ts = loc[t].ts
      /\ r.resizing = loc[t].resizing /\ r.mb = hashCode(loc[t].key)
  <2>1. hashCode(loc[t].key) \in 0..MaxTable
    BY <1>2, Bounds DEF Inv
  <2> QED
    BY <2>1, LocalType DEF Inv, Local
<1> HIDE DEF r
<1>4. Typed'
  BY <1>1, <1>3 DEF Inv, Typed, Label, table, locks
<1>5. OnlyMoves(t) /\ pc'[t] = "bucket" /\ loc'[t] = r
  BY <1>1 DEF Inv, Typed, OnlyMoves
<1>6. ~loc[t].resizing
  BY <1>1 DEF Inv, Knows, KnowsOf
<1>7. Respects(t)
  <2>1. \A b \in Bucket : Holds(t, b)' <=> Holds(t, b)
    BY <1>1, <1>3, <1>5, <1>6 DEF Holds, Working, Looking, Owning
  <2> QED
    BY <1>1, <2>1, LocksKept DEF locks
<1>8. KnowsOf(t)' /\ ResizesOf(t)'
  BY <1>1, <1>2, <1>3, <1>5, <1>6, Bounds
  DEF Inv, Knows, KnowsOf, ResizesOf, Working, Looking, Owning, table
<1> QED
  BY <1>1, <1>4, <1>5, <1>7, <1>8, QuietStep DEF table

LEMMA LoadBucketInv ==
    ASSUME Inv, NEW t \in Threads, LoadBucket(t)
    PROVE  Inv' /\ UNCHANGED <<chain, old_chain>>
<1> DEFINE a == IF Unfinished THEN 2 * table_size ELSE table_size
           r == [loc[t] EXCEPT !.arr = a]
<1>1. /\ pc[t] = "bucket" /\ pc' = [pc EXCEPT ![t] = "mutex"]
      /\ loc' = [loc EXCEPT ![t] = r]
      /\ UNCHANGED <<table, locks, fault>>
  BY DEF LoadBucket, At, Goto
<1>2. a \in 0..MaxTable
  <2>1. CASE Unfinished
    <3>1. PICK u \in Threads : pc[u] = "rinit"
      BY <2>1 DEF Unfinished
    <3>2. 2 * table_size <= MaxTable
      BY <3>1 DEF Inv, Resizes, ResizesOf, Owning
    <3> QED
      BY <2>1, <3>2, Bounds DEF Inv
  <2>2. CASE ~Unfinished
    BY <2>2, Bounds DEF Inv
  <2> QED
    BY <2>1, <2>2
<1> HIDE DEF a
<1>3. /\ r \in Local /\ r.key = loc[t].key /\ r.ts = loc[t].ts
      /\ r.resizing = loc[t].resizing /\ r.mb = loc[t].mb
  BY <1>2, LocalType DEF Inv, Local
<1> HIDE DEF r
<1>4. Typed'
  BY <1>1, <1>3 DEF Inv, Typed, Label, table, locks
<1>5. OnlyMoves(t) /\ pc'[t] = "mutex" /\ loc'[t] = r
  BY <1>1 DEF Inv, Typed, OnlyMoves
<1>6. Respects(t)
  <2>1. \A b \in Bucket : Holds(t, b)' <=> Holds(t, b)
    BY <1>1, <1>3, <1>5 DEF Holds, Working, Looking, Owning
  <2> QED
    BY <1>1, <2>1, LocksKept DEF locks
<1>7. KnowsOf(t)'
  BY <1>1, <1>3, <1>5 DEF Inv, Knows, KnowsOf, Working, Looking, Owning, table
<1>8. ResizesOf(t)'
  BY <1>1, <1>3, <1>5 DEF Inv, Resizes, ResizesOf, Working, Looking, Owning, table
<1> QED
  BY <1>1, <1>4, <1>5, <1>6, <1>7, <1>8, QuietStep DEF table

LEMMA LoadMutexInv ==
    ASSUME Inv, NEW t \in Threads, LoadMutex(t)
    PROVE  Inv' /\ UNCHANGED <<chain, old_chain>>
<1>1. CASE Fault("freed memory") \/ Fault("unfinished bucket")
  BY <1>1, FaultInv DEF Faults, Fault, table
<1>2. CASE ~(Fault("freed memory") \/ Fault("unfinished bucket"))
  <2> DEFINE r == [loc[t] EXCEPT !.arr = 0]
  <2>1. /\ pc[t] = "mutex" /\ pc' = [pc EXCEPT ![t] = "lock"]
        /\ loc' = [loc EXCEPT ![t] = r]
        /\ UNCHANGED <<table, locks, fault>>
    BY <1>2 DEF LoadMutex, At, Goto
  <2>2. /\ r \in Local /\ r.key = loc[t].key /\ r.ts = loc[t].ts
        /\ r.resizing = loc[t].resizing /\ r.mb = loc[t].mb
    <3>1. 0 \in 0..MaxTable
      BY Bounds DEF Inv
    <3>2. PICK z \in 0..MaxTable : z = 0
      BY <3>1
    <3> HIDE <3>1
    <3>3. loc[t] \in Local
      BY LocalType DEF Inv
    <3> QED
      BY <3>2, <3>3 DEF Local
  <2> HIDE DEF r
  <2>3. Typed'
    BY <2>1, <2>2 DEF Inv, Typed, Label, table, locks
  <2>4. OnlyMoves(t) /\ pc'[t] = "lock" /\ loc'[t] = r
    BY <2>1 DEF Inv, Typed, OnlyMoves
  <2>5. Respects(t)
    <3>1. \A b \in Bucket : Holds(t, b)' <=> Holds(t, b)
      BY <2>1, <2>2, <2>4 DEF Holds, Working, Looking, Owning
    <3> QED
      BY <2>1, <3>1, LocksKept DEF locks
  <2>6. KnowsOf(t)'
    BY <2>1, <2>2, <2>4 DEF Inv, Knows, KnowsOf, Working, Looking, Owning, table
  <2>7. ResizesOf(t)'
    BY <2>1, <2>2, <2>4 DEF Inv, Resizes, ResizesOf, Working, Looking, Owning, table
  <2> QED
    BY <2>1, <2>3, <2>4, <2>5, <2>6, <2>7, QuietStep DEF table
<1> QED
  BY <1>1, <1>2

LEMMA LockInv ==
    ASSUME Inv, NEW t \in Threads, Lock(t)
    PROVE  Inv' /\ UNCHANGED <<chain, old_chain>>
<1>1. CASE Fault("destroyed mutex")
  BY <1>1, FaultInv DEF Faults, Fault, table
<1>2. CASE ~Fault("destroyed mutex")
  <2> DEFINE b == loc[t].mb
             more == loc[t].resizing /\ b + 1 < loc[t].ts
             m == IF more THEN b + 1 ELSE b
             l == IF more THEN "bucket" ELSE IF loc[t].resizing THEN "rcheck" ELSE "work"
             r == [loc[t] EXCEPT !.mb = m]
  <2>1. /\ pc[t] = "lock" /\ mtx[b] = NULL
        /\ pc' = [pc EXCEPT ![t] = l] /\ loc' = [loc EXCEPT ![t] = r]
        /\ mtx' = [mtx EXCEPT ![b] = t]
        /\ UNCHANGED <<table, destroyed, freed, fault>>
    BY <1>2 DEF Lock, At, Goto
  <2>2. /\ loc[t].resizing => b < loc[t].ts
        /\ ~loc[t].resizing => b < table_size
        /\ loc[t].ts <= table_size /\ loc[t].key \in Key
        /\ loc[t].resizing => 2 * loc[t].ts <= MaxTable
    BY <2>1 DEF Inv, Knows, KnowsOf, Resizes, ResizesOf, Looking
  <2>3. /\ loc[t] \in Local /\ b \in Nat /\ loc[t].ts \in Nat
        /\ loc[t].resizing \in BOOLEAN
    BY LocalType DEF Inv
  <2>4. b \in Bucket /\ m \in 0..MaxTable
    BY <2>2, <2>3, Bounds DEF Inv, Bucket
  <2>5. /\ more => l = "bucket" /\ m = b + 1 /\ b + 1 < loc[t].ts /\ loc[t].resizing
        /\ ~more /\ loc[t].resizing => l = "rcheck" /\ m = b /\ loc[t].ts = b + 1
        /\ ~loc[t].resizing => ~more /\ l = "work" /\ m = b
    BY <2>2, <2>3
  <2>6. l \in Label
    BY DEF Label, Working, Owning
  <2> HIDE DEF m, l
  <2>7. /\ r \in Local /\ r.key = loc[t].key /\ r.ts = loc[t].ts
        /\ r.resizing = loc[t].resizing /\ r.mb = m
    BY <2>3, <2>4 DEF Local
  <2> HIDE DEF r, b, more
  <2>8. Typed'
    BY <2>1, <2>4, <2>6, <2>7 DEF Inv, Typed, table
  <2>9. OnlyMoves(t) /\ pc'[t] = l /\ loc'[t] = r
    BY <2>1 DEF Inv, Typed, OnlyMoves
  <2>10. \A c \in Bucket : mtx'[c] = IF c = b THEN t ELSE mtx[c]
    BY <2>1 DEF Inv, Typed
  <2>11. ASSUME NEW c \in Bucket
         PROVE  Holds(t, c)' <=> Holds(t, c) \/ c = b
    <3>1. c \in Nat
      BY Bounds DEF Inv
    <3>2. Holds(t, c) <=> loc[t].resizing /\ c < b
      BY <2>1 DEF Holds, Working, Looking, Owning, b
    <3>3. CASE more
      <4>1. Holds(t, c)' <=> c < b + 1
        BY <2>5, <2>7, <2>9, <3>3 DEF Holds, Working, Looking, Owning
      <4> QED
        BY <2>3, <2>5, <3>1, <3>2, <3>3, <4>1 DEF b
    <3>4. CASE ~more /\ loc[t].resizing
      <4>1. Holds(t, c)' <=> c < b + 1
        BY <2>5, <2>7, <2>9, <3>4 DEF Holds, Working, Looking, Owning
      <4> QED
        BY <2>3, <3>1, <3>2, <3>4, <4>1 DEF b
    <3>5. CASE ~loc[t].resizing
      <4>1. Holds(t, c)' <=> c = b
        BY <2>5, <2>7, <2>9, <3>5 DEF Holds, Working, Looking, Owning
      <4> QED
        BY <3>2, <3>5, <4>1
    <3> QED
      BY <3>3, <3>4, <3>5
  <2>12. Respects(t)
    BY <2>1, <2>4, <2>10, <2>11 DEF Inv, Owned, Respects
  <2>13. KnowsOf(t)'
    <3>1. UNCHANGED table_size
      BY <2>1 DEF table
    <3> QED
      BY <2>2, <2>5, <2>7, <2>9, <3>1 DEF KnowsOf, Working, Looking, Owning, b
  <2>14. ResizesOf(t)'
    BY <2>2, <2>3, <2>5, <2>7, <2>9 DEF ResizesOf, Working, Looking, Owning, b
  <2> QED
    BY <2>1, <2>8, <2>9, <2>12, <2>13, <2>14, QuietStep DEF table
<1> QED
  BY <1>1, <1>2

\* A call at work writes only its answer.
LEMMA AnswerInv ==
    ASSUME Inv, NEW t \in Threads, pc[t] = "work", NEW ans \in BOOLEAN, Answer(t, ans),
           chain' \in [Bucket -> SUBSET Key],
           UNCHANGED <<table_size, old_table_size, old_bucket, old_chain, locks, fault>>
    PROVE  Inv' /\ loc'[t].ok = ans
<1> DEFINE r == [loc[t] EXCEPT !.ok = ans]
<1>1. pc' = [pc EXCEPT ![t] = "unlock"] /\ loc' = [loc EXCEPT ![t] = r]
  BY DEF Answer, Goto
<1>2. /\ r \in Local /\ r.key = loc[t].key /\ r.ts = loc[t].ts /\ r.mb = loc[t].mb
      /\ r.resizing = loc[t].resizing /\ r.ok = ans
  BY LocalType DEF Inv, Local
<1> HIDE DEF r
<1>3. Typed'
  BY <1>1, <1>2 DEF Inv, Typed, Label, Working, locks
<1>4. OnlyMoves(t) /\ pc'[t] = "unlock" /\ loc'[t] = r
  BY <1>1 DEF Inv, Typed, OnlyMoves
<1>5. Respects(t)
  <2>1. \A b \in Bucket : Holds(t, b)' <=> Holds(t, b)
    BY <1>2, <1>4 DEF Holds, Working, Looking, Owning
  <2> QED
    BY <2>1, LocksKept DEF locks
<1>6. KnowsOf(t)'
  BY <1>2, <1>4 DEF Inv, Knows, KnowsOf, Working, Looking, Owning
<1>7. ResizesOf(t)'
  BY <1>2, <1>4 DEF Inv, Resizes, ResizesOf, Working, Looking, Owning
<1>8. Inv'
  BY <1>3, <1>4, <1>5, <1>6, <1>7, QuietStep
<1> QED
  BY <1>2, <1>4, <1>8

\* What changes the keys of the table: a call that says so.
Changes(t) ==
    \A k \in Key : (k \in Members) # (k \in Members') =>
        /\ loc[t].key = k /\ pc[t] = "work" /\ loc'[t].ok
        /\ loc[t].op = IF k \in Members THEN "delete" ELSE "add"

LEMMA SameMembers ==
    ASSUME NEW t \in Threads, UNCHANGED <<chain, old_chain>>
    PROVE  Changes(t)
  BY DEF Changes, Members, KeysOf, Bucket

LEMMA AddNodeInv ==
    ASSUME Inv, NEW t \in Threads, AddNode(t)
    PROVE  Inv' /\ Changes(t)
<1> DEFINE k == loc[t].key
           b == loc[t].mb
<1>1. pc[t] = "work" /\ loc[t].op = "add"
      /\ UNCHANGED <<table_size, old_table_size, old_bucket, old_chain, locks, fault>>
  BY DEF AddNode, At
<1>2. CASE UNCHANGED chain /\ Answer(t, FALSE)
  <2>1. Inv'
    BY <1>1, <1>2, AnswerInv DEF Inv, Typed
  <2> QED
    BY <1>1, <1>2, <2>1, SameMembers
<1>3. CASE chain' = [chain EXCEPT ![b] = @ \union {k}] /\ Answer(t, TRUE)
  <2>1. k \in Key
    BY <1>1 DEF Inv, Knows, KnowsOf, Working
  <2>2. chain' \in [Bucket -> SUBSET Key]
    BY <1>3, <2>1 DEF Inv, Typed
  <2>3. Inv' /\ loc'[t].ok
    BY <1>1, <1>3, <2>2, AnswerInv
  <2>4. \A j \in Members : j \in Members'
    BY <1>1, <1>3 DEF Inv, Typed, Members, KeysOf, Bucket
  <2>5. \A j \in Members' : j \in Members \/ j = k
    BY <1>1, <1>3 DEF Inv, Typed, Members, KeysOf, Bucket
  <2> QED
    BY <1>1, <2>3, <2>4, <2>5 DEF Changes
<1> QED
  BY <1>2, <1>3 DEF AddNode

LEMMA DeleteNodeInv ==
    ASSUME Inv, NEW t \in Threads, DeleteNode(t)
    PROVE  Inv' /\ Changes(t)
<1> DEFINE k == loc[t].key
           b == loc[t].mb
<1>1. pc[t] = "work" /\ loc[t].op = "delete"
  BY DEF DeleteNode, At
<1>2. CASE Answer(t, FALSE) /\ UNCHANGED <<table, locks, fault>>
  <2>1. UNCHANGED <<table_size, old_table_size, old_bucket, chain, old_chain>>
    BY <1>2 DEF table
  <2>2. Inv'
    BY <1>1, <1>2, <2>1, AnswerInv DEF Inv, Typed
  <2> QED
    BY <2>1, <2>2, SameMembers
<1>3. CASE /\ chain' = [chain EXCEPT ![b] = @ \ {k}] /\ Answer(t, TRUE)
           /\ UNCHANGED <<table_size, old_table_size, old_bucket, old_chain, locks, fault>>
  <2>1. chain' \in [Bucket -> SUBSET Key]
    BY <1>3 DEF Inv, Typed
  <2>2. Inv' /\ loc'[t].ok
    BY <1>1, <1>3, <2>1, AnswerInv
  <2>3. \A j \in Members : j \in Members' \/ j = k
    BY <1>1, <1>3 DEF Inv, Typed, Members, KeysOf, Bucket
  <2>4. \A j \in Members' : j \in Members
    BY <1>1, <1>3 DEF Inv, Typed, Members, KeysOf, Bucket
  <2> QED
    BY <1>1, <2>2, <2>3, <2>4 DEF Changes
<1>4. CASE Fault("null pointer")
  <2>1. UNCHANGED <<chain, old_chain>>
    BY <1>4 DEF Fault, table
  <2> QED
    BY <1>4, <2>1, FaultInv, SameMembers DEF Faults
<1> QED
  BY <1>2, <1>3, <1>4 DEF DeleteNode

LEMMA FindNodeInv ==
    ASSUME Inv, NEW t \in Threads, FindNode(t)
    PROVE  Inv' /\ UNCHANGED <<chain, old_chain>>
<1> DEFINE ans == loc[t].key \in chain[loc[t].mb]
<1>1. pc[t] = "work" /\ Answer(t, ans) /\ UNCHANGED <<table, locks, fault>>
  BY DEF FindNode, At
<1>2. UNCHANGED <<table_size, old_table_size, old_bucket, chain, old_chain>>
  BY <1>1 DEF table
<1> HIDE DEF ans
<1>3. ans \in BOOLEAN
  BY DEF ans
<1> QED
  BY <1>1, <1>2, <1>3, AnswerInv DEF Inv, Typed

LEMMA UnlockInv ==
    ASSUME Inv, NEW t \in Threads, Unlock(t)
    PROVE  Inv' /\ UNCHANGED <<chain, old_chain>>
<1>0. PICK a \in 0..MaxTable : a = 0
  BY Bounds DEF Inv
<1> DEFINE again == loc[t].op # "find" /\ ~loc[t].ok /\ loc[t].retry > 0
           x == IF again THEN loc[t].retry - 1 ELSE 0
           r == [loc[t] EXCEPT !.retry = x, !.ts = a, !.mb = a]
           l == IF again THEN "size" ELSE IF loc[t].op = "add" THEN "policy" ELSE "ret"
           b == loc[t].mb
<1>1. /\ pc[t] = "unlock" /\ pc' = [pc EXCEPT ![t] = l]
      /\ mtx' = [mtx EXCEPT ![b] = NULL]
      /\ loc' = [loc EXCEPT ![t] = r]
      /\ UNCHANGED <<table, destroyed, freed, fault>>
  BY <1>0 DEF Unlock, At, Goto
<1>2. /\ r \in Local /\ r.key = loc[t].key /\ r.ts = 0
      /\ r.resizing = loc[t].resizing
  <2>1. x \in 0..2
    BY LocalType DEF Inv
  <2>2. loc[t] \in Local
    BY LocalType DEF Inv
  <2> HIDE DEF x
  <2>3. r \in Local
    BY <2>1, <2>2 DEF Local
  <2>4. r.key = loc[t].key /\ r.ts = a /\ r.resizing = loc[t].resizing
    BY <2>2 DEF Local
  <2> QED
    BY <1>0, <2>3, <2>4
<1>3. l \in {"size", "policy", "ret"}
  OBVIOUS
<1>4. ~loc[t].resizing /\ loc[t].key \in Key
  BY <1>1 DEF Inv, Knows, KnowsOf, Working
<1> HIDE DEF r, l, again
<1>5. Typed'
  <2>1. mtx' \in [Bucket -> Threads \union {NULL}]
    BY <1>1 DEF Inv, Typed
  <2> QED
    BY <1>1, <1>2, <1>3, <2>1 DEF Inv, Typed, Label, table
<1>6. OnlyMoves(t) /\ pc'[t] = l /\ loc'[t] = r
  BY <1>1 DEF Inv, Typed, OnlyMoves
<1>7. Respects(t)
  <2>1. \A c \in Bucket : ~Holds(t, c)'
    BY <1>3, <1>6 DEF Holds, Working, Looking, Owning
  <2>2. \A c \in Bucket : Holds(t, c) <=> c = b
    BY <1>1 DEF Holds, Working, Looking, Owning
  <2>3. \A c \in Bucket : mtx'[c] = IF c = b THEN NULL ELSE mtx[c]
    BY <1>1 DEF Inv, Typed
  <2>4. NULL \notin Threads
    BY RefinableAssumption
  <2> QED
    BY <2>1, <2>2, <2>3, <2>4 DEF Inv, Owned, Respects
<1>8. KnowsOf(t)' /\ ResizesOf(t)'
  BY <1>1, <1>2, <1>3, <1>4, <1>6, Bounds
  DEF Inv, KnowsOf, ResizesOf, Working, Looking, Owning, table
<1> QED
  BY <1>1, <1>5, <1>6, <1>7, <1>8, QuietStep DEF table

LEMMA ReturnInv ==
    ASSUME Inv, NEW t \in Threads, Return(t)
    PROVE  Inv' /\ UNCHANGED <<chain, old_chain>>
<1>1. /\ pc[t] = "ret" /\ pc' = [pc EXCEPT ![t] = "idle"]
      /\ loc' = [loc EXCEPT ![t] = NoLocals]
      /\ UNCHANGED <<table, locks, fault>>
  BY DEF Return, At, Goto
<1>2. NoLocals \in Local /\ NoLocals.ts = 0
  <2>1. 0 \in 0..MaxTable
    BY Bounds DEF Inv
  <2> QED
    BY <2>1 DEF NoLocals, Local
<1>3. Typed'
  BY <1>1, <1>2 DEF Inv, Typed, Label, table, locks
<1>4. OnlyMoves(t) /\ pc'[t] = "idle" /\ loc'[t] = NoLocals
  BY <1>1 DEF Inv, Typed, OnlyMoves
<1>5. Respects(t)
  <2>1. \A b \in Bucket : Holds(t, b)' <=> Holds(t, b)
    BY <1>1, <1>4 DEF Holds, Working, Looking, Owning
  <2> QED
    BY <1>1, <2>1, LocksKept DEF locks
<1>6. KnowsOf(t)' /\ ResizesOf(t)'
  BY <1>1, <1>2, <1>4, Bounds
  DEF Inv, KnowsOf, ResizesOf, Working, Looking, Owning, table
<1> QED
  BY <1>1, <1>3, <1>4, <1>5, <1>6, QuietStep DEF table
-----------------------------------------------------------------------------
(* The steps of policy and resize *)

LEMMA PolicyInv ==
    ASSUME Inv, NEW t \in Threads, Policy(t)
    PROVE  Inv' /\ UNCHANGED <<chain, old_chain>>
<1>1. PICK l \in {"ret", "rsize"} :
          /\ pc[t] = "policy" /\ pc' = [pc EXCEPT ![t] = l]
          /\ UNCHANGED <<table, locks, fault, loc>>
  BY DEF Policy, At, Goto
<1>2. Typed'
  BY <1>1 DEF Inv, Typed, Label, table, locks
<1>3. OnlyMoves(t) /\ pc'[t] = l /\ loc' = loc
  BY <1>1 DEF Inv, Typed, OnlyMoves
<1>4. Respects(t)
  <2>1. \A b \in Bucket : Holds(t, b)' <=> Holds(t, b)
    BY <1>1, <1>3 DEF Holds, Working, Looking, Owning
  <2> QED
    BY <1>1, <2>1, LocksKept DEF locks
<1>5. KnowsOf(t)' /\ ResizesOf(t)'
  BY <1>1, <1>3 DEF Inv, Knows, KnowsOf, ResizesOf, Working, Looking, Owning, table
<1> QED
  BY <1>1, <1>2, <1>3, <1>4, <1>5, QuietStep DEF table

LEMMA ResizeReadInv ==
    ASSUME Inv, NEW t \in Threads, ResizeRead(t)
    PROVE  Inv' /\ UNCHANGED <<chain, old_chain>>
<1>1. pc[t] = "rsize" /\ UNCHANGED <<table, locks, fault>>
  BY DEF ResizeRead, At
<1>2. loc[t].key \in Key /\ loc[t].ts <= table_size
  BY <1>1 DEF Inv, Knows, KnowsOf
<1>3. CASE 2 * table_size <= MaxTable
  <2>0. PICK a \in 0..MaxTable : a = 0
    BY Bounds DEF Inv
  <2>1. PICK n \in 0..MaxTable : n = table_size
    BY Bounds DEF Inv
  <2> DEFINE r == [loc[t] EXCEPT !.ts = n, !.mb = a, !.resizing = TRUE]
  <2>2. pc' = [pc EXCEPT ![t] = "bucket"] /\ loc' = [loc EXCEPT ![t] = r]
    <3>1. /\ pc' = [pc EXCEPT ![t] = "bucket"]
          /\ loc' = [loc EXCEPT ![t].ts = n, ![t].mb = a, ![t].resizing = TRUE]
      BY <1>3, <2>0, <2>1, Bounds DEF ResizeRead, Goto, Inv
    <3> QED
      BY <3>1 DEF Inv, Typed
  <2>3. /\ r \in Local /\ r.key = loc[t].key /\ r.ts = table_size /\ r.mb = 0
        /\ r.resizing = TRUE
    <3>1. loc[t] \in Local
      BY LocalType DEF Inv
    <3>2. r \in Local /\ r.key = loc[t].key /\ r.ts = n /\ r.mb = a /\ r.resizing = TRUE
      BY <3>1 DEF Local
    <3> QED
      BY <2>0, <2>1, <3>2
  <2> HIDE DEF r
  <2>4. Typed'
    BY <1>1, <2>2, <2>3 DEF Inv, Typed, Label, table, locks
  <2>5. OnlyMoves(t) /\ pc'[t] = "bucket" /\ loc'[t] = r
    BY <2>2 DEF Inv, Typed, OnlyMoves
  <2>6. Respects(t)
    <3>1. \A b \in Bucket : ~Holds(t, b)' /\ ~Holds(t, b)
      BY <1>1, <2>3, <2>5, Bounds DEF Inv, Holds, Working, Looking, Owning
    <3> QED
      BY <1>1, <3>1, LocksKept DEF locks
  <2>7. KnowsOf(t)' /\ ResizesOf(t)'
    BY <1>1, <1>2, <1>3, <2>3, <2>5, Bounds
    DEF Inv, KnowsOf, ResizesOf, Working, Looking, Owning, table
  <2> QED
    BY <1>1, <2>4, <2>5, <2>6, <2>7, QuietStep DEF table
<1>4. CASE ~(2 * table_size <= MaxTable)
  <2>1. pc' = [pc EXCEPT ![t] = "ret"] /\ loc' = loc
    BY <1>4 DEF ResizeRead, Goto
  <2>2. Typed'
    BY <1>1, <2>1 DEF Inv, Typed, Label, table, locks
  <2>3. OnlyMoves(t) /\ pc'[t] = "ret"
    BY <2>1 DEF Inv, Typed, OnlyMoves
  <2>4. Respects(t)
    <3>1. \A b \in Bucket : ~Holds(t, b)' /\ ~Holds(t, b)
      BY <1>1, <2>3 DEF Inv, Holds, Working, Looking, Owning
    <3> QED
      BY <1>1, <3>1, LocksKept DEF locks
  <2>5. KnowsOf(t)' /\ ResizesOf(t)'
    BY <1>1, <1>2, <2>1, <2>3
    DEF Inv, KnowsOf, ResizesOf, Working, Looking, Owning, table
  <2> QED
    BY <1>1, <2>2, <2>3, <2>4, <2>5, QuietStep DEF table
<1> QED
  BY <1>3, <1>4

LEMMA ResizeCheckInv ==
    ASSUME Inv, NEW t \in Threads, ResizeCheck(t)
    PROVE  Inv' /\ UNCHANGED <<chain, old_chain>>
<1>0. PICK a \in 0..MaxTable : a = 0
  BY Bounds DEF Inv
<1> DEFINE r == [loc[t] EXCEPT !.mb = a]
           l == IF Stale(t) THEN "rquit" ELSE "rsave"
<1>1. /\ pc[t] = "rcheck" /\ pc' = [pc EXCEPT ![t] = l]
      /\ loc' = [loc EXCEPT ![t] = r]
      /\ UNCHANGED <<table, locks, fault>>
  BY <1>0 DEF ResizeCheck, At, Goto
<1>2. /\ r \in Local /\ r.key = loc[t].key /\ r.ts = loc[t].ts
      /\ r.resizing = loc[t].resizing /\ r.mb = 0
  BY <1>0, LocalType DEF Inv, Local
<1>3. l \in {"rquit", "rsave"} /\ (l = "rsave" => loc[t].ts = table_size)
  BY DEF Stale
<1> HIDE DEF r, l
<1>4. /\ loc[t].key \in Key /\ loc[t].resizing /\ loc[t].ts <= table_size
      /\ loc[t].ts > 0 /\ 2 * loc[t].ts <= MaxTable
  BY <1>1 DEF Inv, Knows, KnowsOf, Resizes, ResizesOf, Owning
<1>5. Typed'
  BY <1>1, <1>2, <1>3 DEF Inv, Typed, Label, Owning, table, locks
<1>6. OnlyMoves(t) /\ pc'[t] = l /\ loc'[t] = r
  BY <1>1 DEF Inv, Typed, OnlyMoves
<1>7. Respects(t)
  <2>1. ASSUME NEW b \in Bucket
        PROVE  Holds(t, b)' <=> Holds(t, b)
    <3>1. b \in Nat
      BY Bounds DEF Inv
    <3>2. Holds(t, b) <=> b < loc[t].ts
      BY <1>1 DEF Holds, Working, Looking, Owning
    <3>3. Holds(t, b)' <=> b < loc[t].ts
      BY <1>2, <1>3, <1>6, <3>1 DEF Holds, Working, Looking, Owning
    <3> QED
      BY <3>2, <3>3
  <2> QED
    BY <1>1, <2>1, LocksKept DEF locks
<1>8. KnowsOf(t)' /\ ResizesOf(t)'
  BY <1>1, <1>2, <1>3, <1>4, <1>6
  DEF Inv, KnowsOf, ResizesOf, Working, Looking, Owning, table
<1> QED
  BY <1>1, <1>5, <1>6, <1>7, <1>8, QuietStep DEF table

LEMMA ResizeUnlockInv ==
    ASSUME Inv, NEW t \in Threads, ResizeUnlock(t)
    PROVE  Inv' /\ UNCHANGED <<chain, old_chain>>
<1> DEFINE i == loc[t].mb
           last == IF pc[t] = "rquit" THEN loc[t].ts ELSE old_table_size
<1>1. pc[t] \in {"runlock", "rquit"}
  BY DEF ResizeUnlock, At
<1>2. /\ i \in Nat /\ i \in 0..MaxTable /\ loc[t].ts \in Nat /\ loc[t].ts <= table_size
      /\ loc[t] \in Local /\ loc[t].resizing /\ loc[t].key \in Key
      /\ pc[t] = "runlock" /\ i < loc[t].ts => loc[t].ts = old_table_size
      /\ pc[t] = "runlock" => old_bucket > 0
  BY <1>1, LocalType DEF Inv, Knows, KnowsOf, Resizes, ResizesOf
<1>3. last \in Nat /\ last <= MaxTable
  BY <1>2, Bounds DEF Inv
<1>4. CASE Fault("mutex of another thread")
  BY <1>4, FaultInv DEF Faults, Fault, table
<1>5. CASE /\ i < last /\ mtx[i] = t
           /\ mtx' = [mtx EXCEPT ![i] = NULL]
           /\ loc' = [loc EXCEPT ![t].mb = i + 1]
           /\ UNCHANGED <<table, destroyed, freed, fault, pc>>
  <2> DEFINE r == [loc[t] EXCEPT !.mb = i + 1]
  <2>1. i \in Bucket /\ i + 1 \in 0..MaxTable
    <3>1. MaxTable \in Nat
      BY Bounds DEF Inv
    <3>2. i < last
      BY <1>5
    <3> HIDE DEF i, last
    <3> QED
      BY <1>2, <1>3, <3>1, <3>2 DEF Bucket
  <2>2. /\ r \in Local /\ r.key = loc[t].key /\ r.ts = loc[t].ts
        /\ r.resizing = loc[t].resizing /\ r.mb = i + 1
    BY <1>2, <2>1 DEF Local
  <2>3. loc' = [loc EXCEPT ![t] = r]
    BY <1>5 DEF Inv, Typed
  <2> HIDE DEF r
  <2>4. Typed'
    <3>1. mtx' \in [Bucket -> Threads \union {NULL}]
      BY <1>5 DEF Inv, Typed
    <3> QED
      BY <1>5, <2>2, <2>3, <3>1 DEF Inv, Typed, table
  <2>5. OnlyMoves(t) /\ pc' = pc /\ loc'[t] = r
    BY <1>5, <2>3 DEF Inv, Typed, OnlyMoves
  <2>6. i < loc[t].ts
    <3>1. Holds(t, i)
      BY <1>5, <2>1 DEF Inv, Owned
    <3> QED
      BY <1>1, <3>1 DEF Holds, Working, Looking, Owning
  <2>7. Respects(t)
    <3>1. ASSUME NEW b \in Bucket
          PROVE  Holds(t, b)' <=> Holds(t, b) /\ b # i
      <4>1. b \in Nat
        BY Bounds DEF Inv
      <4>2. Holds(t, b) <=> i <= b /\ b < loc[t].ts
        BY <1>1 DEF Holds, Working, Looking, Owning
      <4>3. Holds(t, b)' <=> i + 1 <= b /\ b < loc[t].ts
        BY <1>1, <2>2, <2>5 DEF Holds, Working, Looking, Owning
      <4> QED
        BY <1>2, <4>1, <4>2, <4>3
    <3>2. \A b \in Bucket : mtx'[b] = IF b = i THEN NULL ELSE mtx[b]
      BY <1>5 DEF Inv, Typed
    <3>3. NULL \notin Threads
      BY RefinableAssumption
    <3> HIDE DEF i
    <3> QED
      BY <1>5, <3>1, <3>2, <3>3 DEF Inv, Owned, Respects
  <2>8. KnowsOf(t)' /\ ResizesOf(t)'
    BY <1>1, <1>2, <1>5, <2>2, <2>5, <2>6
    DEF KnowsOf, ResizesOf, Working, Looking, Owning, table
  <2> QED
    BY <1>1, <1>5, <2>4, <2>5, <2>7, <2>8, QuietStep DEF table
<1>6. CASE /\ i >= last
           /\ Goto(t, IF pc[t] = "rquit" THEN "ret" ELSE "rfree")
           /\ UNCHANGED <<table, locks, fault, loc>>
  <2> DEFINE l == IF pc[t] = "rquit" THEN "ret" ELSE "rfree"
  <2>1. l \in {"ret", "rfree"} /\ (l = "rfree" => pc[t] = "runlock")
    BY <1>1
  <2>2. pc' = [pc EXCEPT ![t] = l]
    BY <1>6 DEF Goto
  <2>3. ~(i < loc[t].ts)
    BY <1>1, <1>2, <1>6, Bounds DEF Inv
  <2> HIDE DEF l
  <2>4. Typed'
    BY <1>6, <2>1, <2>2 DEF Inv, Typed, Label, table, locks
  <2>5. OnlyMoves(t) /\ pc'[t] = l
    BY <1>6, <2>2 DEF Inv, Typed, OnlyMoves
  <2>6. Respects(t)
    <3>1. ASSUME NEW b \in Bucket
          PROVE  ~Holds(t, b)' /\ ~Holds(t, b)
      <4>1. b \in Nat
        BY Bounds DEF Inv
      <4>2. ~(i <= b /\ b < loc[t].ts)
        BY <1>2, <2>3, <4>1
      <4> QED
        BY <1>1, <2>1, <2>5, <4>2 DEF Holds, Working, Looking, Owning
    <3> QED
      BY <1>6, <3>1, LocksKept DEF locks
  <2>7. KnowsOf(t)' /\ ResizesOf(t)'
    BY <1>2, <1>6, <2>1, <2>5 DEF KnowsOf, ResizesOf, Working, Looking, Owning, table
  <2> QED
    BY <1>1, <1>6, <2>4, <2>5, <2>6, <2>7, QuietStep DEF table
<1> QED
  BY <1>4, <1>5, <1>6 DEF ResizeUnlock

\* One of the two arguments of free_bucket is loaded.
LEMMA LoadOldInv ==
    ASSUME Inv, NEW t \in Threads, LoadOldBucket(t) \/ LoadOldSize(t)
    PROVE  Inv' /\ UNCHANGED <<chain, old_chain>>
<1>1. PICK l \in {"rfree_b", "rfree_s", "free"} : pc' = [pc EXCEPT ![t] = l]
  BY DEF LoadOldBucket, LoadOldSize, Goto
<1>2. pc[t] \in {"rfree", "rfree_b", "rfree_s"} /\ UNCHANGED <<table, locks, fault>>
  BY DEF LoadOldBucket, LoadOldSize, At
<1>3. PICK r \in Local :
          /\ loc' = [loc EXCEPT ![t] = r] /\ r.key = loc[t].key /\ r.ts = loc[t].ts
          /\ l = "rfree_b" => old_bucket > 0
          /\ l \in {"rfree_s", "free"} => r.fb > 0
  <2>1. loc[t] \in Local /\ old_bucket \in 0..MaxTable /\ old_table_size \in 0..MaxTable
    BY LocalType DEF Inv, Typed
  <2>2. /\ pc[t] \in {"rfree", "rfree_b"} => old_bucket > 0
        /\ pc[t] = "rfree_s" => loc[t].fb > 0
    BY DEF Inv, Resizes, ResizesOf
  <2>3. CASE LoadOldBucket(t)
    <3> DEFINE r == [loc[t] EXCEPT !.fb = old_bucket]
    <3>1. r \in Local /\ r.key = loc[t].key /\ r.ts = loc[t].ts /\ r.fb = old_bucket
      BY <2>1 DEF Local
    <3>2. loc' = [loc EXCEPT ![t] = r] /\ pc[t] \in {"rfree", "rfree_b"}
      BY <2>3 DEF LoadOldBucket, At
    <3> HIDE DEF r
    <3> QED
      BY <2>2, <3>1, <3>2
  <2>4. CASE LoadOldSize(t)
    <3> DEFINE r == [loc[t] EXCEPT !.fs = old_table_size]
    <3>1. r \in Local /\ r.key = loc[t].key /\ r.ts = loc[t].ts /\ r.fb = loc[t].fb
      BY <2>1 DEF Local
    <3>2. loc' = [loc EXCEPT ![t] = r] /\ pc[t] \in {"rfree", "rfree_s"}
      BY <2>4 DEF LoadOldSize, At
    <3>3. l = IF pc[t] = "rfree" THEN "rfree_b" ELSE "free"
      <4>1. pc'[t] = l /\ pc'[t] = IF pc[t] = "rfree" THEN "rfree_b" ELSE "free"
        BY <1>1, <2>4 DEF LoadOldSize, Goto, Inv, Typed
      <4> QED
        BY <4>1
    <3> HIDE DEF r
    <3> QED
      BY <2>2, <3>1, <3>2, <3>3
  <2> QED
    BY <2>3, <2>4
<1>4. Typed'
  BY <1>1, <1>2, <1>3 DEF Inv, Typed, Label, table, locks
<1>5. OnlyMoves(t) /\ pc'[t] = l /\ loc'[t] = r
  BY <1>1, <1>3 DEF Inv, Typed, OnlyMoves
<1>6. Respects(t)
  <2>1. \A b \in Bucket : ~Holds(t, b)' /\ ~Holds(t, b)
    BY <1>2, <1>5 DEF Holds, Working, Looking, Owning
  <2> QED
    BY <1>2, <2>1, LocksKept DEF locks
<1>7. KnowsOf(t)'
  BY <1>2, <1>3, <1>5 DEF Inv, Knows, KnowsOf, Working, Looking, Owning, table
<1>8. ResizesOf(t)'
  BY <1>2, <1>3, <1>5 DEF ResizesOf, Working, Looking, Owning, table
<1> QED
  BY <1>2, <1>4, <1>5, <1>6, <1>7, <1>8, QuietStep DEF table

LEMMA FreeOldInv ==
    ASSUME Inv, NEW t \in Threads, FreeOld(t)
    PROVE  Inv' /\ UNCHANGED <<chain, old_chain>>
<1>1. CASE Fault("freed memory") \/ Fault("past the array")
  BY <1>1, FaultInv DEF Faults, Fault, table
<1>2. CASE ~(Fault("freed memory") \/ Fault("past the array"))
  <2>1. /\ pc[t] = "free" /\ pc' = [pc EXCEPT ![t] = "ret"]
        /\ freed' = freed \union {loc[t].fb}
        /\ destroyed' = destroyed \union {b \in 0..(loc[t].fs - 1) : mtx[b] = NULL}
        /\ UNCHANGED <<table, mtx, fault, loc>>
    BY <1>2 DEF FreeOld, At, Goto
  <2>2. /\ loc[t].fb > 0 /\ loc[t].fb \in 0..MaxTable /\ loc[t].fs \in 0..MaxTable
        /\ loc[t].key \in Key /\ loc[t].ts <= table_size
    BY <2>1, LocalType DEF Inv, Knows, KnowsOf, Resizes, ResizesOf
  <2>3. Typed'
    <3>1. freed' \subseteq 1..MaxTable
      <4>1. loc[t].fb \in 1..MaxTable
        BY <2>2, Bounds DEF Inv
      <4> QED
        BY <2>1, <4>1 DEF Inv, Typed
    <3>2. destroyed' \subseteq Bucket
      <4>1. 0..(loc[t].fs - 1) \subseteq Bucket
        BY <2>2, Bounds DEF Inv, Bucket
      <4>2. destroyed \subseteq Bucket
        BY DEF Inv, Typed
      <4> QED
        BY <2>1, <4>1, <4>2
    <3> QED
      BY <2>1, <3>1, <3>2 DEF Inv, Typed, Label, table
  <2>4. OnlyMoves(t) /\ pc'[t] = "ret"
    BY <2>1 DEF Inv, Typed, OnlyMoves
  <2>5. Respects(t)
    <3>1. \A b \in Bucket : ~Holds(t, b)' /\ ~Holds(t, b)
      BY <2>1, <2>4 DEF Holds, Working, Looking, Owning
    <3> QED
      BY <2>1, <3>1, LocksKept
  <2>6. KnowsOf(t)' /\ ResizesOf(t)'
    BY <2>1, <2>2, <2>4 DEF KnowsOf, ResizesOf, Working, Looking, Owning, table
  <2> QED
    BY <2>1, <2>3, <2>4, <2>5, <2>6, QuietStep DEF table
<1> QED
  BY <1>1, <1>2

\* A resize that owns the whole table has no predecessor with mutexes to give up.
LEMMA OwnerDone ==
    ASSUME Inv, NEW t \in Threads, pc[t] \in Owning, loc[t].ts = table_size,
           NEW u \in Threads, u # t
    PROVE  pc[u] \notin Owning /\ ~(pc[u] = "runlock" /\ loc[u].mb < loc[u].ts)
<1>1. /\ pc[u] \notin Owning
      /\ pc[u] = "runlock" /\ loc[u].mb < loc[u].ts => loc[u].mb >= loc[t].ts
  BY OwnerAlone
<1>2. loc[u].ts <= table_size /\ loc[u].ts \in Nat /\ loc[u].mb \in Nat
  BY LocalType DEF Inv, Knows, KnowsOf
<1> QED
  BY <1>1, <1>2, Bounds DEF Inv

LEMMA ResizeSaveInv ==
    ASSUME Inv, NEW t \in Threads, ResizeSave(t)
    PROVE  Inv' /\ UNCHANGED <<chain, old_chain>>
<1>1. /\ pc[t] = "rsave" /\ pc' = [pc EXCEPT ![t] = "rswap"]
      /\ old_table_size' = table_size
      /\ UNCHANGED <<table_size, old_bucket, chain, old_chain, locks, fault, loc>>
  BY DEF ResizeSave, At, Goto
<1>2. /\ loc[t].ts = table_size /\ loc[t].mb = 0 /\ loc[t].ts > 0
      /\ 2 * loc[t].ts <= MaxTable /\ loc[t].key \in Key /\ loc[t].resizing
  BY <1>1 DEF Inv, Knows, KnowsOf, Resizes, ResizesOf, Owning
<1>3. ASSUME NEW u \in Threads, u # t
      PROVE  pc[u] \notin Owning /\ ~(pc[u] = "runlock" /\ loc[u].mb < loc[u].ts)
  BY <1>1, <1>2, <1>3, OwnerDone DEF Owning
<1>4. OnlyMoves(t) /\ pc'[t] = "rswap"
  BY <1>1 DEF Inv, Typed, OnlyMoves
<1>5. Typed'
  <2>1. table_size \in 0..MaxTable
    BY Bounds DEF Inv
  <2> QED
    BY <1>1, <2>1 DEF Inv, Typed, Label, Owning, locks
<1>6. Owned'
  <2>1. Respects(t)
    <3>1. \A b \in Bucket : Holds(t, b)' <=> Holds(t, b)
      BY <1>1, <1>4 DEF Holds, Working, Looking, Owning
    <3> QED
      BY <1>1, <3>1, LocksKept DEF locks
  <2> QED
    BY <1>4, <2>1, RespectfulStep
<1>7. ASSUME NEW u \in Threads
      PROVE  KnowsOf(u)' /\ ResizesOf(u)'
  <2>1. CASE u = t
    <3>1. table_size \in Nat
      BY Bounds DEF Inv
    <3>2. KnowsOf(t)'
      BY <1>1, <1>2, <1>4, <3>1 DEF KnowsOf, Working, Looking, Owning
    <3>3. ResizesOf(t)'
      BY <1>1, <1>2, <1>4, <3>1 DEF ResizesOf, Working, Looking, Owning
    <3> QED
      BY <2>1, <3>2, <3>3
  <2>2. CASE u # t
    <3>1. KnowsOf(u) /\ ResizesOf(u)
      BY DEF Inv, Knows, Resizes
    <3>2. KnowsOf(u)'
      BY <1>1, <1>4, <2>2, <3>1 DEF OnlyMoves, KnowsOf
    <3>3. ResizesOf(u)'
      BY <1>1, <1>3, <1>4, <2>2, <3>1 DEF OnlyMoves, ResizesOf, Owning
    <3> QED
      BY <3>2, <3>3
  <2> QED
    BY <2>1, <2>2
<1>8. OldEmpty'
  <2>1. \A u \in Threads : pc[u] \notin {"rinit", "rehash"}
    BY <1>1, <1>3 DEF Owning
  <2> QED
    BY <1>1, <2>1 DEF Inv, OldEmpty, Nothing, Bucket
<1> QED
  BY <1>1, <1>5, <1>6, <1>7, <1>8 DEF Inv, Knows, Resizes

LEMMA ResizeSwapInv ==
    ASSUME Inv, NEW t \in Threads, ResizeSwap(t)
    PROVE  Inv' /\ Changes(t)
<1>1. CASE Fault("no table")
  <2>1. UNCHANGED <<chain, old_chain>>
    BY <1>1 DEF Fault, table
  <2> QED
    BY <1>1, <2>1, FaultInv, SameMembers DEF Faults
<1>2. CASE ~Fault("no table")
  <2>1. /\ pc[t] = "rswap" /\ pc' = [pc EXCEPT ![t] = "rinit"]
        /\ old_bucket' = table_size
        /\ old_chain' = chain /\ chain' = Nothing
        /\ UNCHANGED <<table_size, old_table_size, locks, fault, loc>>
    BY <1>2 DEF ResizeSwap, At, Goto
  <2>2. /\ loc[t].ts = table_size /\ loc[t].mb = 0 /\ loc[t].ts > 0
        /\ 2 * loc[t].ts <= MaxTable /\ loc[t].key \in Key /\ loc[t].resizing
        /\ loc[t].ts = old_table_size
    BY <2>1 DEF Inv, Knows, KnowsOf, Resizes, ResizesOf, Owning
  <2>3. ASSUME NEW u \in Threads, u # t
        PROVE  pc[u] \notin Owning
    BY <2>1, <2>3, OwnerAlone DEF Owning
  <2>4. OnlyMoves(t) /\ pc'[t] = "rinit"
    BY <2>1 DEF Inv, Typed, OnlyMoves
  <2>5. Typed'
    <3>1. Nothing \in [Bucket -> SUBSET Key]
      BY DEF Nothing
    <3>2. table_size \in 0..MaxTable
      BY Bounds DEF Inv
    <3> QED
      BY <2>1, <3>1, <3>2 DEF Inv, Typed, Label, Owning, locks
  <2>6. Owned'
    <3>1. Respects(t)
      <4>1. \A b \in Bucket : Holds(t, b)' <=> Holds(t, b)
        BY <2>1, <2>4 DEF Holds, Working, Looking, Owning
      <4> QED
        BY <2>1, <4>1, LocksKept DEF locks
    <3> QED
      BY <2>4, <3>1, RespectfulStep
  <2>7. ASSUME NEW u \in Threads
        PROVE  KnowsOf(u)' /\ ResizesOf(u)'
    <3>1. CASE u = t
      <4>1. table_size \in Nat
        BY Bounds DEF Inv
      <4>2. KnowsOf(t)'
        BY <2>1, <2>2, <2>4, <4>1 DEF KnowsOf, Working, Looking, Owning
      <4>3. ResizesOf(t)'
        BY <2>1, <2>2, <2>4, <4>1 DEF ResizesOf, Working, Looking, Owning
      <4> QED
        BY <3>1, <4>2, <4>3
    <3>2. CASE u # t
      <4>1. KnowsOf(u) /\ ResizesOf(u)
        BY DEF Inv, Knows, Resizes
      <4>2. KnowsOf(u)'
        BY <2>1, <2>4, <3>2, <4>1 DEF OnlyMoves, KnowsOf
      <4>3. ResizesOf(u)'
        BY <2>1, <2>3, <2>4, <3>2, <4>1, Bounds DEF Inv, OnlyMoves, ResizesOf, Owning
      <4> QED
        BY <4>2, <4>3
    <3> QED
      BY <3>1, <3>2
  <2>8. OldEmpty'
    BY <2>4 DEF OldEmpty
  <2>9. old_chain = Nothing
    BY <2>1, <2>3 DEF Inv, OldEmpty, Owning
  <2>10. Changes(t)
    <3>1. KeysOf(Nothing) = {}
      BY DEF KeysOf, Nothing
    <3>2. KeysOf(chain)' = {} /\ KeysOf(old_chain)' = KeysOf(chain) /\ KeysOf(old_chain) = {}
      BY <2>1, <2>9, <3>1 DEF KeysOf, Bucket
    <3> QED
      BY <3>2 DEF Changes, Members
  <2> QED
    BY <2>5, <2>6, <2>7, <2>8, <2>10 DEF Inv, Knows, Resizes
<1> QED
  BY <1>1, <1>2

LEMMA ResizeDoubleInv ==
    ASSUME Inv, NEW t \in Threads, ResizeDouble(t)
    PROVE  Inv' /\ UNCHANGED <<chain, old_chain>>
<1>1. /\ pc[t] = "rinit" /\ pc' = [pc EXCEPT ![t] = "rehash"]
      /\ table_size' = 2 * table_size
      /\ UNCHANGED <<old_table_size, old_bucket, chain, old_chain, locks, fault, loc>>
  BY DEF ResizeDouble, At, Goto
<1>2. /\ loc[t].ts = table_size /\ loc[t].ts = old_table_size /\ loc[t].ts > 0 /\ old_bucket > 0
      /\ loc[t].mb = 0 /\ 2 * loc[t].ts <= MaxTable /\ loc[t].key \in Key /\ loc[t].resizing
  BY <1>1 DEF Inv, Knows, KnowsOf, Resizes, ResizesOf, Owning
<1>3. /\ table_size \in Nat /\ table_size' \in Nat /\ table_size <= table_size'
      /\ table_size' \in FirstSize..MaxTable
  <2>1. FirstSize \in Nat /\ FirstSize <= table_size /\ table_size \in Nat /\ MaxTable \in Nat
    BY RefinableAssumption DEF Inv, Typed
  <2> QED
    BY <1>1, <1>2, <2>1
<1>4. OnlyMoves(t) /\ pc'[t] = "rehash"
  BY <1>1 DEF Inv, Typed, OnlyMoves
<1>5. Typed'
  BY <1>1, <1>3 DEF Inv, Typed, Label, Owning, locks
<1>6. Owned'
  <2>1. Respects(t)
    <3>1. \A b \in Bucket : Holds(t, b)' <=> Holds(t, b)
      BY <1>1, <1>4 DEF Holds, Working, Looking, Owning
    <3> QED
      BY <1>1, <3>1, LocksKept DEF locks
  <2> QED
    BY <1>4, <2>1, RespectfulStep
<1>7. ASSUME NEW u \in Threads
      PROVE  KnowsOf(u)' /\ ResizesOf(u)'
  <2>1. CASE u = t
    <3>1. KnowsOf(t)'
      BY <1>1, <1>2, <1>3, <1>4 DEF KnowsOf, Working, Looking, Owning
    <3>2. ResizesOf(t)'
      BY <1>1, <1>2, <1>4 DEF ResizesOf, Working, Looking, Owning
    <3> QED
      BY <2>1, <3>1, <3>2
  <2>2. CASE u # t
    <3>1. KnowsOf(u) /\ ResizesOf(u) /\ loc[u].ts \in Nat /\ loc[u].mb \in Nat
      BY LocalType DEF Inv, Knows, Resizes
    <3>2. pc[u] \notin Owning
      BY <1>1, <2>2, OwnerAlone DEF Owning
    <3>3. KnowsOf(u)'
      BY <1>1, <1>3, <1>4, <2>2, <3>1 DEF OnlyMoves, KnowsOf
    <3>4. ResizesOf(u)'
      BY <1>1, <1>4, <2>2, <3>1, <3>2 DEF OnlyMoves, ResizesOf, Owning
    <3> QED
      BY <3>3, <3>4
  <2> QED
    BY <2>1, <2>2
<1>8. OldEmpty'
  BY <1>4 DEF OldEmpty
<1> QED
  BY <1>1, <1>5, <1>6, <1>7, <1>8 DEF Inv, Knows, Resizes

\* The next node to move is in the old array.
LEMMA NextKeyIsOld ==
    ASSUME Typed, Left # {}
    PROVE  Min(Left) \in Bucket /\ NextKey \in old_chain[Min(Left)] /\ NextKey \in Key
<1>1. Left \in SUBSET Nat
  BY Bounds DEF Left
<1>2. Min(Left) \in Left
  BY <1>1, LeastOf
<1>3. old_chain[Min(Left)] \in SUBSET Key /\ old_chain[Min(Left)] # {} /\ Min(Left) \in Bucket
  BY <1>2 DEF Left, Typed
<1>4. old_chain[Min(Left)] \in SUBSET Nat
  <2>1. \A k \in Key : k \in Nat
    BY RefinableAssumption
  <2> QED
    BY <1>3, <2>1
<1>5. NextKey \in old_chain[Min(Left)]
  BY <1>3, <1>4, LeastOf DEF NextKey
<1> QED
  BY <1>3, <1>5

LEMMA RehashNodeInv ==
    ASSUME Inv, NEW t \in Threads, RehashNode(t)
    PROVE  Inv' /\ Changes(t)
<1>1. pc[t] = "rehash"
  BY DEF RehashNode, At
<1>2. /\ loc[t].ts = old_table_size /\ loc[t].ts > 0 /\ loc[t].ts \in Nat
      /\ loc[t].mb = 0 /\ loc[t].key \in Key /\ loc[t].resizing /\ loc[t].ts <= table_size
      /\ old_bucket > 0
  BY <1>1, LocalType DEF Inv, Knows, KnowsOf, Resizes, ResizesOf, Owning
<1>3. CASE Left = {} /\ Goto(t, "runlock") /\ UNCHANGED <<table, locks, fault, loc>>
  <2>1. pc' = [pc EXCEPT ![t] = "runlock"]
        /\ UNCHANGED <<table_size, old_table_size, old_bucket, chain, old_chain>>
    BY <1>3 DEF Goto, table
  <2>2. OnlyMoves(t) /\ pc'[t] = "runlock"
    BY <1>3, <2>1 DEF Inv, Typed, OnlyMoves
  <2>3. Typed'
    BY <1>3, <2>1 DEF Inv, Typed, Label, locks
  <2>4. Owned'
    <3>1. Respects(t)
      <4>1. ASSUME NEW b \in Bucket
            PROVE  Holds(t, b)' <=> Holds(t, b)
        <5>1. b \in Nat
          BY Bounds DEF Inv
        <5> QED
          BY <1>1, <1>2, <1>3, <2>2, <5>1 DEF Holds, Working, Looking, Owning
      <4> QED
        BY <1>3, <4>1, LocksKept DEF locks
    <3> QED
      BY <2>2, <3>1, RespectfulStep
  <2>5. ASSUME NEW u \in Threads
        PROVE  KnowsOf(u)' /\ ResizesOf(u)'
    <3>1. CASE u = t
      <4>1. KnowsOf(t)'
        BY <1>2, <1>3, <2>1, <2>2 DEF KnowsOf, Working, Looking, Owning
      <4>2. ResizesOf(t)'
        BY <1>2, <1>3, <2>1, <2>2 DEF ResizesOf, Working, Looking, Owning
      <4> QED
        BY <3>1, <4>1, <4>2
    <3>2. CASE u # t
      <4>1. KnowsOf(u) /\ ResizesOf(u)
        BY DEF Inv, Knows, Resizes
      <4>2. KnowsOf(u)'
        BY <2>1, <2>2, <3>2, <4>1 DEF OnlyMoves, KnowsOf
      <4>3. ResizesOf(u)'
        BY <2>1, <2>2, <3>2, <4>1 DEF OnlyMoves, ResizesOf
      <4> QED
        BY <4>2, <4>3
    <3> QED
      BY <3>1, <3>2
  <2>6. OldEmpty'
    <3>1. old_chain = Nothing
      BY <1>3 DEF Inv, Typed, Left, Nothing
    <3> QED
      BY <2>1, <3>1 DEF OldEmpty, Nothing, Bucket
  <2>7. Changes(t)
    BY <2>1, SameMembers
  <2> QED
    BY <2>3, <2>4, <2>5, <2>6, <2>7 DEF Inv, Knows, Resizes
<1>4. CASE /\ Left # {}
           /\ old_chain' = [old_chain EXCEPT ![Min(Left)] = @ \ {NextKey}]
           /\ chain' = [chain EXCEPT ![hashCode(NextKey)] = @ \union {NextKey}]
           /\ UNCHANGED <<table_size, old_table_size, old_bucket, locks, fault, pc, loc>>
  <2>1. Min(Left) \in Bucket /\ NextKey \in old_chain[Min(Left)] /\ NextKey \in Key
    BY <1>4, NextKeyIsOld DEF Inv
  <2>2. hashCode(NextKey) \in Bucket
    <3>1. NextKey \in Nat
      BY <2>1, RefinableAssumption
    <3> QED
      BY <3>1, HashInTable DEF Inv
  <2>3. Typed'
    <3>1. old_chain' \in [Bucket -> SUBSET Key] /\ chain' \in [Bucket -> SUBSET Key]
      BY <1>4, <2>1 DEF Inv, Typed
    <3> QED
      BY <1>4, <3>1 DEF Inv, Typed, locks
  <2>4. Owned'
    BY <1>4 DEF Inv, Owned, Holds, Bucket, locks
  <2>5. Knows'
    BY <1>4 DEF Inv, Knows, KnowsOf
  <2>6. Resizes'
    BY <1>4 DEF Inv, Resizes, ResizesOf
  <2>7. OldEmpty'
    BY <1>1, <1>4 DEF OldEmpty
  <2>8. ASSUME NEW j
        PROVE  j \in Members <=> j \in Members'
    <3> DEFINE k == NextKey
               o == Min(Left)
               n == hashCode(k)
    <3>1. chain \in [Bucket -> SUBSET Key] /\ old_chain \in [Bucket -> SUBSET Key]
      BY DEF Inv, Typed
    <3>2. k \in old_chain[o] /\ o \in Bucket /\ n \in Bucket
      BY <2>1, <2>2
    <3>3. old_chain' = [old_chain EXCEPT ![o] = @ \ {k}] /\ chain' = [chain EXCEPT ![n] = @ \union {k}]
      BY <1>4
    <3> HIDE DEF k, o, n
    <3>4. j \in KeysOf(chain)' <=> j \in KeysOf(chain) \/ j = k
      BY <3>1, <3>2, <3>3 DEF KeysOf, Bucket
    <3>5. j \in KeysOf(old_chain)' => j \in KeysOf(old_chain)
      BY <3>1, <3>2, <3>3 DEF KeysOf, Bucket
    <3>6. j \in KeysOf(old_chain) => j \in KeysOf(old_chain)' \/ j = k
      BY <3>1, <3>2, <3>3 DEF KeysOf, Bucket
    <3>7. k \in KeysOf(old_chain)
      BY <3>2 DEF KeysOf
    <3> QED
      BY <3>4, <3>5, <3>6, <3>7 DEF Members
  <2> QED
    BY <2>3, <2>4, <2>5, <2>6, <2>7, <2>8 DEF Inv, Changes
<1>5. CASE Fault("lost update")
  <2>1. UNCHANGED <<chain, old_chain>>
    BY <1>5 DEF Fault, table
  <2> QED
    BY <1>5, <2>1, FaultInv, SameMembers DEF Faults
<1> QED
  BY <1>3, <1>4, <1>5 DEF RehashNode
-----------------------------------------------------------------------------
(* The theorems *)

LEMMA InitInv == Init => Inv
<1> SUFFICES ASSUME Init
             PROVE  Inv
  OBVIOUS
<1>1. FirstSize \in Nat \ {0} /\ MaxTable \in Nat /\ FirstSize <= MaxTable
  BY RefinableAssumption
<1>2. table_size = FirstSize /\ table_size \in FirstSize..MaxTable /\ 0 \in 0..MaxTable
  BY <1>1 DEF Init
<1>3. NoLocals \in Local /\ NoLocals.ts = 0 /\ ~NoLocals.resizing
  BY <1>2 DEF NoLocals, Local
<1>4. Typed
  BY <1>2, <1>3 DEF Init, Typed, Label, Nothing
<1>5. \A t \in Threads : pc[t] = "idle" /\ loc[t] = NoLocals
  BY DEF Init
<1>6. Owned
  <2>1. NULL \notin Threads
    BY RefinableAssumption
  <2> QED
    BY <1>5, <2>1 DEF Init, Owned, Holds, Working, Looking, Owning
<1>7. Knows
  BY <1>1, <1>2, <1>3, <1>5 DEF Knows, KnowsOf, Working, Looking, Owning
<1>8. Resizes
  BY <1>5 DEF Resizes, ResizesOf, Working, Looking, Owning
<1>9. OldEmpty
  BY DEF Init, OldEmpty
<1> QED
  BY <1>4, <1>6, <1>7, <1>8, <1>9 DEF Inv

LEMMA StutterInv == Inv /\ UNCHANGED vars => Inv'
<1> SUFFICES ASSUME Inv, UNCHANGED vars
             PROVE  Inv'
  OBVIOUS
<1>1. Typed'
  BY DEF Inv, Typed, vars, table, locks
<1>2. Owned'
  BY DEF Inv, Owned, Holds, vars, table, locks
<1>3. Knows'
  BY DEF Inv, Knows, KnowsOf, vars, table, locks
<1>4. Resizes'
  BY DEF Inv, Resizes, ResizesOf, vars, table, locks
<1>5. OldEmpty'
  BY DEF Inv, OldEmpty, Nothing, vars, table, locks
<1> QED
  BY <1>1, <1>2, <1>3, <1>4, <1>5 DEF Inv

LEMMA StepInv ==
    ASSUME Inv, NEW t \in Threads, Step(t)
    PROVE  Inv' /\ Changes(t)
<1>1. \/ ReadSize(t) \/ Hash(t) \/ LoadBucket(t) \/ LoadMutex(t) \/ Lock(t)
      \/ FindNode(t) \/ Unlock(t) \/ Policy(t) \/ ResizeRead(t) \/ ResizeCheck(t)
      \/ ResizeSave(t) \/ ResizeDouble(t) \/ ResizeUnlock(t)
      \/ LoadOldBucket(t) \/ LoadOldSize(t) \/ FreeOld(t) \/ Return(t)
      => Inv' /\ Changes(t)
  BY ReadSizeInv, HashInv, LoadBucketInv, LoadMutexInv, LockInv, FindNodeInv, UnlockInv,
     PolicyInv, ResizeReadInv, ResizeCheckInv, ResizeSaveInv, ResizeDoubleInv,
     ResizeUnlockInv, LoadOldInv, FreeOldInv, ReturnInv, SameMembers
<1>2. AddNode(t) \/ DeleteNode(t) \/ ResizeSwap(t) \/ RehashNode(t) => Inv' /\ Changes(t)
  BY AddNodeInv, DeleteNodeInv, ResizeSwapInv, RehashNodeInv
<1> QED
  BY <1>1, <1>2 DEF Step

LEMMA NextInv ==
    Inv /\ [Next]_vars =>
        Inv' /\ (UNCHANGED vars \/ \E t \in Threads : Changes(t))
<1> SUFFICES ASSUME Inv, [Next]_vars
             PROVE  Inv' /\ (UNCHANGED vars \/ \E t \in Threads : Changes(t))
  OBVIOUS
<1>1. ASSUME NEW t \in Threads, Step(t)
      PROVE  Inv' /\ \E u \in Threads : Changes(u)
  BY <1>1, StepInv
<1>2. ASSUME NEW t \in Threads, NEW op \in {"add", "delete", "find"}, NEW k \in Key,
             Call(t, op, k)
      PROVE  Inv' /\ \E u \in Threads : Changes(u)
  BY <1>2, CallInv, SameMembers
<1>3. CASE UNCHANGED vars
  BY <1>3, StutterInv
<1> QED
  BY <1>1, <1>2, <1>3 DEF Next, Stopped

\* Who holds which mutex, what each thread knows of the table, and when the old
\* array has nodes: the invariant the properties follow from.
THEOREM Invariance == Spec => []Inv
<1>1. Init => Inv
  BY InitInv
<1>2. Inv /\ [Next]_vars => Inv'
  BY NextInv
<1> QED
  BY <1>1, <1>2, PTL DEF Spec

\* Every variable of hash/RefinableHash.c has its type, and a mutex is held by
\* the call that works in its bucket or by a resize.
THEOREM TypeCorrect == Spec => []TypeOK
<1>1. Inv => TypeOK
  BY InvTypeOK
<1> QED
  BY <1>1, Invariance, PTL

\* Two calls never work in one bucket, two resizes never own the table, and while
\* one does, calls work in new buckets only, whichever array they took the mutex
\* from.
THEOREM MutexesGuardBuckets == Spec => []BucketsGuarded
<1>1. Inv => BucketsGuarded
  BY InvBucketsGuarded
<1> QED
  BY <1>1, Invariance, PTL

\* Only an add that succeeds brings a key into the table and only a delete that
\* succeeds takes one out; resize moves every key and loses none.
THEOREM ResizeKeepsKeys == Spec => KeysKept
<1> DEFINE Kept ==
        \A k \in Key : (k \in Members) # (k \in Members') =>
            \E t \in Threads :
                /\ loc[t].key = k /\ pc[t] = "work" /\ loc'[t].ok
                /\ loc[t].op = IF k \in Members THEN "delete" ELSE "add"
<1>1. Inv /\ [Next]_vars => [Kept]_vars
  <2> SUFFICES ASSUME Inv, [Next]_vars
               PROVE  [Kept]_vars
    OBVIOUS
  <2>1. CASE UNCHANGED vars
    BY <2>1
  <2>2. ASSUME NEW t \in Threads, Changes(t)
        PROVE  Kept
    BY <2>2 DEF Changes
  <2> QED
    BY <2>1, <2>2, NextInv
<1>2. KeysKept <=> [][Kept]_vars
  BY DEF KeysKept
<1> QED
  BY <1>1, <1>2, Invariance, PTL DEF Spec

=============================================================================
