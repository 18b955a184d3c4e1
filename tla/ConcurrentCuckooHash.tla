------------------------ MODULE ConcurrentCuckooHash ------------------------
(***************************************************************************)
(* hash/ConcurrentCuckooHash.c: a phased cuckoo hash table.  Every key has *)
(* a list in each of two tables; a list that grows past a threshold sends  *)
(* its head to the head's other list; when that does not help, or there is *)
(* no room, the tables double, under all the mutexes.                      *)
(*                                                                         *)
(* What acquire protects is one action; relocate chooses its victim before *)
(* it locks, by several loads, and every load is an action.  A list is the *)
(* sequence of its keys.  setSize is left out, for nothing reads it.  Some *)
(* uses of a list or of a node are undefined behaviour: fault names it and *)
(* the model stops there.                                                  *)
(***************************************************************************)
EXTENDS Integers, Sequences, FiniteSets, SequencesExt

CONSTANTS
    Threads, NULL,
    Key,        \* keys, natural numbers
    mtx_size,   \* the size of the tables at the beginning, and of the locks
    LIMIT,      \* the rounds of relocate (8 in the code)
    Params,     \* probe_size and threshold, as given to init_hashtable
    MaxTable,   \* bound: resize makes no larger tables
    Ops,        \* the operations the threads call
    OutOfMemory \* calloc may fail in create_node and in init_tables

\* 1 << s: every divisor but 1 is even.
PowerOfTwo(n) == n \in Nat \ {0} /\ \A d \in 1..n : n % d = 0 => d = 1 \/ d % 2 = 0

ASSUME CuckooAssumption ==
    /\ Key \subseteq Nat /\ PowerOfTwo(mtx_size) /\ LIMIT \in Nat \ {0}
    /\ MaxTable \in Nat /\ MaxTable >= mtx_size
    /\ \A p \in Params : p.probe \in Nat /\ p.threshold \in 1..p.probe
    /\ Ops \subseteq {"add", "delete", "find"} /\ OutOfMemory \in BOOLEAN
    /\ NULL \notin Threads

VARIABLES
    params,     \* probe_size and threshold
    table_size,
    table,      \* the lists of both tables
    mtx,        \* who holds each mutex
    fault,      \* what ended the program, if anything did
    pc, loc,    \* the next step and the local variables of every thread
    seen        \* history: what a call has met, "present", "absent", "no memory"

shared == <<params, table_size, table, mtx, fault>>
vars == <<shared, pc, loc, seen>>

No == 0..1
Bucket == 0..(MaxTable - 1)
Mutex == No \X (0..(mtx_size - 1))

hashCode(no, k) == IF no = 0 THEN k * 65699 ELSE k * 65701
list(no, k) == table[no][hashCode(no, k) % table_size]

\* key is acquire's argument; ok what the call did or found, ret what it returns;
\* i, hi, round, y are relocate's, ts the size of the table whose list it took;
\* grow tells that add has no room; n counts the mutexes of aLock, and old is
\* the table that is being rehashed.
NoLocals == [op |-> "none", arg |-> 0, key |-> 0, ok |-> FALSE, ret |-> FALSE,
             i |-> 0, hi |-> 0, round |-> 0, y |-> NULL, ts |-> 0,
             grow |-> FALSE, n |-> 0, old |-> NULL]

Freed == -1  \* the key of a node that was freed

KeysOf(tab) == UNION {Range(tab[no][b]) : no \in No, b \in Bucket}
Members == KeysOf(table) \union
    UNION {KeysOf(loc[t].old) : t \in {u \in Threads : pc[u] = "rehash"}}

\* The call of t has taken effect.
Answered(t) == pc[t] = "ret" \/ (loc[t].op \in {"add", "delete"} /\ loc[t].ok)

First(l) == IF l = <<>> THEN NULL ELSE l[1]

contains_op(k) == \E no \in No : Contains(list(no, k), k)

At(t, l) == pc[t] = l /\ fault = "none"
Goto(t, l) == pc' = [pc EXCEPT ![t] = l]
Local(t, r) == loc' = [loc EXCEPT ![t] = r]

Fault(why) == fault' = why /\ UNCHANGED <<params, table_size, table, mtx, pc, loc, seen>>
-----------------------------------------------------------------------------
\* init_hashtable
Init ==
    /\ params \in Params
    /\ table_size = mtx_size
    /\ table = [no \in No |-> [b \in Bucket |-> <<>>]]
    /\ mtx = [m \in Mutex |-> NULL]
    /\ fault = "none"
    /\ pc = [t \in Threads |-> "idle"]
    /\ loc = [t \in Threads |-> NoLocals]
    /\ seen = [t \in Threads |-> {}]

Call(t, op, k) ==
    /\ At(t, "idle")
    /\ Local(t, [NoLocals EXCEPT !.op = op, !.arg = k, !.key = k])
    /\ Goto(t, "lock0")
    /\ UNCHANGED <<shared, seen>>

\* acquire
mutex(no, k) == <<no, hashCode(no, k) % mtx_size>>
Held(k) == {mutex(no, k) : no \in No}

Lock0(t) ==
    LET m == mutex(0, loc[t].key) IN
    /\ At(t, "lock0")
    /\ mtx[m] = NULL
    /\ mtx' = [mtx EXCEPT ![m] = t]
    /\ Goto(t, "lock1")
    /\ UNCHANGED <<params, table_size, table, fault, loc, seen>>

Lock1(t) ==
    LET m == mutex(1, loc[t].key) IN
    /\ At(t, "lock1")
    /\ mtx[m] = NULL
    /\ mtx' = [mtx EXCEPT ![m] = t]
    /\ Goto(t, IF loc[t].round = 0 THEN loc[t].op ELSE "move")
    /\ UNCHANGED <<params, table_size, table, fault, loc, seen>>

\* Mutant: the second mutex is not released.
UnlockedFirst(k) == [m \in Mutex |-> IF m = mutex(0, k) THEN NULL ELSE mtx[m]]

\* release
Unlocked(k) == [m \in Mutex |-> IF m \in Held(k) THEN NULL ELSE mtx[m]]

Meet(t, what) == seen' = [seen EXCEPT ![t] = @ \union {what}]
Look(t) == Meet(t, IF loc[t].arg \in Members THEN "present" ELSE "absent")
-----------------------------------------------------------------------------
(* add, delete and contains, between acquire and release *)

AddTail(no, k) == [table EXCEPT ![no][hashCode(no, k) % table_size] = Append(@, k)]

Room(no, k, most) == Len(list(no, k)) < most

\* Mutant: the first list is always taken.
PlaceFirst(k) == <<0, FALSE>>

\* The list a node goes to, in add and in resize: below its threshold, else where
\* there is room; and whether add has to relocate then.
Place(k) ==
    CASE Room(0, k, params.threshold) -> <<0, FALSE>>
      [] ~Room(0, k, params.threshold) /\ Room(1, k, params.threshold) -> <<1, FALSE>>
      [] ~Room(0, k, params.threshold) /\ ~Room(1, k, params.threshold)
            /\ Room(0, k, params.probe) -> <<0, TRUE>>
      [] OTHER -> <<1, TRUE>>
Full(k) == \A no \in No : ~Room(no, k, params.probe)

\* Once an add has resized it returns true, whatever its second try does.
AddRefused(t) ==
    LET k == loc[t].arg IN
    /\ At(t, "add")
    /\ \/ contains_op(k) /\ Look(t)
       \/ ~contains_op(k) /\ OutOfMemory /\ Meet(t, "no memory")
    /\ Goto(t, "release")
    /\ UNCHANGED <<shared, loc>>

AddNode(t) ==
    LET k == loc[t].arg  p == Place(k) IN
    /\ At(t, "add")
    /\ ~contains_op(k) /\ ~Full(k)
    /\ table' = AddTail(p[1], k)
    /\ IF p[2]
       THEN /\ Local(t, [loc[t] EXCEPT !.ok = TRUE, !.ret = TRUE, !.round = 1, !.i = p[1],
                                       !.hi = hashCode(p[1], k) % table_size])
            /\ Goto(t, "head")
       ELSE /\ Local(t, [loc[t] EXCEPT !.ok = TRUE, !.ret = TRUE])
            /\ Goto(t, "ret")
    /\ seen' = [seen EXCEPT ![t] = {}]
    /\ mtx' = Unlocked(k)
    /\ UNCHANGED <<params, table_size, fault>>

\* mustResize
AddNoRoom(t) ==
    LET k == loc[t].arg IN
    /\ At(t, "add")
    /\ ~contains_op(k) /\ Full(k)
    /\ Local(t, [loc[t] EXCEPT !.ret = TRUE, !.grow = TRUE])
    /\ Goto(t, "alock")
    /\ mtx' = Unlocked(k)
    /\ UNCHANGED <<params, table_size, table, fault, seen>>

Without(l, k) == RemoveFirst(l, k)

\* Between the first load of a round and acquire.
Choosing == {"list", "node", "key", "hash"}

\* A node that some relocate has chosen, or is about to find, is freed under it.
DeleteNode(t) ==
    LET k == loc[t].arg IN
    /\ At(t, "delete")
    /\ \/ /\ contains_op(k)
          /\ LET no == IF Contains(list(0, k), k) THEN 0 ELSE 1
             IN  table' = [table EXCEPT ![no][hashCode(no, k) % table_size] = Without(@, k)]
          /\ loc' = [u \in Threads |->
                        IF u = t THEN [loc[t] EXCEPT !.ok = TRUE, !.ret = TRUE]
                        ELSE IF pc[u] \in Choosing /\ loc[u].y = k
                        THEN [loc[u] EXCEPT !.y = Freed] ELSE loc[u]]
          /\ seen' = [seen EXCEPT ![t] = {}]
          /\ mtx' = Unlocked(k)
          /\ Goto(t, "ret")
       \/ /\ ~contains_op(k)
          /\ Look(t)
          /\ Goto(t, "release")
          /\ UNCHANGED <<table, mtx, loc>>
    /\ UNCHANGED <<params, table_size, fault>>

FindNode(t) ==
    LET k == loc[t].arg IN
    /\ At(t, "find")
    /\ Local(t, [loc[t] EXCEPT !.ok = contains_op(k), !.ret = contains_op(k)])
    /\ Look(t)
    /\ Goto(t, "release")
    /\ UNCHANGED shared

\* release, after a call that only looked.
Release(t) ==
    /\ At(t, "release")
    /\ mtx' = Unlocked(loc[t].arg)
    /\ Goto(t, "ret")
    /\ UNCHANGED <<params, table_size, table, fault, loc, seen>>
-----------------------------------------------------------------------------
(* relocate: it chooses the head of its list without a lock, load by load *)

\* ht->table[i]
RelocateTable(t) ==
    /\ At(t, "head")
    /\ Local(t, [loc[t] EXCEPT !.ts = table_size, !.y = NULL])
    /\ Goto(t, "list")
    /\ UNCHANGED <<shared, seen>>

\* An array that resize has replaced is there until the rehash is over.
Allocated(ts) ==
    ts = table_size \/ (2 * ts = table_size /\ \E u \in Threads : pc[u] = "rehash")

\* iSet = ht->table[i][hi]
RelocateList(t) ==
    /\ At(t, "list")
    /\ \/ ~Allocated(loc[t].ts) /\ Fault("freed memory")
       \/ /\ Allocated(loc[t].ts)
          /\ Goto(t, "node")
          /\ UNCHANGED <<shared, loc, seen>>

\* y = get_head_node(iSet).  The list of an old table is never freed, and its
\* head still points where it did (see Swap).
RelocateHead(t) ==
    /\ At(t, "node")
    /\ Local(t, [loc[t] EXCEPT !.y = IF loc[t].ts = table_size
                                    THEN First(table[loc[t].i][loc[t].hi]) ELSE @])
    /\ Goto(t, "key")
    /\ UNCHANGED <<shared, seen>>

\* Mutant: the victim is moved without its mutexes.
RelocateKeyNoLock(t) ==
    /\ At(t, "key")
    /\ \/ loc[t].y = NULL /\ Fault("null pointer")
       \/ loc[t].y = Freed /\ Fault("freed memory")
       \/ /\ loc[t].y \in Key
          /\ Local(t, [loc[t] EXCEPT !.key = loc[t].y])
          /\ Goto(t, "move")
          /\ UNCHANGED <<shared, seen>>

\* lock_key = y->key, the key whose mutexes the round takes.
RelocateKey(t) ==
    /\ At(t, "key")
    /\ \/ loc[t].y = NULL /\ Fault("null pointer")
       \/ loc[t].y = Freed /\ Fault("freed memory")
       \/ /\ loc[t].y \in Key
          /\ Local(t, [loc[t] EXCEPT !.key = loc[t].y])
          /\ Goto(t, "hash")
          /\ UNCHANGED <<shared, seen>>

\* hj comes from y->key, which is read again, and from table_size, which is ts
\* still if the move finds its list in the table.
RelocateHash(t) ==
    /\ At(t, "hash")
    /\ \/ loc[t].y = Freed /\ Fault("freed memory")
       \/ loc[t].y # Freed /\ Goto(t, "lock0") /\ UNCHANGED <<shared, loc, seen>>

\* What a round leads to: the next one, the end, or resize.
Leave(t, l) ==
    /\ Local(t, [loc[t] EXCEPT !.round = 0, !.i = 0, !.hi = 0, !.ts = 0, !.y = NULL])
    /\ Goto(t, l)
Settled(t) == Leave(t, "ret")
GiveUp(t) == Leave(t, "alock")

Move(k, i) ==
    [table EXCEPT ![i][hashCode(i, k) % table_size] = Without(@, k),
                  ![1 - i][hashCode(1 - i, k) % table_size] = Append(@, k)]

\* With the victim's mutexes: it goes to the end of its other list, or of its
\* own.  A victim that has left the list, or the list the table, is a fault:
\* delete_node follows a null pointer, or relinks a node of the new table.
RelocateMove(t) ==
    LET k == loc[t].key  i == loc[t].i  j == 1 - i  hi == loc[t].hi IN
    /\ At(t, "move")
    /\ \/ loc[t].ts # table_size /\ Fault("list of an old table")
       \/ /\ loc[t].ts = table_size /\ ~Contains(table[i][hi], k)
          /\ Fault("null pointer")
       \/ /\ loc[t].ts = table_size /\ Contains(table[i][hi], k)
          /\ \/ /\ Room(j, k, params.threshold)
                /\ table' = Move(k, i)
                /\ Settled(t)
             \/ /\ ~Room(j, k, params.threshold) /\ Room(j, k, params.probe)
                /\ table' = Move(k, i)
                /\ IF loc[t].round = LIMIT
                   THEN GiveUp(t)
                   ELSE /\ Local(t, [loc[t] EXCEPT !.round = @ + 1, !.i = j,
                                                   !.hi = hashCode(j, k) % table_size])
                        /\ Goto(t, "head")
             \/ /\ ~Room(j, k, params.probe)
                /\ table' = [table EXCEPT ![i][hi] = Append(Without(@, k), k)]
                /\ GiveUp(t)
          /\ mtx' = Unlocked(k)
          /\ UNCHANGED <<params, table_size, fault, seen>>
-----------------------------------------------------------------------------
(* resize *)

\* Where add goes after resize: it begins again if it had no room.
AfterResize(t) ==
    /\ Local(t, [loc[t] EXCEPT !.grow = FALSE, !.n = 0, !.key = loc[t].arg])
    /\ Goto(t, IF loc[t].grow THEN "lock0" ELSE "ret")

\* aLock: both mutexes of one index, then of the next.
ALock(t) ==
    LET m == <<loc[t].n % 2, loc[t].n \div 2>> IN
    /\ At(t, "alock")
    /\ mtx[m] = NULL
    /\ mtx' = [mtx EXCEPT ![m] = t]
    /\ Local(t, [loc[t] EXCEPT !.n = @ + 1])
    /\ Goto(t, IF loc[t].n + 1 < 2 * mtx_size THEN "alock" ELSE "swap")
    /\ UNCHANGED <<params, table_size, table, fault, seen>>

\* A relocate that has loaded the old array, or a list of it, finds there what
\* was the head of the list when the array was replaced.
KeepsHead(u) ==
    IF pc[u] \in {"list", "node"} /\ loc[u].ts = table_size
    THEN [loc[u] EXCEPT !.y = First(table[loc[u].i][loc[u].hi])] ELSE loc[u]

\* init_tables: new tables of twice the size, empty, or without memory none at
\* all: resize returns then, and all the keys are lost with the old tables.
Swap(t) ==
    /\ At(t, "swap")
    /\ 2 * table_size <= MaxTable
    /\ \/ OutOfMemory /\ Fault("no tables")
       \/ /\ loc' = [u \in Threads |-> IF u = t THEN [loc[t] EXCEPT !.old = table]
                                      ELSE KeepsHead(u)]
          /\ table' = [no \in No |-> [b \in Bucket |-> <<>>]]
          /\ table_size' = 2 * table_size
          /\ Goto(t, "rehash")
          /\ UNCHANGED <<params, mtx, fault, seen>>

\* Bucket b of old table no holds the node that is next: table 0 comes first.
NextList(old, no, b) ==
    /\ old[no][b] # <<>>
    /\ \A c \in Bucket : c < b => old[no][c] = <<>>
    /\ no = 1 => \A c \in Bucket : old[0][c] = <<>>

\* One that finds no room would end the program; InItsLists says that this does
\* not happen.  relocate may look at the new lists meanwhile.
RehashNode(t) ==
    /\ At(t, "rehash")
    /\ \E no \in No, b \in Bucket :
           LET l == loc[t].old[no][b]  k == Head(l) IN
           /\ NextList(loc[t].old, no, b)
           /\ ~Full(k)
           /\ table' = AddTail(Place(k)[1], k)
           /\ Local(t, [loc[t] EXCEPT !.old = [loc[t].old EXCEPT ![no][b] = Tail(l)]])
    /\ UNCHANGED <<params, table_size, mtx, fault, pc, seen>>

\* Mutant: the nodes of the second table are forgotten.
RehashFirstOnly(t) ==
    /\ At(t, "rehash")
    /\ \A b \in Bucket : loc[t].old[0][b] = <<>>
    /\ Local(t, [loc[t] EXCEPT !.old = NULL])
    /\ Goto(t, "aunlock")
    /\ UNCHANGED <<shared, seen>>

RehashEnd(t) ==
    /\ At(t, "rehash")
    /\ \A no \in No, b \in Bucket : loc[t].old[no][b] = <<>>
    /\ Local(t, [loc[t] EXCEPT !.old = NULL])
    /\ Goto(t, "aunlock")
    /\ UNCHANGED <<shared, seen>>

AUnLock(t) ==
    /\ At(t, "aunlock")
    /\ mtx' = [m \in Mutex |-> NULL]
    /\ AfterResize(t)
    /\ UNCHANGED <<params, table_size, table, fault, seen>>

Return(t) ==
    /\ At(t, "ret")
    /\ Local(t, NoLocals)
    /\ seen' = [seen EXCEPT ![t] = {}]
    /\ Goto(t, "idle")
    /\ UNCHANGED shared
-----------------------------------------------------------------------------
Step(t) ==
    \/ Lock0(t) \/ Lock1(t)
    \/ AddRefused(t) \/ AddNode(t) \/ AddNoRoom(t) \/ DeleteNode(t) \/ FindNode(t)
    \/ Release(t)
    \/ RelocateTable(t) \/ RelocateList(t) \/ RelocateHead(t)
    \/ RelocateKey(t) \/ RelocateHash(t) \/ RelocateMove(t)
    \/ ALock(t) \/ Swap(t) \/ RehashNode(t) \/ RehashEnd(t) \/ AUnLock(t)
    \/ Return(t)

Next == \E t \in Threads : Step(t) \/ \E op \in Ops, k \in Key : Call(t, op, k)

Spec == Init /\ [][Next]_vars
-----------------------------------------------------------------------------
(* What must hold *)

Guarded == {"add", "delete", "find", "release", "move"}
Resizing == {"swap", "rehash", "aunlock"}
Steps == Guarded \union Resizing \union
    {"idle", "lock0", "lock1", "head", "alock", "ret"} \union Choosing

\* The variables have their types; a mutex is held by a thread that is between
\* acquire and release, or aLock and aUnLock, on it.
TypeOK ==
    /\ params \in Params /\ table_size \in mtx_size..MaxTable
    /\ \A no \in No, b \in Bucket : Range(table[no][b]) \subseteq Key
    /\ DOMAIN mtx = Mutex /\ Range(mtx) \subseteq Threads \union {NULL}
    /\ fault \in {"none", "null pointer", "freed memory", "list of an old table",
                  "no tables"}
    /\ \A t \in Threads : /\ pc[t] \in Steps /\ DOMAIN loc[t] = DOMAIN NoLocals
                         /\ loc[t].round \in 0..LIMIT /\ loc[t].n \in 0..(2 * mtx_size)
    /\ \A m \in Mutex : mtx[m] # NULL =>
          \/ pc[mtx[m]] \in {"lock1"} \union Guarded /\ m \in Held(loc[mtx[m]].key)
          \/ pc[mtx[m]] \in {"alock"} \union Resizing

\* contains looks for a key in two lists only, whose places depend on the size
\* of the table: every key is in one of its two lists, in one only and once, in
\* spite of all moves, and no list is longer than probe_size.  resize calls
\* exit(-1) for a node that finds room in neither of its new lists: it never
\* does, because both multipliers of hashCode are odd and table_size is a power
\* of two, so that the keys that meet in a new list have met in both old ones,
\* which held as many as the new ones can.
InItsLists ==
    /\ \A no \in No, b \in Bucket :
           LET l == table[no][b] IN
           /\ Len(l) <= params.probe
           /\ IsInjective(l)
           /\ \A k \in Range(l) :
                 /\ b = hashCode(no, k) % table_size
                 /\ ~Contains(table[1 - no][hashCode(1 - no, k) % table_size], k)
    /\ \A t \in Threads : pc[t] = "rehash" => \A k \in KeysOf(loc[t].old) : ~Full(k)

\* The mutexes keep their number when the tables double, and still guard the
\* lists: two threads are never at the same list, and nobody is at any list
\* while the tables are replaced.
Lists(k) == {<<no, hashCode(no, k) % table_size>> : no \in No}
ListsGuarded ==
    \A t, u \in Threads : t # u =>
        /\ pc[t] \in Guarded /\ pc[u] \in Guarded
              => Lists(loc[t].key) \intersect Lists(loc[u].key) = {}
        /\ pc[t] \in Resizing => pc[u] \notin Guarded \union Resizing

\* acquire takes its mutexes in the order of the arrays, aLock in that of the
\* indexes.  Threads can wait for each other for ever, but only when one of
\* them is in aLock: calls that do not resize never block each other.
Blocked(t) ==
    \/ pc[t] = "lock0" /\ mtx[mutex(0, loc[t].key)] # NULL
    \/ pc[t] = "lock1" /\ mtx[mutex(1, loc[t].key)] # NULL
    \/ pc[t] = "alock" /\ mtx[<<loc[t].n % 2, loc[t].n \div 2>>] # NULL
StuckInResizeOnly ==
    \A t \in Threads : Blocked(t) =>
        \/ \E u \in Threads : pc[u] # "idle" /\ ~Blocked(u)
        \/ \E u \in Threads : pc[u] = "alock"

\* The calls act on a set of keys, each at one instant, and a key is never out
\* of the set while relocate or resize moves it.  What a call did is meant, not
\* what it returns: an add that has resized returns true whatever it did.
\* Nothing is said of what follows a fault.
SetCall == [t \in Threads |->
    [op |-> loc[t].op, key |-> loc[t].arg, res |-> loc[t].ok /\ Answered(t),
     done |-> Answered(t)]]
Set == INSTANCE KeySet WITH members <- Members, call <- SetCall
AtomicSet == Set!Spec
=============================================================================
