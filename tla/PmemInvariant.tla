--------------------------- MODULE PmemInvariant ---------------------------
(***************************************************************************)
(* The inductive invariant of the persistent memory allocator, IInv, and   *)
(* the notions it is made of.                                              *)
(*                                                                         *)
(* The model keeps a call as the sequence todo of its stores and flushes,  *)
(* so the invariant says, for each call, what todo may be and what memory  *)
(* is like with these steps left (Course); that memory and what is durable *)
(* of it are both pools that pmemalloc_recover understands and differ in   *)
(* one line at most (Medium); and that the program's notes agree with the  *)
(* headers (Promised).                                                     *)
(*                                                                         *)
(* The operators take memories and sequences as parameters and not the     *)
(* variables: m is a memory, v what is durable of it, w the memory after a *)
(* step, s the steps left, k the call, a what is asked for, fl the filled  *)
(* and dr the dropped ones, f and df the file and what is durable of it.   *)
(***************************************************************************)
EXTENDS PmemAlloc

-----------------------------------------------------------------------------
(* The walk over the clumps *)

Sized(m) == \A c \in Chunk : m[c].size \in Nat
Goes(m, c) == m[c].size # 0 /\ c + m[c].size <= LastClump
Closed(m, V) == \A c \in V : Goes(m, c) => c + m[c].size \in V
Reach(m, c) == {b \in Chunk : \A V \in SUBSET Chunk : c \in V /\ Closed(m, V) => b \in V}

-----------------------------------------------------------------------------
(* Memories *)

\* The pool is a new file.
Untouched(m) == (\A c \in Chunk : m[c] = Blank) /\ \A d \in Cell : m[d] = NULL

\* A header, old ones included, does not reach over the end.
Fits(m) == \A c \in Chunk : m[c].state # "DATA" => c + m[c].size <= LastClump

Tiled(m) ==
    /\ \A c \in Walk(m) : m[c].size = 0 => c \in {0, LastClump}
    /\ \A c \in Clumps(m) : c + m[c].size \in Walk(m) /\ m[c].state \in States

InTransit(m) == {c \in Clumps(m) : m[c].state \in {"ACTIVATING", "FREEING"}}
Packed(l) == \A i, j \in Slot : i < j /\ l.off[j] # NULL => l.off[i] # NULL
EmptyList(l) == \A i \in Slot : l.off[i] = NULL

\* The entries of c's on list set pointers to p; now these pointers are in V.
ListSets(m, c, p, V) ==
    \A i \in OnList(m[c]) : m[c].ptr[i] = p /\ m[m[c].off[i]] \in V

PointersOK(m) ==
    \A d \in Cell : m[d] # NULL =>
        /\ m[d] \in Clumps(m)
        /\ m[m[d]].state \in {"ACTIVATING", "ACTIVE", "FREEING"}
        /\ m[m[d]].state = "FREEING" => d \in Named(m[m[d]])

ActiveOK(m, c) ==
    /\ \E d \in Cell : m[d] = c
    /\ Packed(m[c]) /\ ListSets(m, c, NULL, {c})

ActivatingOK(m, c) ==
    /\ \E d \in Cell : m[d] = c \/ d \in Named(m[c])
    /\ ListSets(m, c, c, {NULL, c})

FreeingOK(m, c) == ListSets(m, c, NULL, {NULL, c})

ClumpOK(m, c) ==
    /\ m[c].state = "ACTIVE" => ActiveOK(m, c)
    /\ m[c].state = "ACTIVATING" => ActivatingOK(m, c)
    /\ m[c].state = "FREEING" => FreeingOK(m, c)

Sound(m) ==
    /\ Tiled(m)
    /\ PointersOK(m)
    /\ \A c \in Clumps(m) : ClumpOK(m, c)
    /\ \A b, c \in InTransit(m) : b = c

-----------------------------------------------------------------------------
(* The steps of calls *)

CellOp(d, p) == [do |-> "cell", at |-> d, val |-> p]
Magic == CellOp(HDR, "*PMEMALLOC_POOL")
Persists == [do : {"persist"}, at : Chunk \union Cell]

SizeOps == {o \in [do : {"size"}, at : Chunk, size : Chunk, state : States] :
                o.at + o.size <= LastClump}

OffOps == [do : {"off"}, at : Chunk, i : Slot, val : Cell \union {NULL}]
PtrOps == [do : {"ptr"}, at : Chunk, i : Slot, val : Chunk \union {NULL}]
CellOps == [do : {"cell"}, at : Cell, val : Chunk \union {NULL}]
ScanOps == [do : {"recover", "coalesce"}, at : Chunk]
BlankOps == [do : {"blank"}, at : Chunk]
FileOps == [do : {"creat", "fallocate", "fsync"}, at : {HDR}]

Ops == Persists \union SizeOps \union OffOps \union PtrOps \union CellOps
       \union ScanOps \union BlankOps \union FileOps \union {Magic}

\* The line whose durable contents may be behind: the one of the next step, if
\* that is part of a series of stores and their flush.  The first clump is
\* durable with the end of the creation.
LineOf(o) ==
    IF o.do \in {"persist", "off", "ptr"} THEN o.at
    ELSE IF o.do = "fsync" \/ o = Magic THEN 0 ELSE HDR

\* Nothing else is stored before a store is flushed.
Storing == {"size", "off", "ptr", "cell"}

Behind(o) == IF o.at = HDR THEN 0 ELSE o.at

Paired(s) ==
    \A j \in 1..Len(s) :
        s[j].do \in Storing => j < Len(s) /\ LineOf(s[j + 1]) = Behind(s[j])

Flow == {s \in Seq(Ops) : Paired(s)}
PersistOp(a) == [do |-> "persist", at |-> a]
ClearOp(c, i) == [do |-> "off", at |-> c, i |-> i, val |-> NULL]
Clears(c) == {ClearOp(c, i) : i \in Slot}
Resets(c) == Clears(c) \union [do : {"ptr"}, at : {c}, i : Slot, val : {NULL}]
Links(l, p) == {CellOp(d, p) : d \in Named(l)}

\* ExecuteOn of a clump with the header l.
ExecuteSteps(l) ==
    FlattenSeq([i \in 1..Cardinality(OnList(l)) |->
                    PutCell(l.off[i], l.ptr[i]) \o Persist(l.off[i])])

-----------------------------------------------------------------------------
(* Runs of free clumps *)

FreeAt(m, b) == m[b].size # 0 /\ m[b].state = "FREE"

\* FreeRunEnd, in any memory.
RunEnd(m, c) ==
    LET end[b \in Chunk] == IF FreeAt(m, b) THEN end[b + m[b].size] ELSE b
    IN  end[c]

-----------------------------------------------------------------------------
(* What one store does to a sound memory *)

Holds == {"ACTIVATING", "ACTIVE", "FREEING"}
Target(m, c) == IF m[c].state = "ACTIVATING" THEN c ELSE NULL

\* The header of the rest of c behind its first k chunks.
Cut(m, c, k) ==
    /\ 0 < k /\ k < m[c].size
    /\ m[c + k].state = "FREE" /\ m[c + k].size = m[c].size - k

-----------------------------------------------------------------------------
(* One step of a call and the memory *)

Typed(m) == MediumOK(m) /\ Fits(m)

WrittenTo(m, o) ==
    CASE o.do = "size" -> [m[o.at] EXCEPT !.size = o.size, !.state = o.state]
      [] o.do = "off" -> [m[o.at] EXCEPT !.off[o.i] = o.val]
      [] o.do = "ptr" -> [m[o.at] EXCEPT !.ptr[o.i] = o.val]
      [] o.do = "blank" -> Blank
      [] o.do = "cell" -> o.val

Stores == {"size", "off", "ptr", "blank", "cell"}
Effect(m, o) == IF o.do \in Stores THEN [m EXCEPT ![o.at] = WrittenTo(m, o)] ELSE m

-----------------------------------------------------------------------------
(* The way out of ACTIVATING, FREEING and, in recovery, RESERVED *)

FinalOf(m, c) == IF m[c].state = "ACTIVATING" THEN "ACTIVE" ELSE "FREE"
Ending(m, c, rest) == PutSize(c, m[c].size, FinalOf(m, c)) \o (Persist(c) \o rest)
WillClear(m, c, q) == \A i \in Slot : m[c].off[i] = NULL \/ ClearOp(c, i) \in Range(q)

\* The pointers are as they shall be.
Handed(m, c) ==
    /\ m[c].state = "ACTIVATING" =>
        (\E d \in Cell : m[d] = c) /\ \A d \in Named(m[c]) : m[d] = c
    /\ m[c].state \in {"FREEING", "RESERVED"} => \A d \in Cell : m[d] # c

Executing(m, s, c, rest) ==
    /\ c \in InTransit(m)
    /\ \E q \in Seq(Links(m[c], Target(m, c)) \union Persists) :
        /\ s = q \o (ClearOn(c) \o Ending(m, c, rest))
        /\ \A d \in Named(m[c]) : m[d] = Target(m, c) \/ CellOp(d, Target(m, c)) \in Range(q)

Clearing(m, s, c, rest) ==
    /\ c \in Clumps(m) /\ m[c].state \in {"RESERVED", "ACTIVATING", "FREEING"}
    /\ Handed(m, c)
    /\ \E q \in Seq(Clears(c) \union Persists) :
        /\ s = q \o Ending(m, c, rest)
        /\ m[c].state = "ACTIVATING" => WillClear(m, c, q)

Finishing(m, s, c, rest) == Executing(m, s, c, rest) \/ Clearing(m, s, c, rest)

\* It is over: c is ACTIVE or FREE.
Finished(m, s, c, rest) ==
    /\ c \in Clumps(m) /\ m[c].state \in {"ACTIVE", "FREE"}
    /\ s = Persist(c) \o rest

Same(m, w, c) ==
    /\ Walk(w) = Walk(m) /\ Clumps(w) = Clumps(m)
    /\ \A b \in Clumps(m) \ {c} : w[b] = m[b]
    /\ w[c].size = m[c].size

SameCells(m, w) == \A d \in Cell : w[d] = m[d]

\* What else the way out changes.
LinkedBy(m, w, c) ==
    \A d \in Cell : w[d] = m[d] \/ (d \in Named(m[c]) /\ c \in InTransit(m) /\ w[d] = Target(m, c))

Frame(m, w, c) ==
    /\ Sound(w) /\ Same(m, w, c) /\ LinkedBy(m, w, c)
    /\ w[c].state \in {m[c].state, FinalOf(m, c)}
    /\ Named(w[c]) \subseteq Named(m[c])
    /\ InTransit(w) \subseteq InTransit(m)
    /\ w[c].state = m[c].state \/ InTransit(w) \subseteq InTransit(m) \ {c}
    /\ w[c] = m[c] \/ (c \in InTransit(m) => \A d \in Named(m[c]) : w[d] = Target(m, c))

-----------------------------------------------------------------------------
(* The way into ACTIVATING and FREEING *)

OutOf(st) == IF st = "ACTIVATING" THEN "ACTIVE" ELSE "FREE"

Way(l, c, st, rest) ==
    Persist(c) \o (ExecuteSteps(l) \o (ClearOn(c) \o
        (PutSize(c, l.size, OutOf(st)) \o (Persist(c) \o rest))))

Ready(m, c, st) ==
    /\ c \in Clumps(m)
    /\ \/ /\ st = "ACTIVATING" /\ m[c].state = "RESERVED"
          /\ OnList(m[c]) # {} /\ ListSets(m, c, c, {NULL})
       \/ /\ st = "FREEING" /\ m[c].state = "ACTIVE"
          /\ \A d \in Cell : m[d] = c => d \in Named(m[c])

Starting(m, s, c, st, rest) ==
    \E q \in Seq(Persists) : s = q \o (PutSize(c, m[c].size, st) \o Way(m[c], c, st, rest))

-----------------------------------------------------------------------------
(* The scans *)

Calm(m) == InTransit(m) = {}
Recovered(m, c) == \A b \in Clumps(m) : b < c => m[b].state \in {"FREE", "ACTIVE"}
FreeLine(l) == l.size # 0 /\ l.state = "FREE"
Apart(m, c) == \A b \in Clumps(m) : b < c /\ m[b].state = "FREE" => ~FreeLine(m[b + m[b].size])

Scanning(m, s, c) ==
    /\ c \in Walk(m) /\ Apart(m, c)
    /\ \E q \in Seq(Persists) : s = q \o Do("coalesce", c)

Uniting(m, s, c, e) ==
    /\ s = PutSize(c, e - c, "FREE") \o (Persist(c) \o Do("coalesce", e))
    /\ c \in Walk(m) /\ e \in Walk(m) /\ c < e
    /\ \A b \in Clumps(m) : c <= b /\ b < e => m[b].state = "FREE"
    /\ ~FreeLine(m[e])
    /\ Apart(m, c)

Settled(m, s) == s = <<>> /\ Apart(m, LastClump)

Coalescing(m, s) ==
    \/ Settled(m, s)
    \/ \E c \in Chunk : Scanning(m, s, c) \/ \E e \in Chunk : Uniting(m, s, c, e)

\* Free clumps come and go.
Kept(m, w) ==
    /\ Walk(w) \subseteq Walk(m) /\ Clumps(w) \subseteq Clumps(m)
    /\ \A b \in Clumps(m) : m[b].state # "FREE" => b \in Clumps(w) /\ w[b] = m[b]
    /\ \A b \in Clumps(w) : w[b].state # "FREE" => w[b] = m[b]
    /\ SameCells(m, w) /\ InTransit(w) = InTransit(m)

-----------------------------------------------------------------------------
(* pmemalloc_onactive, pmemalloc_onfree *)

FreeEntry(l, i) == i \in Slot /\ l.off[i] = NULL /\ \A j \in 1..(i - 1) : l.off[j] # NULL

Adding(m, s, c, d, p) ==
    \/ \E i \in Slot :
        /\ FreeEntry(m[c], i)
        /\ \/ s = PutPtr(c, i, p) \o (Persist(c) \o (PutOff(c, i, d) \o Persist(c)))
           \/ /\ m[c].ptr[i] = p
              /\ \E q \in Seq(Persists) : s = q \o (PutOff(c, i, d) \o Persist(c))
    \/ s \in Seq(Persists) /\ d \in Named(m[c])

\* The entries of c's list set pointers that are what d is.
Listed(m, c, p, d) == ListSets(m, c, p, {m[d]})

-----------------------------------------------------------------------------
(* pmemalloc_reserve *)

Portion(m, c, n) == IF m[c].size - n >= 2 THEN n ELSE m[c].size
Taking(m, c, n) == PutSize(c, Portion(m, c, n), "RESERVED") \o Persist(c)

Placing(m, c, n) ==
    PutSize(c + n, m[c].size - n, "FREE") \o (Persist(c + n) \o (ResetOn(c) \o Taking(m, c, n)))

Reserving(m, s, c, n) ==
    /\ c \in Clumps(m) /\ n <= m[c].size
    /\ \/ /\ m[c].state = "FREE" /\ m[c].size - n >= 2
          /\ s = Do("blank", c + n) \o Placing(m, c, n) \/ s = Placing(m, c, n)
       \/ /\ m[c].state = "FREE"
          /\ Portion(m, c, n) = m[c].size \/ Cut(m, c, Portion(m, c, n))
          /\ \E q \in Seq(Resets(c) \union Persists) :
                s = q \o Taking(m, c, n) /\ WillClear(m, c, q)
       \/ m[c].state = "RESERVED" /\ EmptyList(m[c]) /\ s \in Seq(Persists)

\* The clumps besides c, those that are free apart.
Others(m, w, c) ==
    /\ \A b \in Clumps(m) \ {c} : m[b].state # "FREE" => b \in Clumps(w) /\ w[b] = m[b]
    /\ \A b \in Clumps(w) \ {c} : w[b].state # "FREE" => b \in Clumps(m) /\ w[b] = m[b]

\* What reserve leaves alone.
Untaken(m, w, c) ==
    /\ Sound(w) /\ SameCells(m, w) /\ Calm(w) /\ Apart(w, LastClump)
    /\ Others(m, w, c)
    /\ w[c].state = "FREE" => m[c].state = "FREE" /\ w[c].size = m[c].size

\* The walk is the one before, or has the rest of c in it, which is durable.
RestPlaced(m, w, s, c, n) ==
    \/ Walk(w) = Walk(m)
    \/ /\ Walk(w) = Walk(m) \union {c + n}
       /\ m[c].state = "FREE" /\ m[c].size - n >= 2 /\ c + n # c
       /\ PersistOp(c + n) \notin Range(s) /\ Head(s).at = c

RestStored(m, s, c, n) ==
    Head(s).do \in Stores =>
        \/ Head(s).at = c /\ Head(s).do # "blank"
        \/ Head(s).at = c + n /\ c + n \notin Walk(m) /\ c + n \in Chunk
           /\ PersistOp(c + n) \in Range(Tail(s))

-----------------------------------------------------------------------------
(* pmemalloc_init: the new file *)

RecoverFrom(c) == Do("recover", c) \o Do("coalesce", 0)
Syncing == Do("fsync", HDR) \o RecoverFrom(0)
Stamping == PutCell(HDR, "*PMEMALLOC_POOL") \o Syncing
Sizing == PutSize(0, LastClump, "FREE") \o Stamping
Allocating == Do("fallocate", HDR) \o Sizing
Making == Do("creat", HDR) \o Allocating
SizeOp0 == [do |-> "size", at |-> 0, size |-> LastClump, state |-> "FREE"]
Whole == [Blank EXCEPT !.size = LastClump]

\* The rest of the pool, and what is durable of it, is as the file was made.
Creating(m, v, s, f) ==
    /\ \A c \in Chunk \ {0} : m[c] = Blank /\ v[c] = Blank
    /\ \A d \in Cell : m[d] = NULL /\ v[d] = NULL
    /\ \/ /\ m[0] = Blank /\ v[0] = Blank
          /\ s = Making \/ s = Allocating \/ (s = Sizing /\ f = "sized")
       \/ m[0] = Whole /\ f = "sized" /\ (s = Stamping \/ s = Syncing)

Recovering(m, s, c) ==
    /\ c \in Walk(m) /\ Recovered(m, c)
    /\ \E q \in Seq(Persists) : s = q \o RecoverFrom(c)

RecoveringAt(m, s, c) ==
    c \in Clumps(m) /\ Recovered(m, c) /\ Finishing(m, s, c, RecoverFrom(c + m[c].size))

Mending(m, s) ==
    \/ \E c \in Chunk : Recovering(m, s, c) \/ RecoveringAt(m, s, c)
    \/ Coalescing(m, s) /\ Recovered(m, LastClump)

FileAfter(f, o) ==
    CASE o.do = "creat" -> "empty" [] o.do = "fallocate" -> "sized" [] OTHER -> f

Working == {"persist", "size", "off", "ptr", "cell"}

-----------------------------------------------------------------------------
(* The series that the calls and the recovery begin *)

\* The store of the state st and what follows it.
Onset(m, c, st, rest) == PutSize(c, m[c].size, st) \o Way(m[c], c, st, rest)

-----------------------------------------------------------------------------
(* Durability *)

Relevant(m, v) == Walk(m) \union Walk(v) \union Cell
Dirty(m, v, x) == \A a \in Relevant(m, v) \ {x} : v[a] = m[a]
Pending(s) == IF s = <<>> THEN HDR ELSE LineOf(Head(s))

\* The memory, what is durable of it, and the steps that are left.
Medium(m, v, s) ==
    /\ Typed(m) /\ Typed(v) /\ Sound(m) /\ Sound(v)
    /\ s \in Flow /\ Dirty(m, v, Pending(s))

\* A line that is durable or will be flushed.
Owed(m, v, s, a) == v[a] = m[a] \/ PersistOp(a) \in Range(s)

-----------------------------------------------------------------------------
(* What the program knows *)

Releasing(k, c) == k.op \in {"activate", "discard"} /\ k.block = c

Reserved(m, c, n) ==
    /\ c \in Clumps(m) /\ m[c].state = "RESERVED" /\ n <= m[c].size
    /\ Packed(m[c]) /\ ListSets(m, c, c, {NULL})

Waiting(m, c) == c \in Clumps(m) /\ m[c].state \in {"RESERVED", "ACTIVATING"}
Dropping(k, d) == k.op \in {"free", "onfree"} /\ d \in k.cells

\* The reservations a, those of them that are filled, and the dropped cells, in
\* the call k of a program that runs or not.
Promised(m, k, a, fl, dr, r) ==
    /\ a \in [Chunk -> {0} \union Request]
    /\ fl \subseteq Chunk /\ \A c \in fl : a[c] # 0
    /\ dr \subseteq Cell
    /\ \A c \in Chunk : a[c] # 0 => Releasing(k, c) \/ Reserved(m, c, a[c])
    /\ \A b, c \in Chunk :
        b # c /\ a[b] # 0 /\ a[c] # 0 /\ Waiting(m, b) /\ Waiting(m, c)
        => Named(m[b]) \cap Named(m[c]) = {}
    /\ \A d \in dr : (m[d] # NULL /\ d \in Named(m[m[d]])) \/ Dropping(k, d)
    /\ ~r => (\A c \in Chunk : a[c] = 0) /\ dr = {}
    /\ r => \A c \in Clumps(m) : m[c].state = "RESERVED" =>
            a[c] # 0 \/ (k.op = "reserve" /\ k.block = c)

\* What a step of the call k does to the cells, and to the block of k.
CellsKept(m, w, a, c) ==
    \A d \in Cell :
        \/ w[d] \in {m[d], NULL}
        \/ c \in Clumps(m) /\ m[c].state = "ACTIVATING" /\ a[c] # 0 /\ d \in Named(m[c])

BlockKept(m, w, k, a, dr, c) ==
    /\ a[c] # 0 => Releasing(k, c) \/ Reserved(w, c, a[c])
    /\ a[c] # 0 /\ Waiting(w, c) => \A b \in Chunk \ {c} :
            a[b] # 0 /\ Reserved(m, b, a[b]) => Named(m[b]) \cap Named(w[c]) = {}
    /\ \A d \in dr : m[d] # NULL /\ d \in Named(m[m[d]]) =>
            Dropping(k, d) \/ (w[d] = m[d] /\ (m[d] = c => d \in Named(w[c])))
    /\ c \in Clumps(w) /\ w[c].state = "RESERVED" => a[c] # 0 \/ k.op = "reserve"

-----------------------------------------------------------------------------
(* A step and what is durable *)

ScanHead == {"recover", "coalesce"}

\* What is durable after the step o.  Without power failures nobody looks.
DurableAfter(m, v, o, p) ==
    IF ~p THEN Effect(m, o)
    ELSE IF o.do = "persist" THEN [v EXCEPT ![o.at] = m[o.at]]
    ELSE IF o.do = "fsync" THEN m ELSE v

DurableFile(f, df, o, p) ==
    IF ~p THEN FileAfter(f, o) ELSE IF o.do = "fsync" THEN f ELSE df

-----------------------------------------------------------------------------
(* The course of a call: pmemalloc_reserve *)

InReserve(m, v, s, k, a) ==
    /\ Calm(m) /\ Apart(m, LastClump)
    /\ k.n \in Request /\ a[k.block] = 0
    /\ Reserving(m, s, k.block, k.n)
    /\ m[k.block].state = "FREE" /\ m[k.block].size - k.n >= 2 => Owed(m, v, s, k.block + k.n)

-----------------------------------------------------------------------------
(* The course of a call: pmemalloc_onactive, pmemalloc_onfree *)

InOnActive(m, s, k, a) ==
    LET c == k.block IN
    /\ Calm(m) /\ Apart(m, LastClump) /\ a[c] # 0
    /\ \E d \in Cell :
        /\ k.cells = {d} /\ m[d] = NULL /\ Adding(m, s, c, d, c)
        /\ \A b \in Chunk \ {c} : a[b] # 0 => d \notin Named(m[b])

InOnFree(m, s, k) ==
    LET c == k.block IN
    /\ Calm(m) /\ Apart(m, LastClump)
    /\ \E d \in Cell : k.cells = {d} /\ m[d] = c /\ Adding(m, s, c, d, NULL)

-----------------------------------------------------------------------------
(* The course of a call: pmemalloc_activate *)

Activating(m, s, k, a) ==
    LET c == k.block IN
    \/ /\ Calm(m) /\ Reserved(m, c, a[c]) /\ OnList(m[c]) # {} /\ k.cells = Named(m[c])
       /\ Starting(m, s, c, "ACTIVATING", <<>>)
    \/ /\ m[c].state = "ACTIVATING" /\ Finishing(m, s, c, <<>>)
       /\ \A d \in Cell : m[d] = c \/ d \in Named(m[c]) => d \in k.cells
    \/ Calm(m) /\ c \in Clumps(m) /\ m[c].state = "ACTIVE" /\ s \in Seq(Persists)

InActivate(m, s, k, a, fl, dr) ==
    /\ Apart(m, LastClump) /\ a[k.block] # 0 /\ k.block \in fl /\ k.cells \cap dr = {}
    /\ Activating(m, s, k, a)

-----------------------------------------------------------------------------
(* The course of a call: pmemalloc_free *)

Coalesce == Do("coalesce", 0)

InFree(m, s, k, a) ==
    LET c == k.block IN
    /\ a[c] = 0
    /\ \/ /\ Calm(m) /\ Ready(m, c, "FREEING") /\ Starting(m, s, c, "FREEING", Coalesce)
          /\ \A d \in Cell : m[d] = c <=> d \in k.cells
       \/ /\ m[c].state = "FREEING" /\ Finishing(m, s, c, Coalesce)
          /\ \A d \in Cell : m[d] = c => d \in k.cells
       \/ Calm(m) /\ Coalescing(m, s) /\ \A d \in Cell : m[d] # c

InDiscard(m, s, k, a) ==
    LET c == k.block IN
    /\ a[c] # 0 /\ Calm(m)
    /\ \/ m[c].state = "RESERVED" /\ Clearing(m, s, c, Coalesce)
       \/ Coalescing(m, s) /\ (c \in Clumps(m) => m[c].state # "RESERVED")

-----------------------------------------------------------------------------
(* The course of a call: pmemalloc_init *)

Opening(m, v, s, k, f, df) ==
    /\ k = [NoCall EXCEPT !.op = "init"]
    /\ Creating(m, v, s, f) \/ (f = "sized" /\ df = "sized" /\ Mending(m, s))

FileFits(m, v, f, df) ==
    /\ f # "sized" => Untouched(m) /\ Untouched(v)
    /\ df # "sized" => Untouched(v)

-----------------------------------------------------------------------------
(* Every call *)

Quiet(m) == Calm(m) /\ Apart(m, LastClump)

Between(m, s, k, r, f, df) ==
    k = NoCall /\ s = <<>> /\ f = df /\ (r => f = "sized" /\ Quiet(m))

UserCalls == {"reserve", "onactive", "onfree", "activate", "free", "discard"}

Course(m, v, s, k, a, fl, dr, r, f, df) ==
    /\ k.op \in {"none", "init"} \union UserCalls
    /\ k.op = "none" => Between(m, s, k, r, f, df)
    /\ k.op = "init" => ~r /\ Opening(m, v, s, k, f, df)
    /\ k.op \in UserCalls => r /\ f = "sized" /\ df = "sized" /\ k.block \in Chunk /\ k.cells \subseteq Cell
    /\ k.op = "reserve" => InReserve(m, v, s, k, a)
    /\ k.op = "onactive" => InOnActive(m, s, k, a)
    /\ k.op = "onfree" => InOnFree(m, s, k)
    /\ k.op = "activate" => InActivate(m, s, k, a, fl, dr)
    /\ k.op = "free" => InFree(m, s, k, a)
    /\ k.op = "discard" => InDiscard(m, s, k, a)

-----------------------------------------------------------------------------
(* The invariant *)

\* At most one kind of failure happens in a behaviour.
OneKindFails == ~({"power", "kill"} \subseteq failures)

\* The file the next process finds.
durableFile == IF "power" \in failures THEN pfile ELSE file

\* Memory, medium, file, the call's steps and the program, in agreement.
Agreed(m, v, s, k, a, fl, dr, r, f, df) ==
    /\ r \in BOOLEAN
    /\ Medium(m, v, s)
    /\ FileFits(m, v, f, df)
    /\ Promised(m, k, a, fl, dr, r)
    /\ Course(m, v, s, k, a, fl, dr, r, f, df)

Background ==
    /\ OneKindFails /\ failures \in FailureModes
    /\ file \in {"absent", "empty", "sized"} /\ pfile \in {"absent", "empty", "sized"}
    /\ MediumOK(pm)

IInv ==
    /\ Background
    /\ Agreed(mem, survivor, todo, call, asked, filled, dropped, up, file, durableFile)

-----------------------------------------------------------------------------
(* The pool is opened, the process ends *)

NoReservation == [c \in Chunk |-> 0]

\* The process is gone between two calls.
Gone ==
    /\ up' = FALSE /\ call' = NoCall /\ todo' = <<>>
    /\ asked' = NoReservation /\ filled' = {} /\ dropped' = {}
    /\ UNCHANGED failures

-----------------------------------------------------------------------------
(* The program writes to its block *)

FilledWith(m, c, n) ==
    [x \in DOMAIN m |-> IF x \in (c + 1)..(c + n - 1) THEN Data(n) ELSE m[x]]

-----------------------------------------------------------------------------
(* The call returns *)

\* The blocks of fl that are still reserved.
StillHeld(fl, b) == {c \in fl : b[c] # 0}

NowAsked(k, a) ==
    CASE k.op = "reserve" -> [a EXCEPT ![k.block] = k.n]
      [] k.op \in {"activate", "discard"} -> [a EXCEPT ![k.block] = 0]
      [] OTHER -> a

NowDropped(k, dr) == IF k.op = "free" THEN dr \ k.cells ELSE dr
NowFilled(k, a, fl) == {c \in fl : NowAsked(k, a)[c] # 0}

-----------------------------------------------------------------------------
(* One step and the pointers *)

\* The call k makes the pointers x the pointers y.
Linking(k, x, y) ==
    /\ k.op = "activate" /\ k.cells # {}
    /\ \A d \in Cell : x[d] # k.block
    /\ \A d \in k.cells : x[d] = NULL
    /\ y = [d \in Cell |-> IF d \in k.cells THEN k.block ELSE x[d]]

Unlinking(k, x, y) ==
    /\ k.op = "free" /\ k.cells # {} /\ k.cells = {d \in Cell : x[d] = k.block}
    /\ y = [d \in Cell |-> IF d \in k.cells THEN NULL ELSE x[d]]

HeapEffect(k, x, y) == Linking(k, x, y) \/ Unlinking(k, x, y)

\* The pointers stay, or the call has its effect on them.
Moves(m, w, k) == Cells(w) = Cells(m) \/ HeapEffect(k, Cells(m), Cells(w))

-----------------------------------------------------------------------------
(* The effect of a call, in memory and durable *)

\* The durable pointers are those in memory, or the effect is not yet durable.
Faithful(m, v, k) == Moves(v, m, k)

\* The blocks that the pointers x point at.
Blocks(x) == {x[d] : d \in Cell} \ {NULL}

-----------------------------------------------------------------------------
(* Every step is one of the durable heap, or none *)

AInv == IInv /\ Faithful(mem, survivor, call)

\* The call that the durable heap knows of.
Seen(k) ==
    IF k.op \in {"activate", "free"}
    THEN [op |-> k.op, block |-> k.block, cells |-> k.cells]
    ELSE [op |-> "none", block |-> NULL, cells |-> {}]

-----------------------------------------------------------------------------
(* What the blocks hold *)

\* The lines behind the header of c are those of an object of n chunks.
Has(m, c, n) == \A j \in 1..(n - 1) : m[c + j] = Data(n)

\* The blocks in use in x hold an object, in memory and durably.
Stored(x, m, v) ==
    \A c \in InUse(x) :
        \E n \in Request : n <= x[c].size /\ Has(m, c, n) /\ Has(v, c, n)

\* What the program has written to its reservations is in memory.
Intact(m, k, a, fl) == \A c \in fl : Releasing(k, c) \/ Has(m, c, a[c])

\* The steps s are the flushes q and those that take c to ACTIVATING and on.
Takes(m, c, s, q) == s = q \o Onset(m, c, "ACTIVATING", <<>>)

\* pmemalloc_activate makes it durable before the block is ACTIVATING.
Flushing(m, v, s, k, a) ==
    LET c == k.block IN
    k.op = "activate" /\ m[c].state = "RESERVED" =>
        /\ Has(m, c, a[c])
        /\ \E q \in Seq(Persists) :
            /\ Takes(m, c, s, q)
            /\ \A j \in 1..(a[c] - 1) : Owed(m, v, q, c + j)

Preserved(m, v, s, k, a, fl) ==
    Stored(m, m, v) /\ Stored(v, m, v) /\ Intact(m, k, a, fl) /\ Flushing(m, v, s, k, a)

\* A store that is not to a cell changes the header of a clump and not its size,
\* or is to a line of a free clump, or makes the first clump.
Aimed(m, o) ==
    \/ o.at \notin Chunk
    \/ o.do # "blank" /\ o.at \in Clumps(m) /\ (o.do = "size" => o.size = m[o.at].size)
    \/ /\ o.do \in {"size", "blank"}
       /\ \E b \in Clumps(m) : m[b].state = "FREE" /\ b <= o.at /\ o.at < b + m[b].size
    \/ o.do = "size" /\ Clumps(m) = {}

-----------------------------------------------------------------------------
(* What the blocks hold, in memory and on the medium *)

\* The blocks in use in u are, with their headers, in use in v or in m.
UseFrom(u, v, m) ==
    \A c \in InUse(u) : (c \in InUse(v) /\ u[c] = v[c]) \/ (c \in InUse(m) /\ u[c] = m[c])

-----------------------------------------------------------------------------
(* What the blocks hold, across a step of a call *)

\* After a store of pmemalloc_activate the block, asked for with n chunks, was in
\* use or has just been made ACTIVATING.
Turned(m, v, w, c, n) ==
    /\ w[c].state # "RESERVED"
    /\ \/ c \in InUse(m)
       \/ /\ c \in Clumps(m) /\ m[c].state = "RESERVED"
          /\ n \in Request /\ n <= m[c].size /\ Has(m, c, n) /\ Has(v, c, n)

-----------------------------------------------------------------------------
(* The data survives *)

DInv == IInv /\ Preserved(mem, survivor, todo, call, asked, filled)
=============================================================================
