----------------------------- MODULE PmemAlloc -----------------------------
(***************************************************************************)
(* libpmemalloc/pmemalloc.c: a memory allocator whose pool is a mapped     *)
(* file, over memory whose stores are durable only after pmem_persist, or  *)
(* earlier, when the processor writes a cache line back by itself.         *)
(*                                                                         *)
(* The library is single-threaded and reads nothing but what it wrote, so  *)
(* a call is the sequence of its stores and flushes, kept in todo; each is *)
(* a step of its own, and a failure may come between any two.  Memory is   *)
(* modelled in cache lines of 64 bytes, the library's chunks.  The program *)
(* that uses the library is modelled too: it keeps the protocol that       *)
(* PMEMALLOC_API.txt asks for, with pointers in the static area.           *)
(***************************************************************************)
EXTENDS Naturals, Sequences, FiniteSets, SequencesExt

CONSTANTS
    Cell,         \* the program's pointers in the static area, one per line
    HDR,          \* the line of the pool header
    NULL,
    LastClump,    \* the chunk of the marker that ends the list of clumps
    PMEM_NUM_ON,  \* the length of an on list (3 in the code)
    Request,      \* reservations, in chunks: roundup(size + 64, 64) / 64
    FailureModes  \* what fails: {"power"}, {"kill"} or both, in a behaviour

ASSUME PoolAssumption ==
    /\ LastClump \in Nat \ {0} /\ PMEM_NUM_ON \in Nat \ {0}
    /\ Request \subseteq 2..LastClump
    /\ FailureModes \subseteq SUBSET {"power", "kill"}
    /\ \A c \in 0..LastClump : c \notin Cell /\ c # HDR /\ c # NULL
    /\ HDR \notin Cell /\ NULL \notin Cell

VARIABLES
    file,   \* the pool's file: "absent", "empty" or "sized"
    mem,    \* the contents of every line, as a load would see them
    pfile,  \* the file and its contents, as a power failure would leave them
    pm,
    failures,  \* the failures of this behaviour
    up,     \* pmemalloc_init has returned a pool
    fatal,  \* why the last FATAL ended the process
    call,   \* the call being executed
    todo,   \* what is left of it
    asked,  \* the program's reservations: the chunks asked for, 0 for none
    filled, \* those of them the program has written to
    dropped \* the cells the program has given to pmemalloc_onfree

media == <<file, mem, pfile, pm>>
program == <<asked, filled, dropped>>
vars == <<media, failures, up, fatal, call, todo, program>>

Chunk == 0..LastClump
Slot == 1..PMEM_NUM_ON
States == {"FREE", "RESERVED", "ACTIVATING", "ACTIVE", "FREEING"}

\* The size word of a struct clump holds the state too; on[] is off and ptr.
\* A pointer to a clump's memory is written as the clump's own chunk.
Blank == [size |-> 0, state |-> "FREE",
          off |-> [i \in Slot |-> NULL], ptr |-> [i \in Slot |-> NULL]]

\* A line the program wrote, of an object that takes n chunks.
Data(n) == [Blank EXCEPT !.size = n, !.state = "DATA"]

NoCall == [op |-> "none", block |-> NULL, cells |-> {}, n |-> 0]
-----------------------------------------------------------------------------
(* The stores and flushes a call is made of *)

Do(what, a) == <<[do |-> what, at |-> a]>>
PutSize(c, n, s) == <<[do |-> "size", at |-> c, size |-> n, state |-> s]>>
PutOff(c, i, d) == <<[do |-> "off", at |-> c, i |-> i, val |-> d]>>
PutPtr(c, i, p) == <<[do |-> "ptr", at |-> c, i |-> i, val |-> p]>>
PutCell(d, p) == <<[do |-> "cell", at |-> d, val |-> p]>>
Persist(a) == Do("persist", a)

\* The clump's new state, made durable.
SetState(c, s) == PutSize(c, mem[c].size, s) \o Persist(c)

\* The on list ends at its first empty entry.
OnList(l) == {i \in Slot : \A j \in 1..i : l.off[j] # NULL}
Named(l) == {l.off[i] : i \in OnList(l)}

\* Mutant: the assignments are not made durable one by one.
ExecuteOnLazy(c) ==
    FlattenSeq([i \in 1..Cardinality(OnList(mem[c])) |->
                    PutCell(mem[c].off[i], mem[c].ptr[i])])

\* Execute the on list, persisting each assignment.
ExecuteOn(c) ==
    FlattenSeq([i \in 1..Cardinality(OnList(mem[c])) |->
                    PutCell(mem[c].off[i], mem[c].ptr[i]) \o Persist(mem[c].off[i])])

\* Clear the on list, last to first.
ClearOn(c) ==
    FlattenSeq([k \in Slot |-> PutOff(c, PMEM_NUM_ON + 1 - k, NULL)]) \o Persist(c)

\* The way out of ACTIVATING and FREEING, in calls and in recovery.
Finish(c, s) == ExecuteOn(c) \o ClearOn(c) \o SetState(c, s)

\* pmemalloc_reserve of n chunks in clump c: the steps 1 to 6 of the comment.
Split(c, n) ==
    LET rest == mem[c].size - n IN
    IF rest >= 2
    THEN Do("blank", c + n) \o PutSize(c + n, rest, "FREE") \o Persist(c + n)
    ELSE <<>>
ResetOn(c) ==
    FlattenSeq([i \in Slot |-> PutOff(c, i, NULL) \o PutPtr(c, i, NULL)]) \o Persist(c)
Take(c, n) ==
    LET size == IF mem[c].size - n >= 2 THEN n ELSE mem[c].size
    IN  PutSize(c, size, "RESERVED") \o Persist(c)

\* Mutant: the clump is cut before the header of its rest is there.
ReserveStepsSwapped(c, n) == ResetOn(c) \o Take(c, n) \o Split(c, n)

ReserveSteps(c, n) == Split(c, n) \o ResetOn(c) \o Take(c, n)

\* pmem_persist of the block's memory.  The length is clp->size - 64 with the
\* state still in clp->size: one byte more, the first of the next clump.
PersistData(c) == FlattenSeq([k \in 1..mem[c].size |-> Persist(c + k)])

\* Mutant: the block's memory is not flushed.
ActivateStepsUnflushed(c) == SetState(c, "ACTIVATING") \o Finish(c, "ACTIVE")

ActivateSteps(c) ==
    PersistData(c) \o SetState(c, "ACTIVATING") \o Finish(c, "ACTIVE")

\* Mutant: sz keeps the state bits, and ACTIVE | FREEING is 7, no state at all.
FreeStepsUnmasked(c) ==
    (IF mem[c].state = "ACTIVE"
     THEN SetState(c, "7") \o Finish(c, "FREE")
     ELSE SetState(c, "FREE"))
    \o Do("coalesce", 0)

\* Mutant: free makes its assignments without going through FREEING.
FreeStepsDirect(c) ==
    (IF mem[c].state = "ACTIVE" THEN Finish(c, "FREE") ELSE SetState(c, "FREE"))
    \o Do("coalesce", 0)

FreeSteps(c) ==
    (IF mem[c].state = "ACTIVE"
     THEN SetState(c, "FREEING") \o Finish(c, "FREE")
     ELSE SetState(c, "FREE"))
    \o Do("coalesce", 0)

\* Mutant: recovery does not step over a clump that needs nothing.
RecoverStepsStuck(c) ==
    IF mem[c].size = 0 THEN <<>>
    ELSE CASE mem[c].state = "RESERVED" -> ClearOn(c) \o SetState(c, "FREE") \o Do("recover", c)
           [] mem[c].state = "ACTIVATING" -> Finish(c, "ACTIVE") \o Do("recover", c)
           [] mem[c].state = "FREEING" -> Finish(c, "FREE") \o Do("recover", c)
           [] OTHER -> Do("recover", c + IF mem[c].state = "ACTIVE" THEN 0 ELSE mem[c].size)

\* pmemalloc_recover, one clump.
RecoverSteps(c) ==
    IF mem[c].size = 0 THEN <<>>
    ELSE (CASE mem[c].state = "RESERVED" -> ClearOn(c) \o SetState(c, "FREE")
            [] mem[c].state = "ACTIVATING" -> Finish(c, "ACTIVE")
            [] mem[c].state = "FREEING" -> Finish(c, "FREE")
            [] OTHER -> <<>>)
         \o Do("recover", c + mem[c].size)

\* The clump after the free clumps that start at c.
FreeRunEnd(c) ==
    LET end[b \in Chunk] ==
            IF mem[b].size # 0 /\ mem[b].state = "FREE" THEN end[b + mem[b].size] ELSE b
    IN  end[c]

\* Mutant: a free clump is united with the next one only.
CoalesceStepsPair(c) ==
    LET end == FreeRunEnd(c)
        second == c + mem[c].size
    IN  IF mem[c].size = 0 THEN <<>>
        ELSE IF end <= second THEN Do("coalesce", second)
        ELSE PutSize(c, second + mem[second].size - c, "FREE") \o Persist(c)
             \o Do("coalesce", second + mem[second].size)

\* pmemalloc_coalesce_free, from clump c on: the next free clumps become one.
CoalesceSteps(c) ==
    LET end == FreeRunEnd(c) IN
    IF mem[c].size = 0 THEN <<>>
    ELSE IF end = c THEN Do("coalesce", c + mem[c].size)
    ELSE (IF end > c + mem[c].size
          THEN PutSize(c, end - c, "FREE") \o Persist(c) ELSE <<>>)
         \o Do("coalesce", end)

\* The part of pmemalloc_init that creates the file.
CreateSteps ==
    Do("creat", HDR) \o Do("fallocate", HDR) \o PutSize(0, LastClump, "FREE")
    \o PutCell(HDR, "*PMEMALLOC_POOL") \o Do("fsync", HDR)
-----------------------------------------------------------------------------
Init ==
    /\ file = "absent" /\ pfile = "absent"
    /\ mem = [a \in Chunk \union Cell \union {HDR} |->
                IF a \in Chunk THEN Blank ELSE NULL]
    /\ pm = mem
    /\ failures \in FailureModes
    /\ up = FALSE
    /\ fatal = "none"
    /\ call = NoCall
    /\ todo = <<>>
    /\ asked = [c \in Chunk |-> 0]
    /\ filled = {}
    /\ dropped = {}

Idle == up /\ call = NoCall

\* The program enters a call, which is the steps s.
Enter(op, block, cells, n, s) ==
    /\ call' = [op |-> op, block |-> block, cells |-> cells, n |-> n]
    /\ todo' = s
    /\ UNCHANGED <<media, up, fatal, failures>>

\* FATAL ends the process.
Fatal(why) ==
    /\ fatal' = why
    /\ up' = FALSE
    /\ call' = NoCall
    /\ todo' = <<>>
    /\ asked' = [c \in Chunk |-> 0]
    /\ filled' = {}
    /\ dropped' = {}
    /\ UNCHANGED <<media, failures>>
-----------------------------------------------------------------------------
(* The calls *)

\* pmemalloc_init creates the file or finds it, then recovers and coalesces.
\* An empty file cannot be mapped: pmemalloc_init fails and changes nothing.
InitPool ==
    /\ ~up /\ call = NoCall
    /\ file # "empty"
    /\ call' = [NoCall EXCEPT !.op = "init"]
    /\ todo' = (IF file = "absent" THEN CreateSteps ELSE <<>>)
               \o Do("recover", 0) \o Do("coalesce", 0)
    /\ fatal' = "none"
    /\ UNCHANGED <<media, failures, up, program>>

\* The chunks at which a walk from the first clump arrives, and the clumps.
Walk(m) ==
    LET from[c \in Chunk] ==
            {c} \union IF m[c].size = 0 \/ c + m[c].size > LastClump THEN {}
                       ELSE from[c + m[c].size]
    IN  from[0]
Clumps(m) == {c \in Walk(m) : m[c].size # 0}

FirstFit(c, n) ==
    LET Fits(b) == mem[b].state = "FREE" /\ n <= mem[b].size
    IN  /\ c \in Clumps(mem) /\ Fits(c)
        /\ \A b \in Clumps(mem) : b < c => ~Fits(b)

\* pmemalloc_reserve: first fit.  Without a fit it returns NULL.
Reserve(n) ==
    /\ Idle
    /\ \/ /\ mem[0].size = 0
          /\ Fatal("no clumps found")
       \/ /\ mem[0].size # 0
          /\ \E c \in Chunk :
                FirstFit(c, n) /\ Enter("reserve", c, {}, n, ReserveSteps(c, n))
          /\ UNCHANGED program

\* The program writes to its block; nothing is flushed.
Fill(c) ==
    /\ Idle
    /\ asked[c] # 0 /\ c \notin filled
    /\ filled' = filled \union {c}
    /\ mem' = [a \in DOMAIN mem |->
                IF a \in (c + 1)..(c + asked[c] - 1) THEN Data(asked[c]) ELSE mem[a]]
    /\ UNCHANGED <<file, pfile, pm, up, fatal, failures, call, todo, asked, dropped>>

\* on[i].ptr_ = p, durable, before on[i].off = d, durable.
AddOn(c, i, d, p) == PutPtr(c, i, p) \o Persist(c) \o PutOff(c, i, d) \o Persist(c)

FreeSlot(c, i) ==
    /\ i \in Slot
    /\ mem[c].off[i] = NULL
    /\ \A j \in 1..(i - 1) : mem[c].off[j] # NULL

\* pmemalloc_onactive(c, d, c): d shall point at c.  The program promises an
\* empty cell, and promises it once.
OnActive(c, d) ==
    /\ Idle
    /\ asked[c] # 0
    /\ mem[d] = NULL /\ \A b \in Chunk : asked[b] # 0 => d \notin Named(mem[b])
    /\ \/ \E i \in Slot :
            /\ FreeSlot(c, i)
            /\ Enter("onactive", c, {d}, 0, AddOn(c, i, d, c))
            /\ UNCHANGED program
       \/ /\ \A i \in Slot : mem[c].off[i] # NULL
          /\ Fatal("exceeded onactive limit")

\* pmemalloc_activate, of a block that is written and linked from somewhere.
Activate(c) ==
    /\ Idle
    /\ c \in filled
    /\ OnList(mem[c]) # {}
    /\ Enter("activate", c, Named(mem[c]), 0, ActivateSteps(c))
    /\ UNCHANGED program

\* pmemalloc_onfree(mem[d], d, NULL): d shall be cleared with its block.
OnFree(d) ==
    LET c == mem[d] IN
    /\ Idle
    /\ c # NULL /\ d \notin dropped
    /\ \/ \E i \in Slot :
            /\ FreeSlot(c, i)
            /\ Enter("onfree", c, {d}, 0, AddOn(c, i, d, NULL))
            /\ dropped' = dropped \union {d}
            /\ UNCHANGED <<asked, filled>>
       \/ /\ \A i \in Slot : mem[c].off[i] # NULL
          /\ Fatal("exceeded onfree limit")

\* pmemalloc_free, of a reservation or of a block whose links all go with it.
Free(c) ==
    LET holders == {d \in Cell : mem[d] = c} IN
    /\ Idle
    /\ \/ /\ asked[c] # 0
          /\ Enter("discard", c, {}, 0, FreeSteps(c))
       \/ /\ holders # {} /\ holders \subseteq dropped
          /\ Enter("free", c, holders, 0, FreeSteps(c))
    /\ UNCHANGED program

\* The call returns, and the program notes what it now has.
Return ==
    /\ call # NoCall /\ todo = <<>>
    /\ call' = NoCall
    /\ up' = TRUE
    /\ asked' = CASE call.op = "reserve" -> [asked EXCEPT ![call.block] = call.n]
                  [] call.op \in {"activate", "discard"} -> [asked EXCEPT ![call.block] = 0]
                  [] OTHER -> asked
    /\ filled' = {c \in filled : asked'[c] # 0}
    /\ dropped' = IF call.op = "free" THEN dropped \ call.cells ELSE dropped
    /\ UNCHANGED <<media, fatal, failures, todo>>
-----------------------------------------------------------------------------
(* The steps of a call *)

\* What the medium becomes.  Without power failures nobody ever reads it.
Durable(new, old) == IF "power" \in failures THEN new ELSE old

Written(o) ==
    CASE o.do = "size" -> [mem[o.at] EXCEPT !.size = o.size, !.state = o.state]
      [] o.do = "off" -> [mem[o.at] EXCEPT !.off[o.i] = o.val]
      [] o.do = "ptr" -> [mem[o.at] EXCEPT !.ptr[o.i] = o.val]
      [] o.do = "blank" -> Blank
      [] o.do = "cell" -> o.val

\* One store: a load sees it at once, a power failure does not yet.
Store ==
    LET o == Head(todo) IN
    /\ todo # <<>>
    /\ o.do \in {"size", "off", "ptr", "blank", "cell"}
    /\ mem' = [mem EXCEPT ![o.at] = Written(o)]
    /\ todo' = Tail(todo)
    /\ UNCHANGED <<file, pfile, pm, up, fatal, failures, call, program>>

\* One cache line flushed by pmem_persist.
Flush ==
    LET o == Head(todo) IN
    /\ todo # <<>>
    /\ o.do = "persist"
    /\ pm' = [pm EXCEPT ![o.at] = Durable(mem[o.at], @)]
    /\ todo' = Tail(todo)
    /\ UNCHANGED <<file, mem, pfile, up, fatal, failures, call, program>>

\* The next clump of a scan.
Scan ==
    LET o == Head(todo) IN
    /\ todo # <<>>
    /\ \/ o.do = "recover" /\ todo' = RecoverSteps(o.at) \o Tail(todo)
       \/ o.do = "coalesce" /\ todo' = CoalesceSteps(o.at) \o Tail(todo)
    /\ UNCHANGED <<media, up, fatal, failures, call, program>>

\* A system call on the file.
FileStep ==
    LET o == Head(todo) IN
    /\ todo # <<>>
    /\ \/ o.do = "creat" /\ file' = "empty" /\ UNCHANGED <<pfile, pm>>
       \/ o.do = "fallocate" /\ file' = "sized" /\ UNCHANGED <<pfile, pm>>
       \/ /\ o.do = "fsync"
          /\ pfile' = Durable(file, pfile) /\ pm' = Durable(mem, pm)
          /\ UNCHANGED file
    /\ todo' = Tail(todo)
    /\ UNCHANGED <<mem, up, fatal, failures, call, program>>

Step == Store \/ Flush \/ Scan \/ FileStep

\* The processor, or the kernel, writes back by itself whenever it likes.  Only
\* a power failure can tell.
Evict ==
    /\ "power" \in failures
    /\ \/ /\ pfile = "sized"
          /\ \E a \in DOMAIN mem : mem[a] # pm[a] /\ pm' = [pm EXCEPT ![a] = mem[a]]
          /\ UNCHANGED pfile
       \/ /\ pfile # file
          /\ pfile' = file
          /\ UNCHANGED pm
    /\ UNCHANGED <<file, mem, up, fatal, failures, call, todo, program>>
-----------------------------------------------------------------------------
(* Failures *)

\* The process is gone, with everything the program had in its variables.
ProcessEnds ==
    /\ up' = FALSE
    /\ fatal' = "none"
    /\ call' = NoCall
    /\ todo' = <<>>
    /\ asked' = [c \in Chunk |-> 0]
    /\ filled' = {}
    /\ dropped' = {}
    /\ UNCHANGED failures

\* The program exits between two calls.
Exit == Idle /\ ProcessEnds /\ UNCHANGED media

\* The process dies anywhere; file and caches stay what they are.  This is
\* also what an error return of pmemalloc_init leaves behind.
Kill == "kill" \in failures /\ ProcessEnds /\ UNCHANGED media

\* The power fails: what was not written back is lost.
PowerFailure ==
    /\ "power" \in failures
    /\ ProcessEnds
    /\ file' = pfile
    /\ mem' = pm
    /\ UNCHANGED <<pfile, pm>>

Next ==
    \/ InitPool
    \/ \E n \in Request : Reserve(n)
    \/ \E c \in Chunk : Fill(c) \/ Activate(c) \/ Free(c) \/ \E d \in Cell : OnActive(c, d)
    \/ \E d \in Cell : OnFree(d)
    \/ Return \/ Step \/ Evict
    \/ Exit \/ Kill \/ PowerFailure

Spec == Init /\ [][Next]_vars

\* The processor goes on with a call that has begun.
FairSpec == Spec /\ WF_vars(Step) /\ WF_vars(Return)
-----------------------------------------------------------------------------
(* What must hold *)

Line == [size : 0..LastClump, state : States \union {"DATA"},
         off : [Slot -> Cell \union {NULL}], ptr : [Slot -> Chunk \union {NULL}]]

MediumOK(m) ==
    /\ DOMAIN m = Chunk \union Cell \union {HDR}
    /\ \A c \in Chunk : m[c] \in Line
    /\ \A d \in Cell : m[d] \in Chunk \union {NULL}
    /\ m[HDR] \in {NULL, "*PMEMALLOC_POOL"}

TypeOK ==
    /\ file \in {"absent", "empty", "sized"} /\ pfile \in {"absent", "empty", "sized"}
    /\ MediumOK(mem) /\ MediumOK(pm)
    /\ failures \in FailureModes
    /\ up \in BOOLEAN
    /\ asked \in [Chunk -> {0} \union Request]
    /\ filled \subseteq Chunk
    /\ dropped \subseteq Cell
    /\ call.block \in Chunk \union {NULL} /\ call.cells \subseteq Cell

\* What the next process finds: the durable lines, if the power can fail.
survivor == IF "power" \in failures THEN pm ELSE mem

\* The clumps cover the pool without a gap or an overlap, at every store of
\* every call, in memory and on the medium: no failure loses a byte or leaves
\* a walk that ends anywhere but at the last clump.
PoolTiled ==
    \A m \in {mem, survivor} : m[0].size # 0 =>
        /\ LastClump \in Walk(m) /\ m[LastClump].size = 0
        /\ \A c \in Clumps(m) : m[c].state \in States

\* The blocks in use, and the cells, as pmemalloc_recover will leave them.
InUse(m) == {c \in Clumps(m) : m[c].state \in {"ACTIVATING", "ACTIVE"}}
Cells(m) ==
    LET inTransit == {c \in Clumps(m) : m[c].state \in {"ACTIVATING", "FREEING"}}
        last(l, d) == CHOOSE i \in OnList(l) :
                        l.off[i] = d /\ \A j \in OnList(l) : l.off[j] = d => j <= i
    IN  [d \in Cell |->
            IF \E c \in inTransit : d \in Named(m[c])
            THEN LET l == m[CHOOSE c \in inTransit : d \in Named(m[c])]
                 IN  l.ptr[last(l, d)]
            ELSE m[d]]

\* No failure leaks a block or leaves a pointer to one that is not in use:
\* after recovery the blocks in use are those the program's cells point at.
NoLeak == InUse(survivor) = {Cells(survivor)[d] : d \in Cell} \ {NULL}

\* A block that is in use after a failure holds what the program wrote before
\* it called pmemalloc_activate, to the last line.
DataSurvives ==
    \A c \in InUse(survivor) :
        LET n == survivor[c + 1].size IN
        /\ survivor[c + 1].state = "DATA" /\ n <= survivor[c].size
        /\ \A k \in 1..(n - 1) : survivor[c + k] = Data(n)

\* While the program runs, its reservations are exactly the RESERVED clumps,
\* each at least as large as asked for: none is handed out twice, and none is
\* left over from a process that failed.
ReservationsKept ==
    up /\ call = NoCall =>
        /\ {c \in Clumps(mem) : mem[c].state = "RESERVED"} = {c \in Chunk : asked[c] # 0}
        /\ \A c \in Chunk : asked[c] # 0 => asked[c] <= mem[c].size

\* When a call is over nothing of it is left to do or to lose: no clump is in
\* transit, free clumps are coalesced, clumps and pointers are durable, and the
\* reservations are as the program knows them.
CallsSettle ==
    /\ ReservationsKept
    /\ up /\ todo = <<>> =>
        /\ \A c \in Clumps(mem) :
            /\ mem[c].state \notin {"ACTIVATING", "FREEING"}
            /\ mem[c].state = "FREE" => FreeRunEnd(c) = c + mem[c].size
            /\ survivor[c] = mem[c]
        /\ \A d \in Cell : survivor[d] = mem[d]

\* Every call returns, or its process ends: no scan of the clumps runs on.
CallsReturn == call # NoCall ~> call = NoCall

\* pmemalloc_activate and pmemalloc_free are atomic, failures included.
Heap == INSTANCE DurableHeap WITH
    Block <- Chunk,
    live <- InUse(survivor), cell <- Cells(survivor), up <- up,
    call <- IF call.op \in {"activate", "free"}
            THEN [op |-> call.op, block |-> call.block, cells |-> call.cells]
            ELSE [op |-> "none", block |-> NULL, cells |-> {}]

FailureAtomic == Heap!Spec

(* What the source says of itself and the runs refute *)

\* Up to PMEM_NUM_ON pointers can be set by one pmemalloc_free.  (Cell has no
\* more members where this is checked, and the program names each once.)
OnFreeWithinLimit == fatal # "exceeded onfree limit"
=============================================================================
