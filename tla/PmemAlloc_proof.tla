-------------------------- MODULE PmemAlloc_proof --------------------------
(***************************************************************************)
(* Proofs about the persistent memory allocator, for any pool, length of   *)
(* the on lists, set of requests and cells of the program: the types, that *)
(* after a failure between any two stores or flushes of any call the pool  *)
(* is tiled by its clumps, nothing is leaked, nothing dangles and the      *)
(* blocks in use hold their data, and that the calls are atomic to whoever *)
(* opens the pool after a failure.                                         *)
(*                                                                         *)
(* The hypothesis OneKindFails leaves out the behaviours in which one      *)
(* process is killed and the power fails later: recovery then believes in  *)
(* a store that was never made durable, and NoLeak does not hold.          *)
(*                                                                         *)
(* The order is that of the argument: what is durable after a step, the    *)
(* program's notes, the course of each call, every action, the theorems    *)
(* about the invariant; then what recovery would make of the pointers      *)
(* before and after each action, and the refinement; then which stores     *)
(* miss the blocks, and the data.                                          *)
(***************************************************************************)
EXTENDS PmemSteps

-----------------------------------------------------------------------------
(* Durability *)

LEMMA RelevantLines ==
    ASSUME NEW m, Typed(m), Sound(m), NEW v, Typed(v), Sound(v)
    PROVE  Walk(m) \subseteq Chunk /\ Walk(v) \subseteq Chunk /\ HDR \notin Relevant(m, v)
           /\ Relevant(m, v) \subseteq Chunk \union Cell /\ Sized(m) /\ Sized(v)
<1>1. Walk(m) \subseteq Chunk /\ Walk(v) \subseteq Chunk /\ Sized(m) /\ Sized(v)
  BY TiledFacts, MediumFacts DEF Sound, Typed
<1> QED BY <1>1, Constants DEF Relevant

\* All is durable.
LEMMA DurableIs ==
    ASSUME NEW m, Typed(m), Sound(m), NEW v, Typed(v),
           \A a \in Walk(m) \union Cell : v[a] = m[a]
    PROVE  Walk(v) = Walk(m) /\ Sound(v) /\ Clumps(v) = Clumps(m) /\ \A x : Dirty(m, v, x)
<1>1. Walk(v) = Walk(m) /\ Sound(v) /\ Clumps(v) = Clumps(m)
  BY SoundSame DEF Typed
<1> QED BY <1>1 DEF Dirty, Relevant

LEMMA DirtyNowhere ==
    ASSUME NEW m, Typed(m), Sound(m), NEW v, Typed(v), Sound(v), Dirty(m, v, HDR)
    PROVE  /\ \A a \in Walk(m) \union Cell : v[a] = m[a]
           /\ Walk(v) = Walk(m) /\ Clumps(v) = Clumps(m) /\ \A x : Dirty(m, v, x)
<1>1. \A a \in Walk(m) \union Cell : v[a] = m[a]
  BY RelevantLines DEF Dirty, Relevant
<1> QED BY <1>1, DurableIs

\* A step that stores and flushes nothing, and what follows it.
LEMMA ScanKeeps ==
    ASSUME NEW m, NEW v, NEW s, Medium(m, v, s), Pending(s) = HDR, NEW t \in Flow
    PROVE  Medium(m, v, t)
  BY DirtyNowhere DEF Medium

LEMMA SyncKeeps ==
    ASSUME NEW m, Typed(m), Sound(m), NEW t \in Flow
    PROVE  Medium(m, m, t)
  BY DEF Medium, Dirty

\* A line is written back.
LEMMA WriteBack ==
    ASSUME NEW m, Typed(m), Sound(m), NEW v, Typed(v), Sound(v), NEW x, Dirty(m, v, x),
           NEW a \in DOMAIN m, NEW u, u = [v EXCEPT ![a] = m[a]]
    PROVE  /\ Typed(u) /\ Sound(u) /\ Dirty(m, u, x)
           /\ x = a => \A y : Dirty(m, u, y)
           /\ u[a] = m[a] /\ \A b \in DOMAIN m \ {a} : u[b] = v[b]
<1>0. /\ MediumOK(m) /\ MediumOK(v) /\ DOMAIN m = Chunk \union Cell \union {HDR} /\ DOMAIN v = DOMAIN m
      /\ DOMAIN u = DOMAIN m
      /\ Walk(m) \subseteq Chunk /\ Walk(v) \subseteq Chunk /\ Relevant(m, v) \subseteq Chunk \union Cell
  BY RelevantLines, MediumFacts DEF Typed
<1>1. u[a] = m[a] /\ \A b \in DOMAIN m \ {a} : u[b] = v[b]
  BY <1>0
<1>2. Typed(u)
  BY <1>0, <1>1 DEF Typed, MediumOK, Fits
<1>3. CASE a \notin Walk(v) \union Cell \/ v[a] = m[a]
  <2>1. \A b \in Walk(v) \union Cell : u[b] = v[b]
    BY <1>0, <1>1, <1>3
  <2>2. Walk(u) = Walk(v) /\ Sound(u)
    BY <2>1, <1>0, <1>2, SoundSame DEF Typed
  <2>3. Dirty(m, u, x)
    BY <2>1, <2>2, <1>0, <1>1 DEF Dirty, Relevant
  <2>4. ASSUME x = a, NEW y, NEW b \in Relevant(m, u) \ {y} PROVE u[b] = m[b]
    <3>1. b \in Relevant(m, v)
      BY <2>2, <2>4 DEF Relevant
    <3> QED BY <3>1, <2>4, <1>0, <1>1 DEF Dirty
  <2> QED BY <2>2, <2>3, <2>4, <1>1, <1>2 DEF Dirty
<1>4. CASE a \in Walk(v) \union Cell /\ v[a] # m[a]
  <2>1. a = x
    BY <1>4 DEF Dirty, Relevant
  <2>2. \A b \in Walk(m) \union Cell : u[b] = m[b]
    BY <2>1, <1>0, <1>1 DEF Dirty, Relevant
  <2> QED BY <2>2, <1>1, <1>2, DurableIs
<1> QED BY <1>3, <1>4

LEMMA EvictKeeps ==
    ASSUME NEW m, NEW v, NEW s, Medium(m, v, s), NEW a \in DOMAIN m
    PROVE  Medium(m, [v EXCEPT ![a] = m[a]], s)
<1> DEFINE u == [v EXCEPT ![a] = m[a]]
<1>1. Typed(u) /\ Sound(u) /\ Dirty(m, u, Pending(s))
  <2> HIDE DEF u
  <2>1. PICK x : x = Pending(s)
    OBVIOUS
  <2>2. Dirty(m, v, x)
    BY <2>1 DEF Medium
  <2> QED BY <2>1, <2>2, WriteBack DEF Medium, u
<1> HIDE DEF u
<1>2. Medium(m, u, s)
  BY <1>1 DEF Medium
<1> QED BY <1>2 DEF u

LEMMA FlushKeeps ==
    ASSUME NEW m, NEW v, NEW s, Medium(m, v, s), s # <<>>, Head(s) \in Persists
    PROVE  /\ Medium(m, [v EXCEPT ![Head(s).at] = m[Head(s).at]], Tail(s))
           /\ Head(s).at \in DOMAIN m
<1> DEFINE a == Head(s).at
           u == [v EXCEPT ![a] = m[a]]
<1>1. a \in Chunk \union Cell /\ LineOf(Head(s)) = a
  BY DEF Persists, LineOf
<1>2. a \in DOMAIN m
  BY <1>1, MediumFacts DEF Medium, Typed
<1>3. Tail(s) \in Flow
  BY FlowNext DEF Medium
<1>4. Dirty(m, v, a)
  BY <1>1 DEF Medium, Pending
<1> HIDE DEF a
<1>5. Typed(u) /\ Sound(u) /\ \A y : Dirty(m, u, y)
  <2> HIDE DEF u
  <2> QED BY <1>2, <1>4, WriteBack DEF Medium, u
<1> HIDE DEF u
<1>6. Medium(m, u, Tail(s))
  BY <1>3, <1>5 DEF Medium
<1> QED BY <1>2, <1>6 DEF u, a

\* A store, while the walk gets no line that is not durable.
LEMMA StoreKeeps ==
    ASSUME NEW m, NEW v, NEW s, Medium(m, v, s), s # <<>>, Head(s).do \in Stores,
           NEW w, w = Effect(m, Head(s)), Sound(w),
           NEW E, Walk(w) \subseteq Walk(m) \union E,
           \A a \in E : v[a] = m[a] /\ a # Head(s).at,
           Head(s).do = "blank" => Head(s).at \in Chunk /\ Head(s).at \notin Walk(m)
    PROVE  Medium(w, v, Tail(s))
<1> DEFINE o == Head(s)
<1>0. o \in Ops /\ Tail(s) \in Flow
      /\ (o.do \in Storing => Tail(s) # <<>> /\ LineOf(Head(Tail(s))) = Behind(o))
  BY FlowNext DEF Medium
<1>1. Typed(w) /\ \A a \in DOMAIN m \ {o.at} : w[a] = m[a]
  BY <1>0, EffectTyped DEF Medium
<1>2. /\ DOMAIN m = Chunk \union Cell \union {HDR} /\ Walk(m) \subseteq Chunk /\ Walk(v) \subseteq Chunk
      /\ Walk(w) \subseteq Chunk /\ HDR \notin Chunk \union Cell
  BY <1>1, RelevantLines, MediumFacts, Constants DEF Medium, Typed
<1>3. Dirty(m, v, Pending(s)) /\ Pending(s) = LineOf(o)
  BY DEF Medium, Pending
<1>4. Dirty(w, v, Pending(Tail(s)))
  <2> SUFFICES ASSUME NEW a \in Relevant(w, v), a # Pending(Tail(s)) PROVE v[a] = w[a]
    BY DEF Dirty
  <2>1. a \in Chunk \union Cell /\ a # HDR /\ (a \in Relevant(m, v) \/ a \in E)
    BY <1>2 DEF Relevant
  <2>2. CASE a # o.at
    <3>1. w[a] = m[a]
      BY <2>1, <2>2, <1>1, <1>2
    <3>2. CASE a \in E
      BY <3>1, <3>2
    <3>3. CASE a \in Relevant(m, v)
      <4>1. CASE o = Magic
        <5>1. LineOf(o) = 0 /\ o.do = "cell" /\ Behind(o) = 0
          BY <4>1 DEF LineOf, Magic, CellOp, Behind
        <5>2. Pending(Tail(s)) = 0
          BY <5>1, <1>0 DEF Pending, Storing
        <5> QED BY <5>1, <5>2, <3>1, <3>3, <1>3 DEF Dirty
      <4>2. CASE o # Magic
        <5>1. LineOf(o) \in {o.at, HDR}
          BY <4>2 DEF LineOf, Stores
        <5> QED BY <5>1, <3>1, <3>3, <2>1, <2>2, <1>3 DEF Dirty
      <4> QED BY <4>1, <4>2
    <3> QED BY <3>2, <3>3, <2>1
  <2>3. CASE a = o.at
    <3>1. CASE o.do = "blank"
      <4>1. o.at \in Chunk /\ o.at \notin Walk(m) /\ o.at \notin Cell /\ o.at \notin E
        BY <3>1, Constants
      <4>2. LineOf(o) = HDR
        <5>1. Magic.do = "cell"
          BY DEF Magic, CellOp
        <5> QED BY <5>1, <3>1 DEF LineOf
      <4>3. Walk(v) = Walk(m)
        BY <4>2, <1>3, DirtyNowhere DEF Medium
      <4> QED BY <4>1, <4>3, <2>1, <2>3 DEF Relevant
    <3>2. CASE o.do # "blank"
      <4>1. o.do \in Storing
        BY <3>2 DEF Stores, Storing
      <4>2. Pending(Tail(s)) = o.at
        BY <4>1, <2>1, <2>3, <1>0 DEF Pending, Behind
      <4> QED BY <4>2, <2>3
    <3> QED BY <3>1, <3>2
  <2> QED BY <2>2, <2>3
<1> QED BY <1>0, <1>1, <1>4 DEF Medium

LEMMA OwedStep ==
    ASSUME NEW m, NEW v, NEW s, s \in Seq(Ops), s # <<>>, NEW a, Owed(m, v, s, a),
           NEW w, w[a] = m[a], NEW u,
           u[a] = v[a] \/ u[a] = w[a],
           Head(s) = PersistOp(a) => u[a] = w[a]
    PROVE  Owed(w, u, Tail(s), a)
<1>1. Range(s) = {Head(s)} \union Range(Tail(s))
  <2>2. <<>> \in Seq(Ops)
    OBVIOUS
  <2> QED BY <2>2, Peel
<1> QED BY <1>1 DEF Owed

-----------------------------------------------------------------------------
(* What the program knows *)

LEMMA PromisedStep ==
    ASSUME NEW m, NEW w, NEW k, NEW a, NEW fl, NEW dr, Typed(m), Sound(m), Typed(w), Tiled(w),
           Promised(m, k, a, fl, dr, TRUE), k.block \in Chunk,
           Others(m, w, k.block), CellsKept(m, w, a, k.block), BlockKept(m, w, k, a, dr, k.block)
    PROVE  Promised(w, k, a, fl, dr, TRUE)
<1> DEFINE c == k.block
<1>0. Clumps(m) \subseteq Chunk /\ Clumps(w) \subseteq Chunk /\ c \in Chunk
  BY TiledFacts DEF Sound, Typed
<1>1. ASSUME NEW b \in Chunk \ {c}, a[b] # 0
      PROVE  Reserved(m, b, a[b]) /\ b \in Clumps(w) /\ w[b] = m[b]
  <2>1. Reserved(m, b, a[b])
    BY <1>1 DEF Promised, Releasing
  <2> QED BY <2>1, <1>1 DEF Reserved, Others
<1>2. ASSUME NEW b \in Chunk \ {c}, a[b] # 0 PROVE Reserved(w, b, a[b])
  <2>1. Reserved(m, b, a[b]) /\ b \in Clumps(w) /\ w[b] = m[b]
    BY <1>1, <1>2
  <2>2. ASSUME NEW i \in OnList(m[b]) PROVE m[b].ptr[i] = b /\ w[m[b].off[i]] = NULL
    <3>1. m[b].ptr[i] = b /\ m[m[b].off[i]] = NULL /\ m[b].off[i] \in Named(m[b])
      BY <2>1, <2>2 DEF Reserved, ListSets, Named
    <3>2. m[b].off[i] \in Cell
      BY <3>1, NamedCells DEF Typed
    <3>3. CASE w[m[b].off[i]] \in {m[m[b].off[i]], NULL}
      BY <3>1, <3>3
    <3>4. CASE w[m[b].off[i]] \notin {m[m[b].off[i]], NULL}
      <4>1. c \in Clumps(m) /\ m[c].state = "ACTIVATING" /\ a[c] # 0 /\ m[b].off[i] \in Named(m[c])
        BY <3>2, <3>4 DEF CellsKept
      <4>2. Named(m[b]) \cap Named(m[c]) = {}
        <5>1. Waiting(m, b) /\ Waiting(m, c)
          BY <2>1, <4>1 DEF Waiting, Reserved
        <5> QED BY <5>1, <4>1, <1>0, <1>2 DEF Promised
      <4> QED BY <4>1, <4>2, <3>1
    <3> QED BY <3>3, <3>4
  <2> QED BY <2>1, <2>2 DEF Reserved, ListSets
<1>3. \A b \in Chunk : a[b] # 0 => Releasing(k, b) \/ Reserved(w, b, a[b])
  <2>1. a[c] # 0 => Releasing(k, c) \/ Reserved(w, c, a[c])
    BY DEF BlockKept
  <2> QED BY <1>2, <2>1
<1>4. ASSUME NEW b \in Chunk, NEW e \in Chunk, b # e, a[b] # 0, a[e] # 0, Waiting(w, b), Waiting(w, e)
      PROVE  Named(w[b]) \cap Named(w[e]) = {}
  <2>1. CASE b # c /\ e # c
    <3>1. Reserved(m, b, a[b]) /\ w[b] = m[b] /\ Reserved(m, e, a[e]) /\ w[e] = m[e]
      BY <1>1, <1>4, <2>1
    <3>2. Waiting(m, b) /\ Waiting(m, e)
      BY <3>1 DEF Waiting, Reserved
    <3> QED BY <3>1, <3>2, <1>4 DEF Promised
  <2>2. CASE b = c
    <3>1. Reserved(m, e, a[e]) /\ w[e] = m[e]
      BY <1>1, <1>4, <2>2
    <3>2. Named(m[e]) \cap Named(w[c]) = {}
      BY <3>1, <1>4, <2>2 DEF BlockKept
    <3> QED BY <3>1, <3>2, <2>2
  <2>3. CASE e = c
    <3>1. Reserved(m, b, a[b]) /\ w[b] = m[b]
      BY <1>1, <1>4, <2>3
    <3>2. Named(m[b]) \cap Named(w[c]) = {}
      BY <3>1, <1>4, <2>3 DEF BlockKept
    <3> QED BY <3>1, <3>2, <2>3
  <2> QED BY <2>1, <2>2, <2>3
<1>5. ASSUME NEW d \in dr PROVE (w[d] # NULL /\ d \in Named(w[w[d]])) \/ Dropping(k, d)
  <2>1. CASE Dropping(k, d)
    BY <2>1
  <2>2. CASE ~Dropping(k, d)
    <3>1. d \in Cell /\ m[d] # NULL /\ d \in Named(m[m[d]])
      BY <1>5, <2>2 DEF Promised
    <3>2. w[d] = m[d] /\ (m[d] = c => d \in Named(w[c]))
      BY <3>1, <2>2, <1>5 DEF BlockKept
    <3>3. CASE m[d] = c
      BY <3>1, <3>2, <3>3
    <3>4. CASE m[d] # c
      <4>1. m[d] \in Clumps(m) /\ m[m[d]].state # "FREE"
        BY <3>1 DEF Sound, PointersOK
      <4>2. w[m[d]] = m[m[d]]
        BY <4>1, <3>4 DEF Others
      <4> QED BY <4>2, <3>1, <3>2
    <3> QED BY <3>3, <3>4
  <2> QED BY <2>1, <2>2
<1>6. ASSUME NEW b \in Clumps(w), w[b].state = "RESERVED"
      PROVE  a[b] # 0 \/ (k.op = "reserve" /\ k.block = b)
  <2>1. CASE b = c
    BY <2>1, <1>6 DEF BlockKept
  <2>2. CASE b # c
    <3>1. b \in Clumps(m) /\ m[b].state = "RESERVED"
      BY <2>2, <1>6 DEF Others
    <3> QED BY <3>1, <2>2 DEF Promised
  <2> QED BY <2>1, <2>2
<1>7. /\ a \in [Chunk -> {0} \union Request] /\ fl \subseteq Chunk /\ (\A e \in fl : a[e] # 0)
      /\ dr \subseteq Cell
  BY DEF Promised
<1> QED BY <1>3, <1>4, <1>5, <1>6, <1>7 DEF Promised

\* A process that has no pool promises nothing.
LEMMA PromisedNothing ==
    ASSUME NEW m, NEW w, NEW k, NEW j, NEW a, NEW fl, NEW dr, Promised(m, k, a, fl, dr, FALSE)
    PROVE  Promised(w, j, a, fl, dr, FALSE)
BY DEF Promised

\* Besides the block, the step changes nothing.
LEMMA PromisedSame ==
    ASSUME NEW m, NEW w, NEW k, NEW a, NEW fl, NEW dr, NEW r, Promised(m, k, a, fl, dr, r),
           Typed(m), Sound(m), Walk(w) = Walk(m), Clumps(w) = Clumps(m),
           \A x \in Walk(m) \union Cell : w[x] = m[x]
    PROVE  Promised(w, k, a, fl, dr, r)
<1>0. \A c \in Clumps(m) : c \in Walk(m) /\ c \in Chunk /\ w[c] = m[c] /\ Named(m[c]) \subseteq Cell
  BY TiledFacts, NamedCells DEF Sound, Typed
<1>1. ASSUME NEW c \in Chunk, NEW n, Reserved(m, c, n) PROVE Reserved(w, c, n)
  <2>1. c \in Clumps(m) /\ w[c] = m[c] /\ \A i \in OnList(m[c]) : m[c].off[i] \in Cell
    BY <1>0, <1>1, NamedCells DEF Reserved, Typed
  <2> QED BY <2>1, <1>1 DEF Reserved, ListSets
<1>2. \A c \in Chunk : Waiting(w, c) => Waiting(m, c) /\ w[c] = m[c]
  BY <1>0 DEF Waiting
<1>3. ASSUME NEW d \in Cell, m[d] # NULL, d \in Named(m[m[d]]) PROVE w[d] # NULL /\ d \in Named(w[w[d]])
  <2>1. m[d] \in Clumps(m)
    BY <1>3 DEF Sound, PointersOK
  <2> QED BY <2>1, <1>0, <1>3
<1> QED BY <1>0, <1>1, <1>2, <1>3 DEF Promised

-----------------------------------------------------------------------------
(* A step and what is durable *)

LEMMA OpsKinds ==
    ASSUME NEW o \in Ops
    PROVE  /\ o.do \in Stores \union {"persist", "creat", "fallocate", "fsync"} \union ScanHead
           /\ o.do = "persist" => o \in Persists
           /\ o.do \in ScanHead => o \in ScanOps
           /\ o.do \in {"creat", "fallocate", "fsync"} => o \in FileOps
           /\ o.do = "blank" => o \in BlankOps
BY DEF Ops, Persists, SizeOps, OffOps, PtrOps, CellOps, ScanOps, BlankOps, FileOps, Magic, CellOp,
       Stores, ScanHead

LEMMA MediumStep ==
    ASSUME NEW m, NEW v, NEW s, Medium(m, v, s), s # <<>>, Head(s).do \notin ScanHead,
           NEW p \in BOOLEAN, ~p => v = m,
           NEW w, w = Effect(m, Head(s)), Sound(w),
           NEW E, Head(s).do \in Stores =>
                /\ Walk(w) \subseteq Walk(m) \union E
                /\ \A a \in E : v[a] = m[a] /\ a # Head(s).at
                /\ Head(s).do = "blank" => Head(s).at \in Chunk /\ Head(s).at \notin Walk(m)
    PROVE  LET u == DurableAfter(m, v, Head(s), p) IN
           Medium(w, u, Tail(s)) /\ (~p => u = w)
<1> DEFINE o == Head(s)
           u == DurableAfter(m, v, Head(s), p)
<1>0. /\ Typed(m) /\ Sound(m) /\ s \in Flow /\ o \in Ops /\ Tail(s) \in Flow
  BY FlowNext DEF Medium
<1>1. Typed(w)
  BY <1>0, EffectTyped
<1>2. CASE ~p
  <2>1. u = w
    BY <1>2 DEF DurableAfter
  <2> HIDE DEF u
  <2>2. Medium(w, w, Tail(s))
    BY <1>0, <1>1, SyncKeeps
  <2> QED BY <2>1, <2>2 DEF u
<1>3. CASE p /\ o.do = "persist"
  <2>1. o \in Persists
    BY <1>0, <1>3, OpsKinds
  <2>2. w = m
    BY <2>1, EffectNone
  <2>3. u = [v EXCEPT ![o.at] = m[o.at]]
    BY <1>3 DEF DurableAfter
  <2> HIDE DEF u
  <2>4. Medium(m, [v EXCEPT ![o.at] = m[o.at]], Tail(s))
    BY <2>1, FlushKeeps
  <2> QED BY <1>3, <2>2, <2>3, <2>4 DEF u
<1>4. CASE p /\ o.do \in {"creat", "fallocate", "fsync"}
  <2>1. o \in FileOps /\ w = m
    BY <1>0, <1>4, OpsKinds, EffectNone
  <2>2. CASE o.do = "fsync"
    <3>1. u = m
      BY <1>4, <2>2 DEF DurableAfter
    <3> HIDE DEF u
    <3>2. Medium(m, m, Tail(s))
      BY <1>0, SyncKeeps
    <3> QED BY <1>4, <2>1, <3>1, <3>2 DEF u
  <2>3. CASE o.do # "fsync"
    <3>1. u = v
      BY <1>4, <2>3 DEF DurableAfter
    <3>2. Pending(s) = HDR
      BY <1>4, <2>3 DEF Pending, LineOf, Magic, CellOp
    <3> HIDE DEF u
    <3>3. Medium(m, v, Tail(s))
      BY <1>0, <3>2, ScanKeeps
    <3> QED BY <1>4, <2>1, <3>1, <3>3 DEF u
  <2> QED BY <2>2, <2>3
<1>5. CASE p /\ o.do \in Stores
  <2>1. u = v
    BY <1>5 DEF DurableAfter, Stores
  <2> HIDE DEF u
  <2>2. Medium(w, v, Tail(s))
    BY <1>5, StoreKeeps
  <2> QED BY <1>5, <2>1, <2>2 DEF u
<1> QED BY <1>0, <1>2, <1>3, <1>4, <1>5, OpsKinds

\* The walk gets no other line.
LEMMA PlainStep ==
    ASSUME NEW m, NEW v, NEW s, Medium(m, v, s), s # <<>>, Head(s).do \notin ScanHead,
           NEW p \in BOOLEAN, ~p => v = m,
           NEW w, w = Effect(m, Head(s)), Sound(w), Walk(w) \subseteq Walk(m),
           Head(s).do # "blank"
    PROVE  Medium(w, DurableAfter(m, v, Head(s), p), Tail(s))
           /\ (~p => DurableAfter(m, v, Head(s), p) = w)
<1> DEFINE E == {}
<1>1. /\ Medium(m, v, s) /\ s # <<>> /\ Head(s).do \notin ScanHead /\ p \in BOOLEAN
      /\ (~p => v = m) /\ w = Effect(m, Head(s)) /\ Sound(w)
      /\ Head(s).do \in Stores =>
              /\ Walk(w) \subseteq Walk(m) \union E
              /\ \A b \in E : v[b] = m[b] /\ b # Head(s).at
              /\ Head(s).do = "blank" => Head(s).at \in Chunk /\ Head(s).at \notin Walk(m)
  OBVIOUS
<1> HIDE DEF E
<1> QED BY ONLY <1>1, MediumStep

\* A line that will be flushed, across any step that leaves it.
LEMMA OwedAfter ==
    ASSUME NEW m, NEW v, NEW s, Medium(m, v, s), s # <<>>, NEW p \in BOOLEAN, NEW a \in Chunk,
           Owed(m, v, s, a), NEW w, w = Effect(m, Head(s)), w[a] = m[a]
    PROVE  Owed(w, DurableAfter(m, v, Head(s), p), Tail(s), a)
<1> DEFINE o == Head(s)
           u == DurableAfter(m, v, Head(s), p)
<1>0. s \in Flow /\ o \in Ops /\ s \in Seq(Ops) /\ DOMAIN v = Chunk \union Cell \union {HDR}
  BY FlowNext, MediumFacts DEF Medium, Flow, Typed
<1>1. u[a] = v[a] \/ u[a] = w[a]
  <2>1. CASE ~p
    BY <2>1 DEF DurableAfter
  <2>2. CASE p /\ o.do = "persist"
    <3>1. o \in Persists
      BY <1>0, <2>2, OpsKinds
    <3>2. u = [v EXCEPT ![o.at] = m[o.at]]
      BY <2>2 DEF DurableAfter
    <3> QED BY <3>1, <3>2, <1>0
  <2>3. CASE p /\ o.do # "persist"
    BY <2>3 DEF DurableAfter
  <2> QED BY <2>1, <2>2, <2>3
<1>2. o = PersistOp(a) => u[a] = w[a]
  <2> SUFFICES ASSUME o = PersistOp(a) PROVE u[a] = w[a]
    OBVIOUS
  <2>1. o.do = "persist" /\ o.at = a
    BY DEF PersistOp
  <2>2. CASE ~p
    BY <2>2 DEF DurableAfter
  <2>3. CASE p
    <3>1. u = [v EXCEPT ![a] = m[a]]
      BY <2>1, <2>3 DEF DurableAfter
    <3> QED BY <3>1, <1>0
  <2> QED BY <2>2, <2>3
<1> HIDE DEF u
<1>3. u[a] = v[a] \/ u[a] = w[a]
  BY <1>1
<1>4. Owed(w, u, Tail(s), a)
  BY <1>0, <1>2, <1>3, OwedStep
<1> QED BY <1>4 DEF u

\* The series after the header stays.
LEMMA OwedLater ==
    ASSUME NEW w, NEW u, NEW s, NEW a, PersistOp(a) \in Range(s)
    PROVE  Owed(w, u, s, a)
BY DEF Owed

\* Free clumps are apart or not whatever the others do.
LEMMA ApartLike ==
    ASSUME NEW m, Typed(m), Tiled(m), NEW w, NEW x,
           Walk(w) = Walk(m), Clumps(w) = Clumps(m),
           \A b \in Clumps(m) : w[b].size = m[b].size /\ (w[b].state = "FREE" <=> m[b].state = "FREE")
    PROVE  Apart(m, x) => Apart(w, x)
<1>1. \A b \in Clumps(m) : b + m[b].size \in Walk(m)
  BY TiledFacts DEF Typed
<1>2. \A a \in Walk(m) : FreeLine(w[a]) <=> FreeLine(m[a])
  <2> SUFFICES ASSUME NEW a \in Walk(m) PROVE FreeLine(w[a]) <=> FreeLine(m[a])
    OBVIOUS
  <2>1. CASE a \in Clumps(m)
    BY <2>1 DEF FreeLine
  <2>2. CASE a \notin Clumps(m)
    BY <2>2 DEF FreeLine, Clumps
  <2> QED BY <2>1, <2>2
<1> QED BY <1>1, <1>2 DEF Apart

-----------------------------------------------------------------------------
(* The course of a call: pmemalloc_reserve *)

LEMMA RequestIs ==
    ASSUME NEW n \in Request
    PROVE  n \in Nat /\ 0 < n /\ 2 <= n /\ n \in Chunk /\ n # 0
<1>1. n \in 2..LastClump
  BY Constants
<1> QED BY <1>1, Constants

LEMMA ReservingHead ==
    ASSUME NEW m, Typed(m), Sound(m), NEW c, NEW n \in Nat, 0 < n, NEW s, s # <<>>,
           Reserving(m, s, c, n)
    PROVE  Head(s).do \in Working \union {"blank"}
<1>0. c \in Clumps(m) /\ n <= m[c].size /\ Tiled(m) /\ c \in Chunk
  BY TiledFacts DEF Reserving, Sound, Typed
<1>1. /\ Taking(m, c, n) \in Seq(Ops) /\ Taking(m, c, n) # <<>> /\ Head(Taking(m, c, n)).do = "size"
      /\ m[c].size - n >= 2 =>
            /\ Placing(m, c, n) # <<>> /\ Head(Placing(m, c, n)).do = "size"
            /\ Head(Do("blank", c + n) \o Placing(m, c, n)).do = "blank"
  <2>1. Taking(m, c, n) \in Flow /\ Taking(m, c, n) # <<>>
    BY <1>0, PlacingIs
  <2>2. Head(Taking(m, c, n)) = [do |-> "size", at |-> c, size |-> Portion(m, c, n), state |-> "RESERVED"]
    BY <1>0, PlacingIs
  <2>3. ASSUME m[c].size - n >= 2
        PROVE  /\ Placing(m, c, n) # <<>>
               /\ Head(Placing(m, c, n)) =
                    [do |-> "size", at |-> c + n, size |-> m[c].size - n, state |-> "FREE"]
               /\ Head(Do("blank", c + n) \o Placing(m, c, n)) = [do |-> "blank", at |-> c + n]
    BY <1>0, <2>3, PlacingIs
  <2> QED BY <2>1, <2>2, <2>3 DEF Flow
<1>2. CASE m[c].size - n >= 2 /\ (s = Do("blank", c + n) \o Placing(m, c, n) \/ s = Placing(m, c, n))
  BY <1>1, <1>2 DEF Working
<1>3. ASSUME NEW q \in Seq(Resets(c) \union Persists), s = q \o Taking(m, c, n)
      PROVE  Head(s).do \in Working
  <2>1. Head(s) \in Resets(c) \union Persists \union {Head(Taking(m, c, n))}
    BY <1>1, <1>3, HeadOf
  <2> QED BY <2>1, <1>1 DEF Working, Resets, Clears, ClearOp, Persists
<1>4. CASE s \in Seq(Persists)
  <2>1. Head(s) \in Persists
    BY <1>4
  <2> QED BY <2>1 DEF Persists, Working
<1> QED BY <1>2, <1>3, <1>4 DEF Reserving

LEMMA InReserveStep ==
    ASSUME NEW m, NEW v, NEW s, Medium(m, v, s), s # <<>>, NEW p \in BOOLEAN, ~p => v = m,
           NEW k, k.op = "reserve", k.block \in Chunk, NEW a, InReserve(m, v, s, k, a),
           NEW fl, NEW dr, Promised(m, k, a, fl, dr, TRUE)
    PROVE  LET w == Effect(m, Head(s))
               u == DurableAfter(m, v, Head(s), p)
           IN  /\ Head(s).do \in Working \union {"blank"}
               /\ Medium(w, u, Tail(s)) /\ (~p => u = w)
               /\ InReserve(w, u, Tail(s), k, a) /\ Promised(w, k, a, fl, dr, TRUE)
<1> DEFINE c == k.block
           n == k.n
           o == Head(s)
           w == Effect(m, Head(s))
           u == DurableAfter(m, v, Head(s), p)
<1>0. /\ Typed(m) /\ Sound(m) /\ Calm(m) /\ Apart(m, LastClump) /\ Reserving(m, s, c, n)
      /\ n \in Nat /\ 0 < n /\ c \in Clumps(m) /\ n <= m[c].size /\ Tiled(m) /\ c \in Chunk
      /\ DOMAIN m = Chunk \union Cell \union {HDR}
  BY RequestIs, MediumFacts DEF Medium, InReserve, Reserving, Sound, Typed
<1>1. /\ Reserving(w, Tail(s), c, n) /\ Untaken(m, w, c)
      /\ RestPlaced(m, w, s, c, n) /\ RestStored(m, s, c, n)
      /\ \A b \in DOMAIN m \ {o.at} : w[b] = m[b]
  BY <1>0, ReservingStep
<1>2. o.do \in Working \union {"blank"}
  BY <1>0, ReservingHead
<1>3. o.do \notin ScanHead
  BY <1>2 DEF Working, ScanHead
<1>4. o.do \notin Stores => w = m
  BY DEF Effect
<1>5. w = Effect(m, Head(s))
  OBVIOUS
<1> HIDE DEF w
<1>6. Typed(w) /\ Sound(w) /\ Tiled(w)
  <2>1. o \in Ops
    BY FlowNext DEF Medium
  <2>2. Typed(w)
    BY <2>1, <1>0, <1>5, EffectTyped
  <2> QED BY <2>2, <1>1 DEF Untaken, Sound
<1>7. Medium(w, u, Tail(s)) /\ (~p => u = w)
  <2> DEFINE E == IF Walk(w) = Walk(m) THEN {} ELSE {c + n}
  <2>1. Walk(w) \subseteq Walk(m) \union E
    BY <1>1 DEF RestPlaced
  <2>2. ASSUME NEW b \in E PROVE v[b] = m[b] /\ b # o.at
    <3>1. /\ b = c + n /\ m[c].state = "FREE" /\ m[c].size - n >= 2 /\ c + n # c
          /\ PersistOp(c + n) \notin Range(s) /\ o.at = c
      BY <1>1, <2>2 DEF RestPlaced
    <3> QED BY <3>1 DEF InReserve, Owed
  <2>3. o.do = "blank" => o.at \in Chunk /\ o.at \notin Walk(m)
    BY <1>1 DEF RestStored, Stores
  <2> HIDE DEF E
  <2>4. /\ Medium(m, v, s) /\ s # <<>> /\ Head(s).do \notin ScanHead /\ p \in BOOLEAN
        /\ (~p => v = m) /\ w = Effect(m, Head(s)) /\ Sound(w)
        /\ Head(s).do \in Stores =>
                /\ Walk(w) \subseteq Walk(m) \union E
                /\ \A b \in E : v[b] = m[b] /\ b # Head(s).at
                /\ Head(s).do = "blank" => Head(s).at \in Chunk /\ Head(s).at \notin Walk(m)
    BY <2>1, <2>2, <2>3, <1>3, <1>5, <1>6
  <2> QED BY ONLY <2>4, MediumStep
<1>8. w[c].state = "FREE" /\ w[c].size - n >= 2 => Owed(w, u, Tail(s), c + n)
  <2> SUFFICES ASSUME w[c].state = "FREE", w[c].size - n >= 2 PROVE Owed(w, u, Tail(s), c + n)
    OBVIOUS
  <2>1. m[c].state = "FREE" /\ m[c].size - n >= 2
    BY <1>1 DEF Untaken
  <2>2. Owed(m, v, s, c + n)
    BY <2>1 DEF InReserve
  <2>3. c + n \in Chunk /\ c + n # c
    <3>1. c + n \in Chunk
      BY <2>1, <1>0, PlacingIs
    <3> QED BY <3>1, <1>0, Constants
  <2>4. CASE o.do \in Stores /\ o.at = c + n
    <3>1. PersistOp(c + n) \in Range(Tail(s))
      BY <1>1, <2>3, <2>4 DEF RestStored
    <3> QED BY <3>1, OwedLater
  <2>5. CASE ~(o.do \in Stores /\ o.at = c + n)
    <3>1. w[c + n] = m[c + n]
      BY <2>3, <2>5, <1>0, <1>1, <1>4
    <3> QED BY <3>1, <2>2, <2>3, <1>5, OwedAfter
  <2> QED BY <2>4, <2>5
<1> HIDE DEF u
<1>9. InReserve(w, u, Tail(s), k, a)
  BY <1>1, <1>8 DEF InReserve, Untaken
<1>10. Promised(w, k, a, fl, dr, TRUE)
  <2>1. Others(m, w, c) /\ CellsKept(m, w, a, c)
    BY <1>1 DEF Untaken, SameCells, CellsKept
  <2>2. \A d \in dr : w[d] = m[d] /\ m[d] # c
    <3>1. dr \subseteq Cell
      BY DEF Promised
    <3>2. \A d \in dr : w[d] = m[d]
      BY <3>1, <1>1 DEF Untaken, SameCells
    <3>3. m[c].state \notin {"ACTIVATING", "ACTIVE", "FREEING"}
      BY <1>0 DEF Reserving
    <3>4. \A d \in dr : m[d] # c
      BY <3>1, <3>3, <1>0, Constants DEF Sound, PointersOK
    <3> QED BY <3>2, <3>4
  <2>3. BlockKept(m, w, k, a, dr, c)
    BY <2>2 DEF BlockKept, InReserve
  <2> QED BY <2>1, <2>3, <1>0, <1>6, PromisedStep
<1> QED BY <1>2, <1>7, <1>9, <1>10 DEF w, u

-----------------------------------------------------------------------------
(* The course of a call: pmemalloc_onactive, pmemalloc_onfree *)

LEMMA AddingHead ==
    ASSUME NEW m, NEW c \in Chunk, NEW d \in Cell, NEW p \in Chunk \union {NULL}, NEW s, s # <<>>,
           Adding(m, s, c, d, p)
    PROVE  Head(s).do \in Working \ {"cell"}
<1>1. CASE s \in Seq(Persists) /\ d \in Named(m[c])
  <2>1. Head(s) \in Persists
    BY <1>1
  <2> QED BY <2>1 DEF Persists, Working
<1>2. ASSUME NEW i \in Slot,
             \/ s = PutPtr(c, i, p) \o (Persist(c) \o (PutOff(c, i, d) \o Persist(c)))
             \/ \E q \in Seq(Persists) : s = q \o (PutOff(c, i, d) \o Persist(c))
      PROVE  Head(s).do \in Working \ {"cell"}
  <2> DEFINE r == PutOff(c, i, d) \o Persist(c)
  <2>1. r \in Seq(Ops) /\ r # <<>> /\ Head(r) = [do |-> "off", at |-> c, i |-> i, val |-> d]
    BY AddingIs
  <2>2. CASE s = PutPtr(c, i, p) \o (Persist(c) \o r)
    <3>1. Head(s) = [do |-> "ptr", at |-> c, i |-> i, val |-> p]
      BY <2>2, AddingIs
    <3> QED BY <3>1 DEF Working
  <2> HIDE DEF r
  <2>3. ASSUME NEW q \in Seq(Persists), s = q \o r PROVE Head(s).do \in Working \ {"cell"}
    <3>1. Head(s) \in Persists \union {Head(r)}
      BY <2>1, <2>3, HeadOf
    <3> QED BY <3>1, <2>1 DEF Persists, Working
  <2> QED BY <1>2, <2>2, <2>3 DEF r
<1> QED BY <1>1, <1>2 DEF Adding

LEMMA AddingCall ==
    ASSUME NEW m, NEW v, NEW s, Medium(m, v, s), s # <<>>, NEW p \in BOOLEAN, ~p => v = m,
           NEW c \in Clumps(m), NEW d \in Cell, NEW t \in Chunk \union {NULL}, Adding(m, s, c, d, t),
           Packed(m[c]), Listed(m, c, t, d), Calm(m), Apart(m, LastClump),
           m[c].state = "RESERVED" \/ (m[c].state = "ACTIVE" /\ t = NULL /\ m[d] = c),
           NEW w, w = Effect(m, Head(s))
    PROVE  LET u == DurableAfter(m, v, Head(s), p) IN
           /\ Head(s).do \in Working
           /\ Medium(w, u, Tail(s)) /\ (~p => u = w)
           /\ Adding(w, Tail(s), c, d, t)
           /\ Typed(m) /\ Sound(m) /\ Typed(w) /\ Sound(w) /\ Same(m, w, c) /\ SameCells(m, w)
           /\ w[c].state = m[c].state /\ Packed(w[c]) /\ Listed(w, c, t, d)
           /\ Named(w[c]) \subseteq Named(m[c]) \union {d} /\ Named(m[c]) \subseteq Named(w[c])
           /\ Calm(w) /\ Apart(w, LastClump)
<1>0. Typed(m) /\ Sound(m) /\ Tiled(m) /\ c \in Chunk /\ Head(s) \in Ops
  BY TiledFacts, FlowNext DEF Medium, Sound, Typed
<1>1. /\ Adding(w, Tail(s), c, d, t)
      /\ Sound(w) /\ Same(m, w, c) /\ SameCells(m, w) /\ w[c].state = m[c].state
      /\ Packed(w[c]) /\ Listed(w, c, t, d)
      /\ Named(w[c]) \subseteq Named(m[c]) \union {d} /\ Named(m[c]) \subseteq Named(w[c])
      /\ InTransit(w) = InTransit(m)
  <2> DEFINE x == Effect(m, Head(s))
  <2>1. /\ Adding(x, Tail(s), c, d, t)
        /\ Sound(x) /\ Same(m, x, c) /\ SameCells(m, x) /\ x[c].state = m[c].state
        /\ Packed(x[c]) /\ Listed(x, c, t, d)
        /\ Named(x[c]) \subseteq Named(m[c]) \union {d} /\ Named(m[c]) \subseteq Named(x[c])
        /\ InTransit(x) = InTransit(m)
    BY <1>0, AddingStep
  <2>2. w = x
    OBVIOUS
  <2> QED BY <2>1, <2>2
<1>2. Head(s).do \in Working
  BY <1>0, AddingHead
<1>3. Head(s).do \notin ScanHead /\ Head(s).do # "blank"
  BY <1>2 DEF Working, ScanHead
<1>4. Typed(w)
  BY <1>0, EffectTyped
<1>5. LET u == DurableAfter(m, v, Head(s), p) IN Medium(w, u, Tail(s)) /\ (~p => u = w)
  <2>1. Walk(w) \subseteq Walk(m)
    BY <1>1 DEF Same
  <2> QED BY <2>1, <1>1, <1>3, PlainStep
<1>6. Calm(w)
  BY <1>1 DEF Calm
<1>7. Apart(w, LastClump)
  <2>1. \A b \in Clumps(m) : w[b].size = m[b].size /\ w[b].state = m[b].state
    BY <1>1 DEF Same
  <2> QED BY <2>1, <1>0, <1>1, ApartLike DEF Same
<1> QED BY <1>0, <1>1, <1>2, <1>4, <1>5, <1>6, <1>7

LEMMA InOnActiveStep ==
    ASSUME NEW m, NEW v, NEW s, Medium(m, v, s), s # <<>>, NEW p \in BOOLEAN, ~p => v = m,
           NEW k, k.op = "onactive", k.block \in Chunk, NEW a, InOnActive(m, s, k, a),
           NEW fl, NEW dr, Promised(m, k, a, fl, dr, TRUE)
    PROVE  LET w == Effect(m, Head(s))
               u == DurableAfter(m, v, Head(s), p)
           IN  /\ Head(s).do \in Working
               /\ Medium(w, u, Tail(s)) /\ (~p => u = w)
               /\ InOnActive(w, Tail(s), k, a) /\ Promised(w, k, a, fl, dr, TRUE)
<1> DEFINE c == k.block
           w == Effect(m, Head(s))
           u == DurableAfter(m, v, Head(s), p)
<1>1. PICK d \in Cell : /\ k.cells = {d} /\ m[d] = NULL /\ Adding(m, s, c, d, c)
                        /\ \A b \in Chunk \ {c} : a[b] # 0 => d \notin Named(m[b])
  BY DEF InOnActive
<1>2. Calm(m) /\ Apart(m, LastClump) /\ a[c] # 0
  BY DEF InOnActive
<1>3. Reserved(m, c, a[c]) /\ a[c] \in Nat
  BY <1>2, RequestIs DEF Promised, Releasing
<1>4. PICK x : x = w
  OBVIOUS
<1>5. /\ Head(s).do \in Working
      /\ Medium(x, u, Tail(s)) /\ (~p => u = x)
      /\ Adding(x, Tail(s), c, d, c)
      /\ Typed(m) /\ Sound(m) /\ Typed(x) /\ Sound(x) /\ Same(m, x, c) /\ SameCells(m, x)
      /\ x[c].state = m[c].state /\ Packed(x[c]) /\ Listed(x, c, c, d)
      /\ Named(x[c]) \subseteq Named(m[c]) \union {d} /\ Named(m[c]) \subseteq Named(x[c])
      /\ Calm(x) /\ Apart(x, LastClump)
  <2>1. /\ Medium(m, v, s) /\ s # <<>> /\ p \in BOOLEAN /\ (~p => v = m)
        /\ c \in Clumps(m) /\ d \in Cell /\ c \in Chunk \union {NULL} /\ Adding(m, s, c, d, c)
        /\ Packed(m[c]) /\ Listed(m, c, c, d) /\ Calm(m) /\ Apart(m, LastClump)
        /\ m[c].state = "RESERVED" \/ (m[c].state = "ACTIVE" /\ c = NULL /\ m[d] = c)
        /\ x = Effect(m, Head(s))
    BY <1>1, <1>2, <1>3, <1>4 DEF Reserved, Listed
  <2> QED BY ONLY <2>1, AddingCall, SMTT(30)
<1> HIDE DEF u, w
<1>6. Others(m, x, c) /\ c \in Clumps(x) /\ x[d] = NULL /\ c \in Clumps(m)
  BY <1>1, <1>3, <1>5, SameOthers DEF Same, SameCells, Reserved
<1>7. ASSUME NEW b \in Chunk \ {c}, a[b] # 0 PROVE Reserved(m, b, a[b]) /\ x[b] = m[b]
  <2>1. Reserved(m, b, a[b])
    BY <1>7 DEF Promised, Releasing
  <2> QED BY <2>1, <1>5, <1>7 DEF Reserved, Same
<1>8. InOnActive(x, Tail(s), k, a)
  <2>1. \A b \in Chunk \ {c} : a[b] # 0 => d \notin Named(x[b])
    BY <1>1, <1>7
  <2> QED BY <2>1, <1>1, <1>2, <1>5, <1>6 DEF InOnActive
<1>9. Promised(x, k, a, fl, dr, TRUE)
  <2>1. Reserved(x, c, a[c])
    BY <1>3, <1>5, <1>6 DEF Reserved, Same, Listed
  <2>2. ASSUME NEW b \in Chunk \ {c}, a[b] # 0, Reserved(m, b, a[b])
        PROVE  Named(m[b]) \cap Named(x[c]) = {}
    <3>1. Named(m[b]) \cap Named(m[c]) = {}
      <4>1. Waiting(m, b) /\ Waiting(m, c)
        BY <2>2, <1>3 DEF Waiting, Reserved
      <4> QED BY <4>1, <2>2, <1>2 DEF Promised
    <3> QED BY <3>1, <2>2, <1>1, <1>5
  <2>3. \A e \in dr : x[e] = m[e]
    BY <1>5 DEF Promised, SameCells
  <2>4. BlockKept(m, x, k, a, dr, c)
    BY <2>1, <2>2, <2>3, <1>2, <1>5 DEF BlockKept
  <2>5. CellsKept(m, x, a, c)
    BY <1>5 DEF CellsKept, SameCells
  <2>6. Tiled(x)
    BY <1>5 DEF Sound
  <2> QED BY <2>4, <2>5, <2>6, <1>5, <1>6, PromisedStep
<1> QED BY <1>4, <1>5, <1>8, <1>9 DEF w, u

LEMMA InOnFreeStep ==
    ASSUME NEW m, NEW v, NEW s, Medium(m, v, s), s # <<>>, NEW p \in BOOLEAN, ~p => v = m,
           NEW k, k.op = "onfree", k.block \in Chunk, InOnFree(m, s, k), NEW a,
           NEW fl, NEW dr, Promised(m, k, a, fl, dr, TRUE)
    PROVE  LET w == Effect(m, Head(s))
               u == DurableAfter(m, v, Head(s), p)
           IN  /\ Head(s).do \in Working
               /\ Medium(w, u, Tail(s)) /\ (~p => u = w)
               /\ InOnFree(w, Tail(s), k) /\ Promised(w, k, a, fl, dr, TRUE)
<1> DEFINE c == k.block
           w == Effect(m, Head(s))
           u == DurableAfter(m, v, Head(s), p)
<1>1. PICK d \in Cell : k.cells = {d} /\ m[d] = c /\ Adding(m, s, c, d, NULL)
  BY DEF InOnFree
<1>2. Calm(m) /\ Apart(m, LastClump) /\ Sound(m)
  BY DEF InOnFree, Medium
<1>3. c \in Clumps(m) /\ m[c].state = "ACTIVE" /\ Packed(m[c]) /\ ListSets(m, c, NULL, {c})
  <2>1. c \in Clumps(m) /\ m[c].state \in {"ACTIVATING", "ACTIVE", "FREEING"}
    BY <1>1, <1>2, Constants DEF Sound, PointersOK
  <2>2. m[c].state = "ACTIVE"
    BY <2>1, <1>2 DEF Calm, InTransit
  <2> QED BY <2>1, <2>2, <1>2 DEF Sound, ClumpOK, ActiveOK
<1>4. PICK x : x = w
  OBVIOUS
<1>5. /\ Head(s).do \in Working
      /\ Medium(x, u, Tail(s)) /\ (~p => u = x)
      /\ Adding(x, Tail(s), c, d, NULL)
      /\ Typed(m) /\ Sound(m) /\ Typed(x) /\ Sound(x) /\ Same(m, x, c) /\ SameCells(m, x)
      /\ x[c].state = m[c].state /\ Packed(x[c]) /\ Listed(x, c, NULL, d)
      /\ Named(x[c]) \subseteq Named(m[c]) \union {d} /\ Named(m[c]) \subseteq Named(x[c])
      /\ Calm(x) /\ Apart(x, LastClump)
  <2>0. PICK t : t = NULL
    OBVIOUS
  <2>1. /\ Medium(m, v, s) /\ s # <<>> /\ p \in BOOLEAN /\ (~p => v = m)
        /\ c \in Clumps(m) /\ d \in Cell /\ t \in Chunk \union {NULL} /\ Adding(m, s, c, d, t)
        /\ Packed(m[c]) /\ Listed(m, c, t, d) /\ Calm(m) /\ Apart(m, LastClump)
        /\ m[c].state = "RESERVED" \/ (m[c].state = "ACTIVE" /\ t = NULL /\ m[d] = c)
        /\ x = Effect(m, Head(s))
    BY <1>1, <1>2, <1>3, <1>4, <2>0 DEF Listed
  <2> QED BY <2>0, <2>1, AddingCall, SMTT(30)
<1> HIDE DEF u, w
<1>6. Others(m, x, c) /\ x[d] = c
  BY <1>1, <1>5, SameOthers DEF SameCells
<1>7. InOnFree(x, Tail(s), k)
  BY <1>1, <1>5, <1>6 DEF InOnFree
<1>8. Promised(x, k, a, fl, dr, TRUE)
  <2>1. a[c] = 0
    <3>1. ~Reserved(m, c, a[c]) /\ ~Releasing(k, c)
      BY <1>3 DEF Reserved, Releasing
    <3> QED BY <3>1 DEF Promised
  <2>2. \A e \in dr : x[e] = m[e] /\ (e \in Named(m[c]) => e \in Named(x[c]))
    BY <1>5 DEF Promised, SameCells
  <2>3. BlockKept(m, x, k, a, dr, c)
    BY <2>1, <2>2, <1>3, <1>5 DEF BlockKept
  <2>4. CellsKept(m, x, a, c)
    BY <1>5 DEF CellsKept, SameCells
  <2>5. Tiled(x)
    BY <1>5 DEF Sound
  <2> QED BY <2>3, <2>4, <2>5, <1>5, <1>6, PromisedStep
<1> QED BY <1>4, <1>5, <1>7, <1>8 DEF w, u

-----------------------------------------------------------------------------
(* The course of a call: pmemalloc_activate *)

LEMMA FinishingCall ==
    ASSUME NEW m, NEW v, NEW s, Medium(m, v, s), NEW p \in BOOLEAN, ~p => v = m,
           NEW c, NEW rest \in Flow, Finishing(m, s, c, rest), NEW w, w = Effect(m, Head(s))
    PROVE  /\ s # <<>> /\ Head(s).do \in Working
           /\ Medium(w, DurableAfter(m, v, Head(s), p), Tail(s))
           /\ (~p => DurableAfter(m, v, Head(s), p) = w)
           /\ Typed(m) /\ Sound(m) /\ Typed(w) /\ Sound(w) /\ c \in Clumps(m) /\ c \in Chunk
           /\ m[c].state \in {"RESERVED", "ACTIVATING", "FREEING"}
           /\ Finishing(w, Tail(s), c, rest) \/ Finished(w, Tail(s), c, rest)
           /\ Frame(m, w, c)
<1>0. Typed(m) /\ Sound(m)
  BY DEF Medium
<1>1. s # <<>> /\ Head(s).do \in Working
  BY <1>0, FinishingHead
<1>2. /\ c \in Clumps(m) /\ m[c].state \in {"RESERVED", "ACTIVATING", "FREEING"}
      /\ Finishing(w, Tail(s), c, rest) \/ Finished(w, Tail(s), c, rest)
      /\ Frame(m, w, c)
  BY <1>0, FinishingStep
<1>3. Sound(w) /\ Walk(w) = Walk(m)
  BY <1>2 DEF Frame, Same
<1>4. Head(s) \in Ops
  BY <1>1, FlowNext DEF Medium
<1>5. Typed(w)
  BY <1>0, <1>4, EffectTyped
<1>6. Head(s).do \notin ScanHead /\ Head(s).do # "blank"
  BY <1>1 DEF Working, ScanHead
<1>7. /\ Medium(w, DurableAfter(m, v, Head(s), p), Tail(s))
      /\ (~p => DurableAfter(m, v, Head(s), p) = w)
  BY <1>1, <1>3, <1>6, PlainStep
<1>8. c \in Chunk
  BY <1>0, <1>2, TiledFacts DEF Sound, Typed
<1> QED BY <1>0, <1>1, <1>2, <1>3, <1>5, <1>7, <1>8

LEMMA StartingHead ==
    ASSUME NEW m, Typed(m), Sound(m), NEW c, NEW st, Ready(m, c, st), NEW rest \in Flow, NEW s,
           Starting(m, s, c, st, rest)
    PROVE  s # <<>> /\ Head(s).do \in Working
<1> DEFINE r == PutSize(c, m[c].size, st) \o Way(m[c], c, st, rest)
<1>1. r \in Seq(Ops) /\ Way(m[c], c, st, rest) \in Seq(Ops)
  BY WayIs DEF Flow
<1>2. PICK o : o = [do |-> "size", at |-> c, size |-> m[c].size, state |-> st]
  OBVIOUS
<1>3. PutSize(c, m[c].size, st) = <<o>>
  BY <1>2 DEF PutSize
<1>4. r # <<>> /\ Head(r) = o
  BY <1>1, <1>3, OneStep
<1> HIDE DEF r
<1>5. PICK q \in Seq(Persists) : s = q \o r
  BY DEF Starting, r
<1>6. s # <<>> /\ Head(s) \in Persists \union {Head(r)}
  BY <1>1, <1>4, <1>5, HeadOf
<1> QED BY <1>2, <1>4, <1>6 DEF Persists, Working

LEMMA StartingCall ==
    ASSUME NEW m, NEW v, NEW s, Medium(m, v, s), NEW p \in BOOLEAN, ~p => v = m,
           NEW c, NEW st, NEW rest \in Flow, Calm(m), Ready(m, c, st), Starting(m, s, c, st, rest),
           NEW w, w = Effect(m, Head(s))
    PROVE  /\ s # <<>> /\ Head(s).do \in Working
           /\ Medium(w, DurableAfter(m, v, Head(s), p), Tail(s))
           /\ (~p => DurableAfter(m, v, Head(s), p) = w)
           /\ Typed(m) /\ Sound(m) /\ Typed(w) /\ Sound(w) /\ c \in Clumps(m) /\ c \in Chunk
           /\ \/ w = m /\ Starting(m, Tail(s), c, st, rest)
              \/ /\ Executing(w, Tail(s), c, rest)
                 /\ Same(m, w, c) /\ SameCells(m, w)
                 /\ w[c].state = st /\ InTransit(w) = {c}
                 /\ OnList(w[c]) = OnList(m[c]) /\ Named(w[c]) = Named(m[c])
<1>0. Typed(m) /\ Sound(m) /\ InTransit(m) = {}
  BY DEF Medium, Calm
<1>1. s # <<>> /\ Head(s).do \in Working
  BY <1>0, StartingHead
<1>2. \/ w = m /\ Starting(m, Tail(s), c, st, rest)
      \/ /\ Executing(w, Tail(s), c, rest)
         /\ Sound(w) /\ Same(m, w, c) /\ SameCells(m, w)
         /\ w[c].state = st /\ InTransit(w) = {c}
         /\ OnList(w[c]) = OnList(m[c]) /\ Named(w[c]) = Named(m[c])
  BY <1>0, StartingStep
<1>3. Sound(w) /\ Walk(w) = Walk(m)
  BY <1>0, <1>2 DEF Same
<1>4. Head(s) \in Ops
  BY <1>1, FlowNext DEF Medium
<1>5. Typed(w)
  BY <1>0, <1>4, EffectTyped
<1>6. Head(s).do \notin ScanHead /\ Head(s).do # "blank"
  BY <1>1 DEF Working, ScanHead
<1>7. /\ Medium(w, DurableAfter(m, v, Head(s), p), Tail(s))
      /\ (~p => DurableAfter(m, v, Head(s), p) = w)
  BY <1>1, <1>3, <1>6, PlainStep
<1>8. c \in Clumps(m) /\ c \in Chunk
  BY <1>0, TiledFacts DEF Sound, Typed, Ready
<1> QED BY <1>0, <1>1, <1>2, <1>3, <1>5, <1>7, <1>8

LEMMA InActivateStep ==
    ASSUME NEW m, NEW v, NEW s, Medium(m, v, s), s # <<>>, NEW p \in BOOLEAN, ~p => v = m,
           NEW k, k.op = "activate", k.block \in Chunk,
           NEW a, NEW fl, NEW dr, InActivate(m, s, k, a, fl, dr), Promised(m, k, a, fl, dr, TRUE)
    PROVE  LET w == Effect(m, Head(s))
               u == DurableAfter(m, v, Head(s), p)
           IN  /\ Head(s).do \in Working
               /\ Medium(w, u, Tail(s)) /\ (~p => u = w)
               /\ InActivate(w, Tail(s), k, a, fl, dr) /\ Promised(w, k, a, fl, dr, TRUE)
<1> DEFINE c == k.block
           u == DurableAfter(m, v, Head(s), p)
           Goal(w) == /\ Head(s).do \in Working
                      /\ Medium(w, u, Tail(s)) /\ (~p => u = w)
                      /\ InActivate(w, Tail(s), k, a, fl, dr) /\ Promised(w, k, a, fl, dr, TRUE)
<1>0. /\ Apart(m, LastClump) /\ a[c] # 0 /\ c \in fl /\ k.cells \cap dr = {}
      /\ Typed(m) /\ Sound(m) /\ Releasing(k, c) /\ dr \subseteq Cell
  BY DEF InActivate, Medium, Releasing, Promised
<1>1. PICK w : w = Effect(m, Head(s))
  OBVIOUS
<1>2. ASSUME w = m, Activating(m, Tail(s), k, a), Head(s).do \in Working
      PROVE  Goal(w)
  <2>1. Head(s).do \notin ScanHead /\ Head(s).do # "blank"
    BY <1>2 DEF Working, ScanHead
  <2>2. Medium(w, u, Tail(s)) /\ (~p => u = w)
    <3>1. Sound(w) /\ Walk(w) \subseteq Walk(m)
      BY <1>0, <1>2
    <3> QED BY <3>1, <2>1, <1>1, PlainStep
  <2> QED BY <2>2, <1>0, <1>2 DEF InActivate
<1>3. ASSUME Waiting(m, c), NEW b \in Chunk \ {c}, a[b] # 0, Reserved(m, b, a[b])
      PROVE  Named(m[b]) \cap Named(m[c]) = {}
  <2>1. Waiting(m, b)
    BY <1>3 DEF Waiting, Reserved
  <2> QED BY <2>1, <1>3, <1>0 DEF Promised
<1>4. ASSUME Calm(m), Reserved(m, c, a[c]), OnList(m[c]) # {}, k.cells = Named(m[c]),
             Starting(m, s, c, "ACTIVATING", <<>>)
      PROVE  Goal(w)
  <2>1. Ready(m, c, "ACTIVATING")
    BY <1>4 DEF Ready, Reserved
  <2>2. /\ s # <<>> /\ Head(s).do \in Working
        /\ Medium(w, u, Tail(s)) /\ (~p => u = w)
        /\ Typed(w) /\ Sound(w) /\ c \in Clumps(m)
        /\ \/ w = m /\ Starting(m, Tail(s), c, "ACTIVATING", <<>>)
           \/ /\ Executing(w, Tail(s), c, <<>>)
              /\ Same(m, w, c) /\ SameCells(m, w)
              /\ w[c].state = "ACTIVATING" /\ InTransit(w) = {c}
              /\ OnList(w[c]) = OnList(m[c]) /\ Named(w[c]) = Named(m[c])
    BY <2>1, <1>1, <1>4, FlowEmpty, StartingCall, SMTT(30)
  <2> HIDE DEF u
  <2>3. CASE w = m /\ Starting(m, Tail(s), c, "ACTIVATING", <<>>)
    <3>1. Activating(m, Tail(s), k, a)
      BY <2>3, <1>4 DEF Activating
    <3> QED BY <3>1, <2>2, <2>3, <1>2
  <2>4. CASE /\ Executing(w, Tail(s), c, <<>>)
             /\ Same(m, w, c) /\ SameCells(m, w)
             /\ w[c].state = "ACTIVATING" /\ InTransit(w) = {c}
             /\ OnList(w[c]) = OnList(m[c]) /\ Named(w[c]) = Named(m[c])
    <3>1. \A d \in Cell : w[d] = m[d] /\ m[d] # c
      <4>1. m[c].state \notin {"ACTIVATING", "ACTIVE", "FREEING"} /\ c # NULL
        BY <1>4, Constants DEF Reserved
      <4>2. \A d \in Cell : m[d] # c
        BY <4>1, <1>0 DEF Sound, PointersOK
      <4> QED BY <4>2, <2>4 DEF SameCells
    <3>2. Activating(w, Tail(s), k, a)
      BY <3>1, <2>4, <1>4 DEF Activating, Finishing
    <3>3. Apart(w, LastClump)
      <4>1. \A b \in Clumps(m) : /\ w[b].size = m[b].size
                                 /\ w[b].state = "FREE" <=> m[b].state = "FREE"
        BY <2>4, <1>4 DEF Same, Reserved
      <4> QED BY <4>1, <2>4, <1>0, ApartLike DEF Same, Sound
    <3>4. Promised(w, k, a, fl, dr, TRUE)
      <4>1. Others(m, w, c)
        BY <2>4, SameOthers
      <4>2. CellsKept(m, w, a, c)
        BY <3>1 DEF CellsKept
      <4>3. Waiting(m, c)
        BY <1>4 DEF Waiting, Reserved
      <4>4. BlockKept(m, w, k, a, dr, c)
        BY <4>3, <3>1, <2>4, <1>0, <1>3 DEF BlockKept
      <4>5. Tiled(w)
        BY <2>2 DEF Sound
      <4> QED BY <4>1, <4>2, <4>4, <4>5, <2>2, <1>0, PromisedStep
    <3> QED BY <3>2, <3>3, <3>4, <2>2, <1>0 DEF InActivate
  <2> QED BY <2>2, <2>3, <2>4
<1>5. ASSUME m[c].state = "ACTIVATING", Finishing(m, s, c, <<>>),
             \A d \in Cell : m[d] = c \/ d \in Named(m[c]) => d \in k.cells
      PROVE  Goal(w)
  <2>1. /\ s # <<>> /\ Head(s).do \in Working
        /\ Medium(w, u, Tail(s)) /\ (~p => u = w)
        /\ Typed(w) /\ Sound(w) /\ c \in Clumps(m) /\ c \in Chunk
        /\ Finishing(w, Tail(s), c, <<>>) \/ Finished(w, Tail(s), c, <<>>)
        /\ Frame(m, w, c)
    BY <1>1, <1>5, FlowEmpty, FinishingCall
  <2> HIDE DEF u
  <2>2. /\ Same(m, w, c) /\ LinkedBy(m, w, c) /\ Named(w[c]) \subseteq Named(m[c])
        /\ w[c].state \in {"ACTIVATING", "ACTIVE"}
        /\ w[c].state = "ACTIVATING" \/ InTransit(w) \subseteq InTransit(m) \ {c}
    BY <2>1, <1>5 DEF Frame, FinalOf
  <2>3. \A d \in Cell : w[d] = m[d] \/ (d \in Named(m[c]) /\ w[d] = c)
    BY <2>2, <1>5 DEF LinkedBy, Target
  <2>4. \A d \in Cell : w[d] = c \/ d \in Named(w[c]) => d \in k.cells
    BY <2>2, <2>3, <1>5
  <2>5. Activating(w, Tail(s), k, a)
    <3>1. CASE Finishing(w, Tail(s), c, <<>>) /\ w[c].state = "ACTIVATING"
      BY <3>1, <2>4 DEF Activating
    <3>2. CASE Finished(w, Tail(s), c, <<>>)
      <4>1. c \in Clumps(w) /\ w[c].state = "ACTIVE"
        BY <3>2, <2>2 DEF Finished
      <4>2. Tail(s) \in Seq(Persists)
        <5>1. Tail(s) = Persist(c) \o <<>> /\ Persist(c) \in Seq(Persists)
          BY <3>2, <2>1, PersistIs DEF Finished
        <5> QED BY <5>1, EmptySeq, ConcatEmptySeq
      <4>3. Calm(w)
        <5>1. c \in InTransit(m)
          BY <2>1, <1>5 DEF InTransit
        <5>2. InTransit(m) \subseteq {c}
          BY <5>1, <1>0 DEF Sound
        <5> QED BY <5>2, <4>1, <2>2 DEF Calm
      <4> QED BY <4>1, <4>2, <4>3 DEF Activating
    <3>3. CASE Finishing(w, Tail(s), c, <<>>) /\ w[c].state # "ACTIVATING"
      <4>1. w[c].state \in {"RESERVED", "ACTIVATING", "FREEING"}
        BY <3>3, <2>1 DEF Finishing, Executing, Clearing, InTransit
      <4> QED BY <4>1, <3>3, <2>2
    <3> QED BY <3>1, <3>2, <3>3, <2>1
  <2>6. Apart(w, LastClump)
    <3>1. \A b \in Clumps(m) : /\ w[b].size = m[b].size
                               /\ w[b].state = "FREE" <=> m[b].state = "FREE"
      BY <2>2, <1>5 DEF Same
    <3> QED BY <3>1, <2>2, <1>0, ApartLike DEF Same, Sound
  <2>7. Promised(w, k, a, fl, dr, TRUE)
    <3>1. Others(m, w, c)
      BY <2>2, SameOthers
    <3>2. CellsKept(m, w, a, c)
      BY <2>1, <2>3, <1>0, <1>5 DEF CellsKept
    <3>3. Waiting(m, c)
      BY <2>1, <1>5 DEF Waiting
    <3>4. \A b \in Chunk \ {c} : a[b] # 0 /\ Reserved(m, b, a[b]) => Named(m[b]) \cap Named(w[c]) = {}
      BY <3>3, <2>2, <1>3
    <3>5. \A d \in dr : w[d] = m[d] /\ m[d] # c
      BY <2>3, <1>0, <1>5
    <3>6. BlockKept(m, w, k, a, dr, c)
      BY <3>4, <3>5, <2>2, <1>0 DEF BlockKept
    <3>7. Tiled(w)
      BY <2>1 DEF Sound
    <3> QED BY <3>1, <3>2, <3>6, <3>7, <2>1, <1>0, PromisedStep
  <2> QED BY <2>1, <2>5, <2>6, <2>7, <1>0 DEF InActivate
<1>6. ASSUME Calm(m), c \in Clumps(m), m[c].state = "ACTIVE", s \in Seq(Persists)
      PROVE  Goal(w)
  <2>1. Head(s) \in Persists /\ Tail(s) \in Seq(Persists)
    BY <1>6
  <2>2. w = m /\ Head(s).do \in Working
    BY <2>1, <1>1, EffectNone DEF Persists, Working
  <2>3. Activating(m, Tail(s), k, a)
    BY <2>1, <1>6 DEF Activating
  <2> QED BY <2>2, <2>3, <1>2
<1> HIDE DEF Goal
<1>7. Goal(w)
  <2>1. Activating(m, s, k, a)
    BY DEF InActivate
  <2> QED BY <2>1, <1>4, <1>5, <1>6 DEF Activating
<1> QED BY <1>1, <1>7 DEF Goal

-----------------------------------------------------------------------------
(* The course of a call: pmemalloc_free *)

LEMMA CoalesceIs == Coalesce \in Flow /\ Coalesce # <<>> /\ 0 \in Chunk
BY ScanIs, Constants DEF Coalesce

\* The scan begins when the state is stored.
LEMMA FinishedScan ==
    ASSUME NEW m, Typed(m), Sound(m), NEW s, NEW c, Finished(m, s, c, Coalesce)
    PROVE  Coalescing(m, s)
<1>1. /\ c \in Chunk /\ 0 \in Walk(m) /\ s = Persist(c) \o Do("coalesce", 0)
      /\ \A b \in Clumps(m) : b \in Nat
  BY TiledFacts, Constants DEF Finished, Sound, Typed, Coalesce
<1>2. Persist(c) \in Seq(Persists)
  BY <1>1, PersistIs
<1>3. Apart(m, 0)
  BY <1>1 DEF Apart
<1> QED BY <1>1, <1>2, <1>3, Constants DEF Coalescing, Scanning

LEMMA CoalescingCall ==
    ASSUME NEW m, NEW v, NEW s, Medium(m, v, s), s # <<>>, NEW p \in BOOLEAN, ~p => v = m,
           Coalescing(m, s), Head(s).do # "coalesce", NEW w, w = Effect(m, Head(s))
    PROVE  /\ Head(s).do \in Working
           /\ Medium(w, DurableAfter(m, v, Head(s), p), Tail(s))
           /\ (~p => DurableAfter(m, v, Head(s), p) = w)
           /\ Typed(w) /\ Sound(w) /\ Coalescing(w, Tail(s)) /\ Kept(m, w)
<1>0. Typed(m) /\ Sound(m) /\ Head(s) \in Ops
  BY FlowNext DEF Medium
<1>1. Coalescing(w, Tail(s)) /\ Sound(w) /\ Kept(m, w) /\ Head(s).do \in Working
  BY <1>0, CoalescingStep
<1>2. Head(s).do \notin ScanHead /\ Head(s).do # "blank"
  BY <1>1 DEF Working, ScanHead
<1>3. Walk(w) \subseteq Walk(m)
  BY <1>1 DEF Kept
<1>4. /\ Medium(w, DurableAfter(m, v, Head(s), p), Tail(s))
      /\ (~p => DurableAfter(m, v, Head(s), p) = w)
  BY <1>1, <1>2, <1>3, PlainStep
<1>5. Typed(w)
  BY <1>0, EffectTyped
<1> QED BY <1>1, <1>4, <1>5

LEMMA InFreeStep ==
    ASSUME NEW m, NEW v, NEW s, Medium(m, v, s), s # <<>>, NEW p \in BOOLEAN, ~p => v = m,
           Head(s).do # "coalesce", NEW k, k.op = "free", k.block \in Chunk,
           NEW a, NEW fl, NEW dr, InFree(m, s, k, a), Promised(m, k, a, fl, dr, TRUE)
    PROVE  LET w == Effect(m, Head(s))
               u == DurableAfter(m, v, Head(s), p)
           IN  /\ Head(s).do \in Working
               /\ Medium(w, u, Tail(s)) /\ (~p => u = w)
               /\ InFree(w, Tail(s), k, a) /\ Promised(w, k, a, fl, dr, TRUE)
<1> DEFINE c == k.block
           u == DurableAfter(m, v, Head(s), p)
           Goal(w) == /\ Head(s).do \in Working
                      /\ Medium(w, u, Tail(s)) /\ (~p => u = w)
                      /\ InFree(w, Tail(s), k, a) /\ Promised(w, k, a, fl, dr, TRUE)
<1>0. Typed(m) /\ Sound(m) /\ a[c] = 0 /\ dr \subseteq Cell
  BY DEF InFree, Medium, Promised
<1>1. PICK w : w = Effect(m, Head(s))
  OBVIOUS
<1>2. ASSUME Typed(w), Sound(w), Others(m, w, c), CellsKept(m, w, a, c), w[c].state # "RESERVED",
             \A d \in dr : d \in k.cells \/ (w[d] = m[d] /\ (m[d] = c => Named(w[c]) = Named(m[c])))
      PROVE  Promised(w, k, a, fl, dr, TRUE)
  <2>1. BlockKept(m, w, k, a, dr, c)
    BY <1>0, <1>2 DEF BlockKept, Dropping
  <2>2. Tiled(w)
    BY <1>2 DEF Sound
  <2> QED BY <2>1, <2>2, <1>0, <1>2, PromisedStep
<1>3. ASSUME Calm(m), Ready(m, c, "FREEING"), Starting(m, s, c, "FREEING", Coalesce),
             \A d \in Cell : m[d] = c <=> d \in k.cells
      PROVE  Goal(w)
  <2>1. /\ s # <<>> /\ Head(s).do \in Working
        /\ Medium(w, u, Tail(s)) /\ (~p => u = w)
        /\ Typed(w) /\ Sound(w) /\ c \in Clumps(m)
        /\ \/ w = m /\ Starting(m, Tail(s), c, "FREEING", Coalesce)
           \/ /\ Executing(w, Tail(s), c, Coalesce)
              /\ Same(m, w, c) /\ SameCells(m, w)
              /\ w[c].state = "FREEING" /\ InTransit(w) = {c}
              /\ OnList(w[c]) = OnList(m[c]) /\ Named(w[c]) = Named(m[c])
    <3>1. PICK rest, st, x, y : rest = Coalesce /\ st = "FREEING" /\ x = c /\ y = u
      OBVIOUS
    <3>2. /\ Medium(m, v, s) /\ p \in BOOLEAN /\ (~p => v = m) /\ rest \in Flow
          /\ Calm(m) /\ Ready(m, x, st) /\ Starting(m, s, x, st, rest)
          /\ w = Effect(m, Head(s)) /\ y = DurableAfter(m, v, Head(s), p)
      BY <1>1, <1>3, <3>1, CoalesceIs
    <3>3. /\ s # <<>> /\ Head(s).do \in Working
          /\ Medium(w, y, Tail(s)) /\ (~p => y = w)
          /\ Typed(w) /\ Sound(w) /\ x \in Clumps(m)
          /\ \/ w = m /\ Starting(m, Tail(s), x, st, rest)
             \/ /\ Executing(w, Tail(s), x, rest)
                /\ Same(m, w, x) /\ SameCells(m, w)
                /\ w[x].state = st /\ InTransit(w) = {x}
                /\ OnList(w[x]) = OnList(m[x]) /\ Named(w[x]) = Named(m[x])
      BY ONLY <3>2, StartingCall
    <3> HIDE DEF c, u
    <3> QED BY <3>1, <3>3
  <2> HIDE DEF u
  <2>2. CASE w = m /\ Starting(m, Tail(s), c, "FREEING", Coalesce)
    <3>1. InFree(w, Tail(s), k, a)
      BY <2>2, <1>0, <1>3 DEF InFree
    <3> QED BY <3>1, <2>1, <2>2
  <2>3. CASE /\ Executing(w, Tail(s), c, Coalesce)
             /\ Same(m, w, c) /\ SameCells(m, w)
             /\ w[c].state = "FREEING" /\ InTransit(w) = {c}
             /\ OnList(w[c]) = OnList(m[c]) /\ Named(w[c]) = Named(m[c])
    <3>1. \A d \in Cell : w[d] = m[d]
      BY <2>3 DEF SameCells
    <3>2. InFree(w, Tail(s), k, a)
      BY <2>3, <3>1, <1>0, <1>3 DEF InFree, Finishing
    <3>3. Others(m, w, c) /\ CellsKept(m, w, a, c)
      BY <2>3, <3>1, SameOthers DEF CellsKept
    <3>4. Promised(w, k, a, fl, dr, TRUE)
      BY <3>1, <3>3, <2>1, <2>3, <1>0, <1>2
    <3> QED BY <3>2, <3>4, <2>1
  <2> QED BY <2>1, <2>2, <2>3
<1>4. ASSUME m[c].state = "FREEING", Finishing(m, s, c, Coalesce),
             \A d \in Cell : m[d] = c => d \in k.cells
      PROVE  Goal(w)
  <2>1. /\ s # <<>> /\ Head(s).do \in Working
        /\ Medium(w, u, Tail(s)) /\ (~p => u = w)
        /\ Typed(w) /\ Sound(w) /\ c \in Clumps(m) /\ c \in Chunk
        /\ Finishing(w, Tail(s), c, Coalesce) \/ Finished(w, Tail(s), c, Coalesce)
        /\ Frame(m, w, c)
    BY <1>1, <1>4, CoalesceIs, FinishingCall
  <2> HIDE DEF u
  <2>2. /\ Same(m, w, c) /\ LinkedBy(m, w, c) /\ Named(w[c]) \subseteq Named(m[c])
        /\ w[c].state \in {"FREEING", "FREE"}
        /\ w[c].state = "FREEING" \/ InTransit(w) \subseteq InTransit(m) \ {c}
    BY <2>1, <1>4 DEF Frame, FinalOf
  <2>3. \A d \in Cell : w[d] = m[d] \/ (d \in Named(m[c]) /\ w[d] = NULL)
    BY <2>2, <1>4 DEF LinkedBy, Target
  <2>4. \A d \in Cell : w[d] = c => d \in k.cells
    BY <2>3, <1>4, <2>1, Constants
  <2>5. InFree(w, Tail(s), k, a)
    <3>1. CASE Finishing(w, Tail(s), c, Coalesce) /\ w[c].state = "FREEING"
      BY <3>1, <2>4, <1>0 DEF InFree
    <3>2. CASE Finished(w, Tail(s), c, Coalesce)
      <4>1. w[c].state = "FREE"
        BY <3>2, <2>2 DEF Finished
      <4>2. Coalescing(w, Tail(s))
        BY <3>2, <2>1, FinishedScan
      <4>3. Calm(w)
        <5>1. c \in InTransit(m)
          BY <2>1, <1>4 DEF InTransit
        <5>2. InTransit(m) \subseteq {c}
          BY <5>1, <1>0 DEF Sound
        <5> QED BY <5>2, <4>1, <2>2 DEF Calm
      <4>4. \A d \in Cell : w[d] # c
        BY <2>1, <4>1, Constants DEF Sound, PointersOK
      <4> QED BY <4>2, <4>3, <4>4, <1>0 DEF InFree
    <3>3. CASE Finishing(w, Tail(s), c, Coalesce) /\ w[c].state # "FREEING"
      <4>1. w[c].state \in {"RESERVED", "ACTIVATING", "FREEING"}
        BY <3>3, <2>1 DEF Finishing, Executing, Clearing, InTransit
      <4> QED BY <4>1, <3>3, <2>2
    <3> QED BY <3>1, <3>2, <3>3, <2>1
  <2>6. Promised(w, k, a, fl, dr, TRUE)
    <3>1. Others(m, w, c)
      BY <2>2, SameOthers
    <3>2. CellsKept(m, w, a, c)
      BY <2>3 DEF CellsKept
    <3>3. ASSUME NEW d \in dr PROVE d \in k.cells \/ (w[d] = m[d] /\ m[d] # c)
      <4>1. CASE m[d] = c
        BY <4>1, <3>3, <1>0, <1>4
      <4>2. CASE m[d] # c /\ d \in Named(m[c])
        <5>1. m[d] \in {NULL, c}
          <6>1. FreeingOK(m, c)
            BY <2>1, <1>0, <1>4 DEF Sound, ClumpOK
          <6> QED BY <6>1, <4>2 DEF FreeingOK, ListSets, Named
        <5> QED BY <5>1, <4>2, <2>3, <3>3, <1>0
      <4>3. CASE m[d] # c /\ d \notin Named(m[c])
        BY <4>3, <2>3, <3>3, <1>0
      <4> QED BY <4>1, <4>2, <4>3
    <3> QED BY <3>1, <3>2, <3>3, <2>1, <2>2, <1>2
  <2> QED BY <2>1, <2>5, <2>6
<1>5. ASSUME Calm(m), Coalescing(m, s), \A d \in Cell : m[d] # c PROVE Goal(w)
  <2>1. /\ Head(s).do \in Working
        /\ Medium(w, u, Tail(s)) /\ (~p => u = w)
        /\ Typed(w) /\ Sound(w) /\ Coalescing(w, Tail(s)) /\ Kept(m, w)
    BY <1>1, <1>5, CoalescingCall
  <2> HIDE DEF u
  <2>2. InFree(w, Tail(s), k, a)
    BY <2>1, <1>0, <1>5 DEF InFree, Kept, Calm, SameCells
  <2>3. Promised(w, k, a, fl, dr, TRUE)
    <3>1. Others(m, w, c)
      BY <2>1, KeptOthers
    <3>2. CellsKept(m, w, a, c)
      BY <2>1 DEF CellsKept, Kept, SameCells
    <3>3. \A d \in dr : w[d] = m[d] /\ (m[d] = c => w[c] = m[c])
      <4>1. \A d \in Cell : m[d] = c => c \in Clumps(m) /\ m[c].state # "FREE"
        BY <1>0, Constants DEF Sound, PointersOK
      <4> QED BY <4>1, <2>1, <1>0 DEF Kept, SameCells
    <3>4. c \in Clumps(w) => w[c].state # "RESERVED"
      <4> SUFFICES ASSUME c \in Clumps(w), w[c].state = "RESERVED" PROVE FALSE
        OBVIOUS
      <4>1. w[c] = m[c] /\ c \in Clumps(m)
        BY <2>1 DEF Kept
      <4> QED BY <4>1, <1>0 DEF Promised
    <3>5. BlockKept(m, w, k, a, dr, c)
      BY <3>3, <3>4, <1>0 DEF BlockKept
    <3>6. Tiled(w)
      BY <2>1 DEF Sound
    <3> QED BY <3>1, <3>2, <3>5, <3>6, <2>1, <1>0, PromisedStep
  <2> QED BY <2>1, <2>2, <2>3
<1> HIDE DEF Goal
<1>6. Goal(w)
  BY <1>3, <1>4, <1>5 DEF InFree
<1> QED BY <1>1, <1>6 DEF Goal

LEMMA InDiscardStep ==
    ASSUME NEW m, NEW v, NEW s, Medium(m, v, s), s # <<>>, NEW p \in BOOLEAN, ~p => v = m,
           Head(s).do # "coalesce", NEW k, k.op = "discard", k.block \in Chunk,
           NEW a, NEW fl, NEW dr, InDiscard(m, s, k, a), Promised(m, k, a, fl, dr, TRUE)
    PROVE  LET w == Effect(m, Head(s))
               u == DurableAfter(m, v, Head(s), p)
           IN  /\ Head(s).do \in Working
               /\ Medium(w, u, Tail(s)) /\ (~p => u = w)
               /\ InDiscard(w, Tail(s), k, a) /\ Promised(w, k, a, fl, dr, TRUE)
<1> DEFINE c == k.block
           u == DurableAfter(m, v, Head(s), p)
           Goal(w) == /\ Head(s).do \in Working
                      /\ Medium(w, u, Tail(s)) /\ (~p => u = w)
                      /\ InDiscard(w, Tail(s), k, a) /\ Promised(w, k, a, fl, dr, TRUE)
<1>0. /\ Typed(m) /\ Sound(m) /\ a[c] # 0 /\ Calm(m) /\ dr \subseteq Cell /\ Releasing(k, c)
  BY DEF InDiscard, Medium, Promised, Releasing
<1>1. PICK w : w = Effect(m, Head(s))
  OBVIOUS
<1>2. ASSUME Waiting(m, c), NEW b \in Chunk \ {c}, a[b] # 0, Reserved(m, b, a[b])
      PROVE  Named(m[b]) \cap Named(m[c]) = {}
  <2>1. Waiting(m, b)
    BY <1>2 DEF Waiting, Reserved
  <2> QED BY <2>1, <1>0, <1>2 DEF Promised
<1>3. ASSUME m[c].state = "RESERVED", Clearing(m, s, c, Coalesce) PROVE Goal(w)
  <2>1. /\ s # <<>> /\ Head(s).do \in Working
        /\ Medium(w, u, Tail(s)) /\ (~p => u = w)
        /\ Typed(w) /\ Sound(w) /\ c \in Clumps(m) /\ c \in Chunk
    BY <1>1, <1>3, CoalesceIs, FinishingCall DEF Finishing
  <2> HIDE DEF u
  <2>2. /\ Clearing(w, Tail(s), c, Coalesce) \/ Finished(w, Tail(s), c, Coalesce)
        /\ Same(m, w, c) /\ SameCells(m, w) /\ w[c].state \in {"RESERVED", "FREE"}
        /\ Named(w[c]) \subseteq Named(m[c]) /\ InTransit(w) \subseteq InTransit(m)
    <3>1. LET x == Effect(m, Head(s)) IN
          /\ Clearing(x, Tail(s), c, Coalesce) \/ Finished(x, Tail(s), c, Coalesce)
          /\ Same(m, x, c) /\ SameCells(m, x) /\ x[c].state \in {m[c].state, FinalOf(m, c)}
          /\ Named(x[c]) \subseteq Named(m[c]) /\ InTransit(x) \subseteq InTransit(m)
      BY <1>0, <1>3, CoalesceIs, ClearingStep
    <3> QED BY <3>1, <1>1, <1>3 DEF FinalOf
  <2>3. Calm(w)
    BY <2>2, <1>0 DEF Calm
  <2>4. InDiscard(w, Tail(s), k, a)
    <3>1. CASE Clearing(w, Tail(s), c, Coalesce)
      <4>1. w[c].state = "RESERVED"
        BY <3>1, <2>2 DEF Clearing
      <4> QED BY <4>1, <3>1, <2>3, <1>0 DEF InDiscard
    <3>2. CASE Finished(w, Tail(s), c, Coalesce)
      <4>1. Coalescing(w, Tail(s)) /\ w[c].state = "FREE"
        BY <3>2, <2>1, <2>2, FinishedScan DEF Finished
      <4> QED BY <4>1, <2>3, <1>0 DEF InDiscard
    <3> QED BY <3>1, <3>2, <2>2
  <2>5. Promised(w, k, a, fl, dr, TRUE)
    <3>1. Others(m, w, c)
      BY <2>2, SameOthers
    <3>2. CellsKept(m, w, a, c)
      BY <2>2 DEF CellsKept, SameCells
    <3>3. Waiting(m, c)
      BY <2>1, <1>3 DEF Waiting
    <3>4. \A d \in dr : w[d] = m[d] /\ m[d] # c
      <4>1. \A d \in Cell : m[d] # c
        BY <2>1, <1>0, <1>3, Constants DEF Sound, PointersOK
      <4> QED BY <4>1, <2>2, <1>0 DEF SameCells
    <3>5. \A b \in Chunk \ {c} : a[b] # 0 /\ Reserved(m, b, a[b]) => Named(m[b]) \cap Named(w[c]) = {}
      BY <3>3, <2>2, <1>2
    <3>6. BlockKept(m, w, k, a, dr, c)
      BY <3>4, <3>5, <1>0 DEF BlockKept
    <3>7. Tiled(w)
      BY <2>1 DEF Sound
    <3> QED BY <3>1, <3>2, <3>6, <3>7, <2>1, <1>0, PromisedStep
  <2> QED BY <2>1, <2>4, <2>5
<1>4. ASSUME Coalescing(m, s), c \in Clumps(m) => m[c].state # "RESERVED" PROVE Goal(w)
  <2>1. /\ Head(s).do \in Working
        /\ Medium(w, u, Tail(s)) /\ (~p => u = w)
        /\ Typed(w) /\ Sound(w) /\ Coalescing(w, Tail(s)) /\ Kept(m, w)
    BY <1>1, <1>4, CoalescingCall
  <2> HIDE DEF u
  <2>2. c \in Clumps(w) => w[c].state = "FREE" \/ (w[c] = m[c] /\ c \in Clumps(m))
    BY <2>1 DEF Kept
  <2>3. Calm(w)
    BY <2>1, <1>0 DEF Kept, Calm
  <2>4. InDiscard(w, Tail(s), k, a)
    BY <2>1, <2>2, <2>3, <1>0, <1>4 DEF InDiscard
  <2>5. Promised(w, k, a, fl, dr, TRUE)
    <3>1. Others(m, w, c)
      BY <2>1, KeptOthers
    <3>2. CellsKept(m, w, a, c)
      BY <2>1 DEF CellsKept, Kept, SameCells
    <3>3. \A d \in dr : w[d] = m[d] /\ (m[d] = c => w[c] = m[c])
      <4>1. \A d \in Cell : m[d] = c => c \in Clumps(m) /\ m[c].state # "FREE"
        BY <1>0, Constants DEF Sound, PointersOK
      <4> QED BY <4>1, <2>1, <1>0 DEF Kept, SameCells
    <3>4. Waiting(w, c) => Waiting(m, c) /\ w[c] = m[c]
      BY <2>2 DEF Waiting
    <3>5. Waiting(w, c) => \A b \in Chunk \ {c} : a[b] # 0 /\ Reserved(m, b, a[b]) =>
                Named(m[b]) \cap Named(w[c]) = {}
      BY <3>4, <1>2
    <3>6. BlockKept(m, w, k, a, dr, c)
      BY <3>3, <3>5, <1>0 DEF BlockKept
    <3>7. Tiled(w)
      BY <2>1 DEF Sound
    <3> QED BY <3>1, <3>2, <3>6, <3>7, <2>1, <1>0, PromisedStep
  <2> QED BY <2>1, <2>4, <2>5
<1> HIDE DEF Goal
<1>5. Goal(w)
  BY <1>3, <1>4 DEF InDiscard
<1> QED BY <1>1, <1>5 DEF Goal

-----------------------------------------------------------------------------
(* The course of a call: pmemalloc_init *)

LEMMA CreatingSelf ==
    ASSUME NEW m, NEW v, NEW s, NEW f, Creating(m, v, s, f)
    PROVE  /\ Creating(m, m, s, f)
           /\ f # "sized" => Untouched(m) /\ Untouched(v)
<1>1. Creating(m, m, s, f)
  BY DEF Creating
<1>2. f # "sized" => m[0] = Blank /\ v[0] = Blank
  BY DEF Creating
<1> QED BY <1>1, <1>2 DEF Creating, Untouched

LEMMA CreatingHead ==
    ASSUME NEW m, NEW v, NEW s, NEW f, Creating(m, v, s, f)
    PROVE  s # <<>> /\ Head(s).do \in {"creat", "fallocate", "size", "cell", "fsync"}
<1>1. /\ Making # <<>> /\ Head(Making).do = "creat"
      /\ Allocating # <<>> /\ Head(Allocating).do = "fallocate"
      /\ Sizing # <<>> /\ Head(Sizing).do = "size"
      /\ Stamping # <<>> /\ Head(Stamping).do = "cell"
      /\ Syncing # <<>> /\ Head(Syncing).do = "fsync"
  BY MakingIs DEF SizeOp0, Magic, CellOp
<1> QED BY <1>1 DEF Creating

LEMMA CreatingMedium ==
    ASSUME NEW m, NEW v, NEW s, Medium(m, v, s), NEW f, Creating(m, v, s, f),
           NEW p \in BOOLEAN, ~p => v = m, NEW w, w = Effect(m, Head(s))
    PROVE  /\ Medium(w, DurableAfter(m, v, Head(s), p), Tail(s))
           /\ (~p => DurableAfter(m, v, Head(s), p) = w)
<1>1. Typed(m) /\ Sound(m) /\ DOMAIN m = Chunk \union Cell \union {HDR}
  BY MediumFacts DEF Medium, Typed
<1>2. /\ s # <<>> /\ Sound(w)
      /\ \/ w = m /\ Head(s).do \notin Stores
         \/ Walk(w) = Walk(m)
         \/ Head(s) = SizeOp0 /\ Walk(w) = {0, LastClump} /\ Walk(m) = {0}
            /\ v[LastClump] = w[LastClump] /\ \A a \in DOMAIN m \ {0} : w[a] = m[a]
  BY <1>1, CreatingStep
<1>3. Head(s).do \notin ScanHead /\ Head(s).do # "blank"
  BY CreatingHead DEF ScanHead
<1>4. CASE Walk(w) \subseteq Walk(m)
  BY <1>2, <1>3, <1>4, PlainStep
<1>5. CASE /\ Head(s) = SizeOp0 /\ Walk(w) = {0, LastClump} /\ Walk(m) = {0}
           /\ v[LastClump] = w[LastClump] /\ \A a \in DOMAIN m \ {0} : w[a] = m[a]
  <2> DEFINE E == {LastClump}
             u == DurableAfter(m, v, Head(s), p)
  <2>1. LastClump # 0 /\ LastClump \in DOMAIN m /\ Head(s).at = 0
    BY <1>1, <1>5, Constants DEF SizeOp0
  <2>2. Walk(w) \subseteq Walk(m) \union E /\ \A a \in E : v[a] = m[a] /\ a # Head(s).at
    BY <2>1, <1>5
  <2> HIDE DEF E
  <2>3. /\ Medium(m, v, s) /\ s # <<>> /\ Head(s).do \notin ScanHead /\ p \in BOOLEAN
        /\ (~p => v = m) /\ w = Effect(m, Head(s)) /\ Sound(w)
        /\ Head(s).do \in Stores =>
                /\ Walk(w) \subseteq Walk(m) \union E
                /\ \A a \in E : v[a] = m[a] /\ a # Head(s).at
                /\ Head(s).do = "blank" => Head(s).at \in Chunk /\ Head(s).at \notin Walk(m)
    BY <2>2, <1>2, <1>3
  <2>4. Medium(w, u, Tail(s)) /\ (~p => u = w)
    BY ONLY <2>3, MediumStep
  <2> QED BY <2>4
<1> QED BY <1>2, <1>4, <1>5

LEMMA OpeningStep ==
    ASSUME NEW m, NEW v, NEW s, Medium(m, v, s), s # <<>>, Head(s).do \notin ScanHead,
           NEW f, NEW df, NEW p \in BOOLEAN, ~p => v = m /\ df = f,
           NEW k, Opening(m, v, s, k, f, df), FileFits(m, v, f, df)
    PROVE  LET w == Effect(m, Head(s))
               u == DurableAfter(m, v, Head(s), p)
               g == FileAfter(f, Head(s))
               h == DurableFile(f, df, Head(s), p)
           IN  /\ Medium(w, u, Tail(s)) /\ (~p => u = w /\ h = g)
               /\ Opening(w, u, Tail(s), k, g, h) /\ FileFits(w, u, g, h)
<1> DEFINE o == Head(s)
           u == DurableAfter(m, v, Head(s), p)
           g == FileAfter(f, Head(s))
           h == DurableFile(f, df, Head(s), p)
           Goal(w) == /\ Medium(w, u, Tail(s)) /\ (~p => u = w /\ h = g)
                      /\ Opening(w, u, Tail(s), k, g, h) /\ FileFits(w, u, g, h)
<1>0. /\ Typed(m) /\ Sound(m) /\ k = [NoCall EXCEPT !.op = "init"] /\ (~p => h = g)
      /\ (p => h = IF o.do = "fsync" THEN f ELSE df)
  BY DEF Medium, Opening, DurableFile
<1>1. PICK w : w = Effect(m, Head(s))
  OBVIOUS
<1>2. ASSUME Creating(m, v, s, f) PROVE Goal(w)
  <2>1. Medium(w, u, Tail(s)) /\ (~p => u = w)
    BY <1>1, <1>2, CreatingMedium
  <2>2. /\ Sound(w)
        /\ \/ Creating(w, v, Tail(s), g) /\ o.do # "fsync"
           \/ Recovering(w, Tail(s), 0) /\ g = "sized" /\ o.do = "fsync"
        /\ w = m \/ o.do # "fsync"
    BY <1>0, <1>1, <1>2, CreatingStep DEF Magic, CellOp, SizeOp0
  <2>3. CASE Creating(w, v, Tail(s), g) /\ o.do # "fsync"
    <3>1. p => u = v /\ h = df
      BY <2>3, <1>0, <1>2, CreatingHead DEF DurableAfter
    <3> HIDE DEF u, g, h
    <3>2. Creating(w, u, Tail(s), g)
      BY <3>1, <2>1, <2>3, CreatingSelf
    <3>3. FileFits(w, u, g, h)
      <4>1. g # "sized" => Untouched(w) /\ Untouched(u)
        BY <3>2, CreatingSelf
      <4> QED BY <4>1, <3>1, <1>0 DEF FileFits
    <3> QED BY <3>2, <3>3, <2>1, <1>0 DEF Opening
  <2>4. CASE Recovering(w, Tail(s), 0) /\ g = "sized" /\ o.do = "fsync"
    <3>1. h = "sized"
      BY <2>4, <1>0 DEF FileAfter
    <3>2. Mending(w, Tail(s))
      BY <2>4, Constants DEF Mending
    <3> HIDE DEF u, g, h
    <3> QED BY <3>1, <3>2, <2>1, <2>4, <1>0 DEF Opening, FileFits
  <2> QED BY <2>2, <2>3, <2>4
<1>3. ASSUME f = "sized", df = "sized", Mending(m, s) PROVE Goal(w)
  <2>1. Mending(w, Tail(s)) /\ Sound(w) /\ Walk(w) \subseteq Walk(m) /\ o.do \in Working
    BY <1>0, <1>1, <1>3, MendingStep DEF ScanHead
  <2>2. o.do # "blank"
    BY <2>1 DEF Working
  <2>3. Medium(w, u, Tail(s)) /\ (~p => u = w)
    BY <2>1, <2>2, <1>1, PlainStep
  <2>4. g = "sized" /\ h = "sized"
    BY <2>1, <1>0, <1>3 DEF FileAfter, Working
  <2> HIDE DEF u, g, h
  <2> QED BY <2>1, <2>3, <2>4, <1>0 DEF Opening, FileFits
<1> HIDE DEF Goal
<1>4. Goal(w)
  BY <1>2, <1>3 DEF Opening
<1> QED BY <1>1, <1>4 DEF Goal

\* The next clump of a scan.
LEMMA CoalescingScan ==
    ASSUME Typed(mem), Sound(mem), NEW s, Coalescing(mem, s), s # <<>>, Head(s).do \in ScanHead
    PROVE  LET t == CoalesceSteps(Head(s).at) \o Tail(s) IN
           /\ Head(s).do = "coalesce" /\ t \in Flow /\ Coalescing(mem, t)
<1>1. Head(s).do \notin Working
  BY DEF ScanHead, Working
<1>2. PICK m : m = mem
  OBVIOUS
<1>3. Head(s).do = "coalesce"
  <2>1. Typed(m) /\ Sound(m) /\ Coalescing(m, s)
    BY <1>2
  <2> QED BY <2>1, <1>1, CoalescingStep
<1>4. ASSUME NEW c, NEW e, Uniting(m, s, c, e) PROVE FALSE
  <2>1. PICK o : o = [do |-> "size", at |-> c, size |-> e - c, state |-> "FREE"]
    OBVIOUS
  <2>2. c \in Chunk /\ e \in Chunk
    BY <1>2, <1>4, TiledFacts DEF Uniting, Sound, Typed
  <2>3. Persist(c) \o Do("coalesce", e) \in Seq(Ops)
    BY <2>2, PersistIs, ScanIs, FlowConcat DEF Flow
  <2>4. s = <<o>> \o (Persist(c) \o Do("coalesce", e))
    BY <2>1, <1>4 DEF Uniting, PutSize
  <2>5. Head(s) = o
    BY <2>3, <2>4, OneStep
  <2> QED BY <2>1, <2>5, <1>3
<1>5. PICK c \in Chunk : Scanning(m, s, c)
  BY <1>2, <1>4 DEF Coalescing, Settled
<1>6. Head(s) = [do |-> "coalesce", at |-> c] /\ Tail(s) = <<>>
  BY <1>2, <1>3, <1>5, ScanningStep DEF Persists
<1>7. CoalesceSteps(c) \in Flow /\ Coalescing(mem, CoalesceSteps(c))
  BY <1>2, <1>5, CoalesceScan DEF Scanning
<1>8. CoalesceSteps(c) \in Seq(Ops)
  BY <1>7 DEF Flow
<1>9. CoalesceSteps(c) \o <<>> = CoalesceSteps(c)
  BY <1>8
<1>10. Head(s).at = c
  BY <1>6
<1>11. CoalesceSteps(Head(s).at) \o Tail(s) = CoalesceSteps(c)
  BY <1>6, <1>9, <1>10
<1> QED BY <1>3, <1>7, <1>11

LEMMA MendingScan ==
    ASSUME Typed(mem), Sound(mem), NEW s, Mending(mem, s), s # <<>>, Head(s).do \in ScanHead,
           NEW t, \/ Head(s).do = "recover" /\ t = RecoverSteps(Head(s).at) \o Tail(s)
                  \/ Head(s).do = "coalesce" /\ t = CoalesceSteps(Head(s).at) \o Tail(s)
    PROVE  t \in Flow /\ Mending(mem, t)
<1>1. Head(s).do \notin Working /\ Head(s) \notin Persists
  BY DEF ScanHead, Working, Persists
<1>2. CASE Coalescing(mem, s) /\ Recovered(mem, LastClump)
  <2>1. Head(s).do = "coalesce"
    BY <1>2, CoalescingScan
  <2>2. t = CoalesceSteps(Head(s).at) \o Tail(s)
    BY <2>1
  <2>3. t \in Flow /\ Coalescing(mem, t)
    BY <2>2, <1>2, CoalescingScan
  <2> QED BY <2>3, <1>2 DEF Mending
<1>3. ASSUME NEW c \in Chunk, RecoveringAt(mem, s, c) PROVE FALSE
  <2>1. c \in Clumps(mem) /\ Finishing(mem, s, c, RecoverFrom(c + mem[c].size))
    BY <1>3 DEF RecoveringAt
  <2>2. c + mem[c].size \in Chunk
    BY <2>1, TiledFacts DEF Sound, Typed
  <2>3. RecoverFrom(c + mem[c].size) \in Flow
    BY <2>2, RecoverFromIs
  <2>4. Head(s).do \in Working
    BY <2>1, <2>3, FinishingHead
  <2> QED BY <2>4, <1>1
<1>4. ASSUME NEW c \in Chunk, Recovering(mem, s, c) PROVE t \in Flow /\ Mending(mem, t)
  <2>1. PICK q \in Seq(Persists) : s = q \o RecoverFrom(c)
    BY ONLY <1>4 DEF Recovering
  <2>2. /\ RecoverFrom(c) \in Seq(Ops) /\ RecoverFrom(c) # <<>>
        /\ Head(RecoverFrom(c)) = [do |-> "recover", at |-> c]
        /\ Tail(RecoverFrom(c)) = Do("coalesce", 0)
    BY RecoverFromIs
  <2>3. PICK r : r = RecoverFrom(c)
    BY ONLY <2>2
  <2>4. s = r
    <3>1. q \in Seq(Persists) /\ r \in Seq(Ops)
      BY ONLY <2>1, <2>2, <2>3
    <3>2. /\ q = <<>> => q \o r = r
          /\ q # <<>> => Head(q) \in Persists /\ Head(q \o r) = Head(q)
      BY ONLY <3>1, Peel
    <3>3. s = q \o r
      BY ONLY <2>1, <2>3
    <3>4. ASSUME q # <<>> PROVE FALSE
      <4>1. Head(s) \in Persists BY ONLY <3>2, <3>3, <3>4
      <4> QED BY ONLY <4>1, <1>1
    <3> QED BY ONLY <3>2, <3>3, <3>4
  <2>5. t = RecoverSteps(c) \o Do("coalesce", 0)
    <3>1. Head(s) = [do |-> "recover", at |-> c] /\ Tail(s) = Do("coalesce", 0)
      BY ONLY <2>2, <2>3, <2>4
    <3>2. Head(s).do = "recover" /\ Head(s).at = c
      BY ONLY <3>1
    <3>3. \/ Head(s).do = "recover" /\ t = RecoverSteps(Head(s).at) \o Tail(s)
          \/ Head(s).do = "coalesce" /\ t = CoalesceSteps(Head(s).at) \o Tail(s)
      OBVIOUS
    <3> QED BY ONLY <3>1, <3>2, <3>3
  <2>6. c \in Walk(mem) /\ Recovered(mem, c)
    BY <1>4 DEF Recovering
  <2> QED BY <2>5, <2>6, RecoverScan
<1> QED BY <1>2, <1>3, <1>4 DEF Mending

-----------------------------------------------------------------------------
(* Every call *)

LEMMA UserStep ==
    ASSUME NEW m, NEW v, NEW s, Medium(m, v, s), s # <<>>, Head(s).do # "coalesce",
           NEW p \in BOOLEAN, ~p => v = m,
           NEW k, k.op \in UserCalls, NEW a, NEW fl, NEW dr, NEW r \in BOOLEAN, NEW f, NEW df,
           Promised(m, k, a, fl, dr, r), Course(m, v, s, k, a, fl, dr, r, f, df),
           NEW w, w = Effect(m, Head(s)), NEW u, u = DurableAfter(m, v, Head(s), p)
    PROVE  /\ Head(s).do \in Working \union {"blank"}
           /\ Medium(w, u, Tail(s)) /\ (~p => u = w)
           /\ Promised(w, k, a, fl, dr, r) /\ Course(w, u, Tail(s), k, a, fl, dr, r, f, df)
<1> DEFINE Done == /\ Head(s).do \in Working \union {"blank"}
                   /\ Medium(w, u, Tail(s)) /\ (~p => u = w)
                   /\ Promised(w, k, a, fl, dr, TRUE)
<1>0. /\ k.block \in Chunk /\ k.cells \subseteq Cell /\ f = "sized" /\ df = "sized"
      /\ Promised(m, k, a, fl, dr, TRUE) /\ r = TRUE
  <2>1. r = TRUE
    BY DEF Course
  <2> QED BY <2>1 DEF Course
<1>1. CASE k.op = "reserve"
  <2>1. Done /\ InReserve(w, u, Tail(s), k, a)
    BY <1>0, <1>1, InReserveStep DEF Course
  <2> QED BY <2>1, <1>0, <1>1 DEF Course, UserCalls
<1>2. CASE k.op = "onactive"
  <2>1. Done /\ InOnActive(w, Tail(s), k, a)
    BY <1>0, <1>2, InOnActiveStep DEF Course
  <2> QED BY <2>1, <1>0, <1>2 DEF Course, UserCalls
<1>3. CASE k.op = "onfree"
  <2>1. Done /\ InOnFree(w, Tail(s), k)
    BY <1>0, <1>3, InOnFreeStep DEF Course
  <2> QED BY <2>1, <1>0, <1>3 DEF Course, UserCalls
<1>4. CASE k.op = "activate"
  <2>1. Done /\ InActivate(w, Tail(s), k, a, fl, dr)
    BY <1>0, <1>4, InActivateStep DEF Course
  <2> QED BY <2>1, <1>0, <1>4 DEF Course, UserCalls
<1>5. CASE k.op = "free"
  <2>1. Done /\ InFree(w, Tail(s), k, a)
    BY <1>0, <1>5, InFreeStep DEF Course
  <2> QED BY <2>1, <1>0, <1>5 DEF Course, UserCalls
<1>6. CASE k.op = "discard"
  <2>1. Done /\ InDiscard(w, Tail(s), k, a)
    BY <1>0, <1>6, InDiscardStep DEF Course
  <2> QED BY <2>1, <1>0, <1>6 DEF Course, UserCalls
<1> QED BY <1>1, <1>2, <1>3, <1>4, <1>5, <1>6 DEF UserCalls

LEMMA CourseStep ==
    ASSUME NEW m, NEW v, NEW s, Medium(m, v, s), s # <<>>, Head(s).do \notin ScanHead,
           NEW p \in BOOLEAN, NEW k, NEW a, NEW fl, NEW dr, NEW r \in BOOLEAN, NEW f, NEW df,
           ~p => v = m /\ df = f,
           Promised(m, k, a, fl, dr, r), Course(m, v, s, k, a, fl, dr, r, f, df), FileFits(m, v, f, df),
           NEW w, w = Effect(m, Head(s)), NEW u, u = DurableAfter(m, v, Head(s), p),
           NEW g, g = FileAfter(f, Head(s)), NEW h, h = DurableFile(f, df, Head(s), p)
    PROVE  /\ Medium(w, u, Tail(s))
           /\ Promised(w, k, a, fl, dr, r) /\ Course(w, u, Tail(s), k, a, fl, dr, r, g, h)
           /\ FileFits(w, u, g, h)
<1>1. CASE k.op \in UserCalls
  <2>1. r = TRUE /\ f = "sized" /\ df = "sized"
    BY <1>1 DEF Course
  <2>2. Promised(m, k, a, fl, dr, TRUE) /\ Course(m, v, s, k, a, fl, dr, TRUE, f, df)
    BY <2>1
  <2>3. Head(s).do # "coalesce"
    BY DEF ScanHead
  <2>4. /\ Head(s).do \in Working \union {"blank"}
        /\ Medium(w, u, Tail(s))
        /\ Promised(w, k, a, fl, dr, r) /\ Course(w, u, Tail(s), k, a, fl, dr, r, f, df)
    BY <1>1, <2>3, UserStep
  <2>5. g = f /\ h = "sized"
    BY <2>1, <2>4 DEF FileAfter, DurableFile, Working
  <2> QED BY <2>1, <2>4, <2>5 DEF FileFits
<1>2. CASE k.op = "init"
  <2>1. r = FALSE /\ Opening(m, v, s, k, f, df)
    BY <1>2 DEF Course
  <2>2. /\ Medium(w, u, Tail(s))
        /\ Opening(w, u, Tail(s), k, g, h) /\ FileFits(w, u, g, h)
    BY <2>1, OpeningStep
  <2>3. Promised(w, k, a, fl, dr, FALSE)
    BY <2>1, PromisedNothing
  <2> QED BY <2>1, <2>2, <2>3, <1>2 DEF Course, UserCalls
<1>3. CASE k.op = "none"
  BY <1>3 DEF Course, Between
<1> QED BY <1>1, <1>2, <1>3 DEF Course

LEMMA CourseScan ==
    ASSUME NEW v, NEW s, Medium(mem, v, s), s # <<>>,
           NEW p \in BOOLEAN, ~p => v = mem,
           NEW k, NEW a, NEW fl, NEW dr, NEW r \in BOOLEAN, NEW f, NEW df,
           Promised(mem, k, a, fl, dr, r), Course(mem, v, s, k, a, fl, dr, r, f, df),
           NEW t, \/ Head(s).do = "recover" /\ t = RecoverSteps(Head(s).at) \o Tail(s)
                  \/ Head(s).do = "coalesce" /\ t = CoalesceSteps(Head(s).at) \o Tail(s)
    PROVE  Medium(mem, v, t) /\ Course(mem, v, t, k, a, fl, dr, r, f, df)
<1>0. /\ Typed(mem) /\ Sound(mem) /\ Head(s).do \in ScanHead
      /\ Head(s).do \notin Working \union {"blank"}
  BY DEF Medium, ScanHead, Working
<1>1. t \in Flow => Medium(mem, v, t)
  <2>1. Pending(s) = HDR
    BY <1>0 DEF Pending, LineOf, Magic, CellOp, ScanHead
  <2>2. PICK m : m = mem
    OBVIOUS
  <2>3. t \in Flow => Medium(m, v, t)
    BY <2>1, <2>2, ScanKeeps
  <2> QED BY <2>2, <2>3
<1>2. CASE k.op = "init"
  <2>1. ~r /\ Opening(mem, v, s, k, f, df)
    BY <1>2 DEF Course
  <2>2. f = "sized" /\ df = "sized" /\ Mending(mem, s)
    BY <2>1, <1>0, CreatingHead DEF Opening, ScanHead
  <2>3. t \in Flow /\ Mending(mem, t)
    BY <2>2, <1>0, MendingScan
  <2> QED BY <2>1, <2>2, <2>3, <1>1, <1>2 DEF Course, Opening, UserCalls
<1>3. ASSUME k.op \in UserCalls, Head(s).do # "coalesce" PROVE FALSE
  <2>1. PICK m, w, u : m = mem /\ w = Effect(m, Head(s)) /\ u = DurableAfter(m, v, Head(s), p)
    OBVIOUS
  <2>2. r = TRUE
    BY <1>3 DEF Course
  <2>3. /\ Medium(m, v, s) /\ s # <<>> /\ Head(s).do # "coalesce" /\ p \in BOOLEAN
        /\ (~p => v = m) /\ k.op \in UserCalls
        /\ Promised(m, k, a, fl, dr, r) /\ Course(m, v, s, k, a, fl, dr, r, f, df)
        /\ w = Effect(m, Head(s)) /\ u = DurableAfter(m, v, Head(s), p)
    BY <1>3, <2>1, <2>2
  <2>4. Head(s).do \in Working \union {"blank"}
    BY ONLY <2>3, UserStep
  <2> QED BY <2>4, <1>0
<1>4. CASE k.op \in {"reserve", "onactive", "onfree", "activate"}
  <2>1. PICK m : m = mem
    OBVIOUS
  <2>2. r = TRUE /\ k.block \in Chunk /\ Medium(m, v, s) /\ (~p => v = m)
        /\ Promised(m, k, a, fl, dr, TRUE)
    BY <1>4, <2>1 DEF Course, UserCalls
  <2>3. CASE k.op = "reserve"
    <3>1. InReserve(m, v, s, k, a)
      BY <2>1, <2>3 DEF Course
    <3> QED BY <3>1, <2>2, <2>3, <1>0, InReserveStep
  <2>4. CASE k.op = "onactive"
    <3>1. InOnActive(m, s, k, a)
      BY <2>1, <2>4 DEF Course
    <3> QED BY <3>1, <2>2, <2>4, <1>0, InOnActiveStep
  <2>5. CASE k.op = "onfree"
    <3>1. InOnFree(m, s, k)
      BY <2>1, <2>5 DEF Course
    <3> QED BY <3>1, <2>2, <2>5, <1>0, InOnFreeStep
  <2>6. CASE k.op = "activate"
    <3>1. InActivate(m, s, k, a, fl, dr)
      BY <2>1, <2>6 DEF Course
    <3> QED BY <3>1, <2>2, <2>6, <1>0, InActivateStep
  <2> QED BY <1>4, <2>3, <2>4, <2>5, <2>6
<1>5. ASSUME Coalescing(mem, s), Head(s).do = "coalesce" PROVE t \in Flow /\ Coalescing(mem, t)
  <2>1. t = CoalesceSteps(Head(s).at) \o Tail(s)
    BY <1>5
  <2> QED BY <2>1, <1>0, <1>5, CoalescingScan
<1>6. ASSUME NEW c, Finishing(mem, s, c, Coalesce) PROVE FALSE
  BY <1>0, <1>6, CoalesceIs, FinishingHead
<1>7. CASE k.op = "free"
  <2>1. r = TRUE /\ InFree(mem, s, k, a)
    BY <1>7 DEF Course, UserCalls
  <2>2. ASSUME NEW c, Ready(mem, c, "FREEING"), Starting(mem, s, c, "FREEING", Coalesce) PROVE FALSE
    BY <1>0, <2>2, CoalesceIs, StartingHead
  <2>3. Calm(mem) /\ Coalescing(mem, s) /\ a[k.block] = 0 /\ \A d \in Cell : mem[d] # k.block
    BY <2>1, <2>2, <1>6 DEF InFree
  <2>4. t \in Flow /\ Coalescing(mem, t)
    BY <2>3, <1>3, <1>5, <1>7 DEF UserCalls
  <2>5. InFree(mem, t, k, a)
    BY <2>3, <2>4 DEF InFree
  <2> QED BY <2>1, <2>4, <2>5, <1>1, <1>7 DEF Course, UserCalls
<1>8. CASE k.op = "discard"
  <2>1. r = TRUE /\ InDiscard(mem, s, k, a)
    BY <1>8 DEF Course, UserCalls
  <2>2. /\ Calm(mem) /\ Coalescing(mem, s) /\ a[k.block] # 0
        /\ k.block \in Clumps(mem) => mem[k.block].state # "RESERVED"
    BY <2>1, <1>6 DEF InDiscard, Finishing
  <2>3. t \in Flow /\ Coalescing(mem, t)
    BY <2>2, <1>3, <1>5, <1>8 DEF UserCalls
  <2>4. InDiscard(mem, t, k, a)
    BY <2>2, <2>3 DEF InDiscard
  <2> QED BY <2>1, <2>3, <2>4, <1>1, <1>8 DEF Course, UserCalls
<1>9. CASE k.op = "none"
  BY <1>9 DEF Course, Between
<1> QED BY <1>2, <1>4, <1>7, <1>8, <1>9 DEF Course, UserCalls

-----------------------------------------------------------------------------
(* The invariant *)

\* What every call begins with.
LEMMA MediumCourse ==
    ASSUME NEW m, NEW v, NEW s, Medium(m, v, s)
    PROVE  /\ Typed(m) /\ Typed(v) /\ Sound(m) /\ Sound(v) /\ s \in Seq(Ops)
           /\ MediumOK(m) /\ MediumOK(v)
BY DEF Medium, Typed, Flow

LEMMA AgreedStep ==
    ASSUME NEW m, NEW v, NEW s, NEW k, NEW a, NEW fl, NEW dr, NEW r, NEW f, NEW df,
           Agreed(m, v, s, k, a, fl, dr, r, f, df), s # <<>>, Head(s).do \notin ScanHead,
           NEW p \in BOOLEAN, ~p => v = m /\ df = f,
           NEW w, w = Effect(m, Head(s)), NEW u, u = DurableAfter(m, v, Head(s), p),
           NEW g, g = FileAfter(f, Head(s)), NEW h, h = DurableFile(f, df, Head(s), p)
    PROVE  Agreed(w, u, Tail(s), k, a, fl, dr, r, g, h)
<1>1. /\ r \in BOOLEAN /\ Medium(m, v, s) /\ FileFits(m, v, f, df)
      /\ Promised(m, k, a, fl, dr, r) /\ Course(m, v, s, k, a, fl, dr, r, f, df)
  BY DEF Agreed
<1>2. /\ Medium(w, u, Tail(s))
      /\ Promised(w, k, a, fl, dr, r) /\ Course(w, u, Tail(s), k, a, fl, dr, r, g, h)
      /\ FileFits(w, u, g, h)
  BY <1>1, CourseStep
<1> QED BY <1>1, <1>2 DEF Agreed

\* A step that is no scan, in the state.
LEMMA OneStepKeeps ==
    ASSUME Background, todo # <<>>, Head(todo).do \notin ScanHead, todo \in Seq(Ops),
           Agreed(mem, survivor, todo, call, asked, filled, dropped, up, file, durableFile),
           mem' = Effect(mem, Head(todo)),
           survivor' = DurableAfter(mem, survivor, Head(todo), "power" \in failures),
           file' = FileAfter(file, Head(todo)),
           durableFile' = DurableFile(file, durableFile, Head(todo), "power" \in failures),
           todo' = Tail(todo), UNCHANGED <<call, asked, filled, dropped, up>>
    PROVE  Agreed(mem, survivor, todo, call, asked, filled, dropped, up, file, durableFile)'
<1>1. PICK m, v, s, k, a, fl, dr, r, f, df :
        /\ m = mem /\ v = survivor /\ s = todo /\ k = call /\ a = asked /\ fl = filled
        /\ dr = dropped /\ r = up /\ f = file /\ df = durableFile
  OBVIOUS
<1>2. PICK p, w, u, g, h : 
        /\ p = ("power" \in failures) /\ w = mem' /\ u = survivor' /\ g = file' /\ h = durableFile'
  OBVIOUS
<1>3. /\ Agreed(m, v, s, k, a, fl, dr, r, f, df) /\ s # <<>> /\ Head(s).do \notin ScanHead
      /\ p \in BOOLEAN /\ (~p => v = m /\ df = f)
      /\ w = Effect(m, Head(s)) /\ u = DurableAfter(m, v, Head(s), p)
      /\ g = FileAfter(f, Head(s)) /\ h = DurableFile(f, df, Head(s), p)
  <2>1. ~p => survivor = mem /\ durableFile = file
    BY <1>2 DEF survivor, durableFile
  <2> QED BY <1>1, <1>2, <2>1
<1>4. Agreed(w, u, Tail(s), k, a, fl, dr, r, g, h)
  BY ONLY <1>3, AgreedStep
<1> QED BY <1>1, <1>2, <1>4

\* The states of the file.
LEMMA FileKinds ==
    ASSUME NEW f \in {"absent", "empty", "sized"}, NEW df \in {"absent", "empty", "sized"}, NEW o, NEW p
    PROVE  /\ FileAfter(f, o) \in {"absent", "empty", "sized"}
           /\ DurableFile(f, df, o, p) \in {"absent", "empty", "sized"}
BY DEF FileAfter, DurableFile

LEMMA StoreInv ==
    ASSUME IInv, Store
    PROVE  IInv'
<1> DEFINE o == Head(todo)
<1>1. /\ Background /\ todo # <<>> /\ o.do \in Stores
      /\ Agreed(mem, survivor, todo, call, asked, filled, dropped, up, file, durableFile)
      /\ todo' = Tail(todo) /\ mem' = [mem EXCEPT ![o.at] = Written(o)]
      /\ UNCHANGED <<file, pfile, pm, up, failures, call, asked, filled, dropped>>
  BY DEF IInv, Store, Stores, program
<1>2. todo \in Seq(Ops)
  <2>1. Medium(mem, survivor, todo) BY <1>1 DEF Agreed
  <2> QED BY <2>1 DEF Medium, Flow
<1>3. mem' = Effect(mem, o)
  <2>1. PICK m, e : m = mem /\ e = o OBVIOUS
  <2>2. e.do \in Stores BY <1>1, <2>1
  <2>3. Effect(m, e) = [m EXCEPT ![e.at] = WrittenTo(m, e)] BY <2>2 DEF Effect
  <2>4. Written(o) = WrittenTo(m, e) BY <2>1 DEF Written, WrittenTo
  <2> QED BY <1>1, <2>1, <2>3, <2>4
<1>4. o.do \notin ScanHead BY <1>1 DEF Stores, ScanHead
<1>5. survivor' = DurableAfter(mem, survivor, o, "power" \in failures)
  BY <1>1, <1>3 DEF survivor, DurableAfter, Stores
<1>6. /\ file' = FileAfter(file, o)
      /\ durableFile' = DurableFile(file, durableFile, o, "power" \in failures)
  BY <1>1 DEF durableFile, DurableFile, FileAfter, Stores
<1>7. Agreed(mem, survivor, todo, call, asked, filled, dropped, up, file, durableFile)'
  BY <1>1, <1>2, <1>3, <1>4, <1>5, <1>6, OneStepKeeps
<1> QED BY <1>1, <1>7 DEF IInv, Background, OneKindFails

LEMMA FlushInv ==
    ASSUME IInv, Flush
    PROVE  IInv'
<1> DEFINE o == Head(todo)
<1>1. /\ Background /\ todo # <<>> /\ o.do = "persist"
      /\ Agreed(mem, survivor, todo, call, asked, filled, dropped, up, file, durableFile)
      /\ todo' = Tail(todo) /\ pm' = [pm EXCEPT ![o.at] = Durable(mem[o.at], @)]
      /\ UNCHANGED <<file, mem, pfile, up, failures, call, asked, filled, dropped>>
  BY DEF IInv, Flush, program
<1>2. todo \in Seq(Ops) /\ MediumOK(mem)
  <2>1. Medium(mem, survivor, todo) BY <1>1 DEF Agreed
  <2> QED BY <2>1 DEF Medium, Flow, Typed
<1>3. o \in Ops
  <2>1. PICK s : s = todo OBVIOUS
  <2>2. s \in Seq(Ops) /\ s # <<>> BY <1>1, <1>2, <2>1
  <2>3. Head(s) \in Ops BY <2>2
  <2> QED BY <2>1, <2>3
<1>4. o \in Persists
  <2>1. PICK e : e = o OBVIOUS
  <2>2. e \in Ops /\ e.do = "persist" BY <1>1, <1>3, <2>1
  <2>3. e \in Persists BY <2>2, OpsKinds
  <2> QED BY <2>1, <2>3
<1>5. mem' = Effect(mem, o)
  <2>1. Effect(mem, o) = mem BY <1>1 DEF Effect, Stores
  <2> QED BY <1>1, <2>1
<1>6. o.do \notin ScanHead BY <1>1 DEF ScanHead
<1>7. survivor' = DurableAfter(mem, survivor, o, "power" \in failures)
  BY <1>1, <1>5 DEF survivor, DurableAfter, Durable
<1>8. /\ file' = FileAfter(file, o)
      /\ durableFile' = DurableFile(file, durableFile, o, "power" \in failures)
  BY <1>1 DEF durableFile, DurableFile, FileAfter
<1>9. Agreed(mem, survivor, todo, call, asked, filled, dropped, up, file, durableFile)'
  BY <1>1, <1>2, <1>5, <1>6, <1>7, <1>8, OneStepKeeps
<1>10. MediumOK(pm')
  <2>1. o.at \in Chunk \union Cell BY <1>4 DEF Persists
  <2>2. \A x \in Chunk \union Cell \union {HDR} : pm'[x] \in {pm[x], mem[x]}
    BY <1>1 DEF Durable, Background, MediumOK
  <2>3. DOMAIN pm' = DOMAIN pm BY <1>1
  <2> QED BY <1>1, <1>2, <2>2, <2>3 DEF Background, MediumOK
<1> QED BY <1>1, <1>9, <1>10 DEF IInv, Background, OneKindFails

LEMMA FileInv ==
    ASSUME IInv, FileStep
    PROVE  IInv'
<1> DEFINE o == Head(todo)
<1>1. /\ Background /\ todo # <<>> /\ o.do \in {"creat", "fallocate", "fsync"}
      /\ Agreed(mem, survivor, todo, call, asked, filled, dropped, up, file, durableFile)
      /\ todo' = Tail(todo)
      /\ UNCHANGED <<mem, up, failures, call, asked, filled, dropped>>
      /\ o.do = "creat" => file' = "empty" /\ UNCHANGED <<pfile, pm>>
      /\ o.do = "fallocate" => file' = "sized" /\ UNCHANGED <<pfile, pm>>
      /\ o.do = "fsync" => /\ pfile' = Durable(file, pfile) /\ pm' = Durable(mem, pm)
                           /\ UNCHANGED file
  BY DEF IInv, FileStep, program
<1>2. todo \in Seq(Ops) /\ MediumOK(mem)
  <2>1. Medium(mem, survivor, todo) BY <1>1 DEF Agreed
  <2> QED BY <2>1 DEF Medium, Flow, Typed
<1>5. mem' = Effect(mem, o)
  <2>1. Effect(mem, o) = mem BY <1>1 DEF Effect, Stores
  <2> QED BY <1>1, <2>1
<1>6. o.do \notin ScanHead BY <1>1 DEF ScanHead
<1>7. survivor' = DurableAfter(mem, survivor, o, "power" \in failures)
  BY <1>1, <1>5 DEF survivor, DurableAfter, Durable
<1>8. /\ file' = FileAfter(file, o)
      /\ durableFile' = DurableFile(file, durableFile, o, "power" \in failures)
  BY <1>1 DEF durableFile, DurableFile, FileAfter, Durable
<1>9. Agreed(mem, survivor, todo, call, asked, filled, dropped, up, file, durableFile)'
  BY <1>1, <1>2, <1>5, <1>6, <1>7, <1>8, OneStepKeeps
<1>10. Background'
  BY <1>1, <1>2 DEF Durable, Background, OneKindFails
<1> QED BY <1>9, <1>10 DEF IInv

-----------------------------------------------------------------------------
(* The steps that are no store and no flush *)

LEMMA ScanInv ==
    ASSUME IInv, Scan
    PROVE  IInv'
<1>1. /\ Background /\ todo # <<>>
      /\ Agreed(mem, survivor, todo, call, asked, filled, dropped, up, file, durableFile)
      /\ \/ Head(todo).do = "recover" /\ todo' = RecoverSteps(Head(todo).at) \o Tail(todo)
         \/ Head(todo).do = "coalesce" /\ todo' = CoalesceSteps(Head(todo).at) \o Tail(todo)
      /\ UNCHANGED <<file, mem, pfile, pm, up, failures, call, asked, filled, dropped>>
  BY DEF IInv, Scan, program, media
<1>2. PICK v, s, k, a, fl, dr, r, f, df :
        /\ v = survivor /\ s = todo /\ k = call /\ a = asked /\ fl = filled
        /\ dr = dropped /\ r = up /\ f = file /\ df = durableFile
  OBVIOUS
<1>3. PICK t, p : t = todo' /\ p = ("power" \in failures) OBVIOUS
<1>4. Medium(mem, v, s) /\ s # <<>> /\ p \in BOOLEAN /\ (~p => v = mem) /\ r \in BOOLEAN
  <2>0. p \in BOOLEAN BY <1>3
  <2>1. ~p => survivor = mem BY <1>3 DEF survivor
  <2>2. Agreed(mem, v, s, k, a, fl, dr, r, f, df) BY <1>1, <1>2
  <2> QED BY <1>1, <1>2, <2>0, <2>1, <2>2 DEF Agreed
<1>5. Promised(mem, k, a, fl, dr, r) /\ Course(mem, v, s, k, a, fl, dr, r, f, df) /\ FileFits(mem, v, f, df)
  BY <1>1, <1>2 DEF Agreed
<1>6. \/ Head(s).do = "recover" /\ t = RecoverSteps(Head(s).at) \o Tail(s)
      \/ Head(s).do = "coalesce" /\ t = CoalesceSteps(Head(s).at) \o Tail(s)
  BY <1>1, <1>2, <1>3
<1>7. Medium(mem, v, t) /\ Course(mem, v, t, k, a, fl, dr, r, f, df)
  BY ONLY <1>4, <1>5, <1>6, CourseScan
<1>8. Agreed(mem, v, t, k, a, fl, dr, r, f, df)
  BY <1>4, <1>5, <1>7 DEF Agreed
<1>9. survivor' = v /\ durableFile' = df BY <1>1, <1>2 DEF survivor, durableFile
<1>10. Agreed(mem, survivor, todo, call, asked, filled, dropped, up, file, durableFile)'
  BY <1>1, <1>2, <1>3, <1>8, <1>9
<1> QED BY <1>1, <1>10 DEF IInv, Background, OneKindFails

\* A line is written back by itself.
LEMMA AgreedEvict ==
    ASSUME NEW m, NEW v, NEW s, NEW k, NEW a, NEW fl, NEW dr, NEW r, NEW f,
           Agreed(m, v, s, k, a, fl, dr, r, f, "sized"), NEW x \in DOMAIN m,
           NEW u, u = [v EXCEPT ![x] = m[x]]
    PROVE  Agreed(m, u, s, k, a, fl, dr, r, f, "sized")
<1>1. /\ r \in BOOLEAN /\ Medium(m, v, s) /\ FileFits(m, v, f, "sized")
      /\ Promised(m, k, a, fl, dr, r) /\ Course(m, v, s, k, a, fl, dr, r, f, "sized")
  BY DEF Agreed
<1>2. Medium(m, u, s) BY <1>1, EvictKeeps
<1>3. \A y \in DOMAIN m : u[y] = v[y] \/ u[y] = m[y]
  <2>1. Typed(m) /\ Typed(v) BY <1>1 DEF Medium
  <2>2. DOMAIN v = DOMAIN m BY <2>1 DEF Typed, MediumOK
  <2> QED BY <2>2
<1>4. DOMAIN m = Chunk \union Cell \union {HDR}
  BY <1>1 DEF Medium, Typed, MediumOK
<1>5. FileFits(m, u, f, "sized")
  BY <1>1, <1>3, <1>4 DEF FileFits, Untouched
<1>6. Creating(m, v, s, f) => Creating(m, u, s, f)
  <2>1. 0 \in Chunk BY Constants
  <2> HAVE Creating(m, v, s, f)
  <2>2. /\ \A c \in Chunk \ {0} : m[c] = Blank /\ v[c] = Blank
        /\ \A d \in Cell : m[d] = NULL /\ v[d] = NULL
        /\ \/ /\ m[0] = Blank /\ v[0] = Blank
              /\ s = Making \/ s = Allocating \/ (s = Sizing /\ f = "sized")
           \/ m[0] = Whole /\ f = "sized" /\ (s = Stamping \/ s = Syncing)
    BY DEF Creating
  <2>3. \A c \in Chunk \ {0} : u[c] = Blank BY <2>2, <1>3, <1>4
  <2>4. \A d \in Cell : u[d] = NULL BY <2>2, <1>3, <1>4
  <2>5. m[0] = Blank /\ v[0] = Blank => u[0] = Blank BY <1>3, <1>4, <2>1
  <2> QED BY <2>2, <2>3, <2>4, <2>5 DEF Creating
<1>7. Opening(m, v, s, k, f, "sized") => Opening(m, u, s, k, f, "sized")
  BY <1>6 DEF Opening
<1>8. InReserve(m, v, s, k, a) => InReserve(m, u, s, k, a)
  <2> HAVE InReserve(m, v, s, k, a)
  <2> DEFINE y == k.block + k.n
  <2>1. m[k.block].state = "FREE" /\ m[k.block].size - k.n >= 2 => Owed(m, v, s, y)
    BY DEF InReserve
  <2>2. ASSUME m[k.block].state = "FREE", m[k.block].size - k.n >= 2
        PROVE  Owed(m, u, s, y)
    <3>1. Typed(m) /\ Tiled(m) BY <1>1 DEF Medium, Sound
    <3>2. k.block \in Clumps(m) /\ k.n \in Nat /\ 0 < k.n /\ k.n <= m[k.block].size
      BY RequestIs DEF InReserve, Reserving
    <3>3. y \in Chunk
      <4>1. PICK c, n : c = k.block /\ n = k.n OBVIOUS
      <4>2. c \in Clumps(m) /\ n \in Nat /\ 0 < n /\ n <= m[c].size /\ m[c].size - n >= 2
        BY <3>2, <4>1, <2>2
      <4>3. c + n \in Chunk BY ONLY <4>2, <3>1, PlacingIs
      <4> QED BY <4>1, <4>3
    <3>4. u[y] = v[y] \/ u[y] = m[y] BY <3>3, <1>3, <1>4
    <3> QED BY <3>4, <2>1, <2>2 DEF Owed
  <2> QED BY <2>2 DEF InReserve
<1>9. Course(m, u, s, k, a, fl, dr, r, f, "sized")
  BY <1>1, <1>7, <1>8 DEF Course
<1> QED BY <1>1, <1>2, <1>5, <1>9 DEF Agreed

\* The file is written back by itself.
LEMMA AgreedFile ==
    ASSUME NEW m, NEW v, NEW s, NEW k, NEW a, NEW fl, NEW dr, NEW r, NEW f, NEW df,
           Agreed(m, v, s, k, a, fl, dr, r, f, df)
    PROVE  Agreed(m, v, s, k, a, fl, dr, r, f, f)
<1>1. /\ r \in BOOLEAN /\ Medium(m, v, s) /\ FileFits(m, v, f, df)
      /\ Promised(m, k, a, fl, dr, r) /\ Course(m, v, s, k, a, fl, dr, r, f, df)
  BY DEF Agreed
<1>2. FileFits(m, v, f, f) BY <1>1 DEF FileFits
<1>3. Opening(m, v, s, k, f, df) => Opening(m, v, s, k, f, f) BY DEF Opening
<1>4. Between(m, s, k, r, f, df) => Between(m, s, k, r, f, f) BY DEF Between
<1>5. Course(m, v, s, k, a, fl, dr, r, f, f) BY <1>1, <1>3, <1>4 DEF Course
<1> QED BY <1>1, <1>2, <1>5 DEF Agreed

LEMMA EvictInv ==
    ASSUME IInv, Evict
    PROVE  IInv'
<1>1. /\ Background /\ "power" \in failures
      /\ Agreed(mem, survivor, todo, call, asked, filled, dropped, up, file, durableFile)
      /\ UNCHANGED <<file, mem, todo, up, failures, call, asked, filled, dropped>>
  BY DEF IInv, Evict, program
<1>2. survivor = pm /\ durableFile = pfile /\ survivor' = pm' /\ durableFile' = pfile'
  BY <1>1 DEF survivor, durableFile
<1>3. PICK m, v, s, k, a, fl, dr, r, f, df :
        /\ m = mem /\ v = pm /\ s = todo /\ k = call /\ a = asked /\ fl = filled
        /\ dr = dropped /\ r = up /\ f = file /\ df = pfile
  OBVIOUS
<1>4. Agreed(m, v, s, k, a, fl, dr, r, f, df) BY <1>1, <1>2, <1>3
<1>5. \/ df = "sized" /\ (\E x \in DOMAIN m : pm' = [v EXCEPT ![x] = m[x]]) /\ pfile' = df
      \/ pfile' = f /\ pm' = v
  BY <1>3 DEF Evict
<1>6. CASE df = "sized" /\ (\E x \in DOMAIN m : pm' = [v EXCEPT ![x] = m[x]]) /\ pfile' = df
  <2>1. PICK x \in DOMAIN m : pm' = [v EXCEPT ![x] = m[x]] BY <1>6
  <2>2. PICK u : u = [v EXCEPT ![x] = m[x]] OBVIOUS
  <2>3. Agreed(m, v, s, k, a, fl, dr, r, f, "sized") BY <1>4, <1>6
  <2>4. Agreed(m, u, s, k, a, fl, dr, r, f, "sized") BY ONLY <2>1, <2>2, <2>3, AgreedEvict
  <2>5. Agreed(mem, survivor, todo, call, asked, filled, dropped, up, file, durableFile)'
    BY <1>1, <1>2, <1>3, <1>6, <2>1, <2>2, <2>4
  <2>6. MediumOK(pm')
    <3>1. Medium(m, u, s) BY <2>4 DEF Agreed
    <3>2. MediumOK(u) BY <3>1 DEF Medium, Typed
    <3> QED BY <3>2, <2>1, <2>2
  <2> QED BY <1>1, <1>6, <1>3, <2>5, <2>6 DEF IInv, Background, OneKindFails
<1>7. CASE pfile' = f /\ pm' = v
  <2>1. Agreed(m, v, s, k, a, fl, dr, r, f, f) BY ONLY <1>4, AgreedFile
  <2>2. Agreed(mem, survivor, todo, call, asked, filled, dropped, up, file, durableFile)'
    BY <1>1, <1>2, <1>3, <1>7, <2>1
  <2> QED BY <1>1, <1>7, <1>3, <2>2 DEF IInv, Background, OneKindFails
<1> QED BY <1>5, <1>6, <1>7

-----------------------------------------------------------------------------
(* The pool is opened, the process ends *)

LEMMA AgreedEnds ==
    ASSUME NEW m, NEW v, Medium(m, v, <<>>), NEW f, FileFits(m, v, f, f)
    PROVE  Agreed(m, v, <<>>, NoCall, NoReservation, {}, {}, FALSE, f, f)
<1>1. Promised(m, NoCall, NoReservation, {}, {}, FALSE)
  BY DEF Promised, NoReservation
<1>2. Course(m, v, <<>>, NoCall, NoReservation, {}, {}, FALSE, f, f)
  BY DEF Course, Between, NoCall, UserCalls
<1> QED BY <1>1, <1>2 DEF Agreed

LEMMA InitInv ==
    ASSUME Init, OneKindFails
    PROVE  IInv
<1>1. PICK m : m = mem OBVIOUS
<1>2. /\ m = [x \in Chunk \union Cell \union {HDR} |-> IF x \in Chunk THEN Blank ELSE NULL]
      /\ survivor = m /\ durableFile = "absent"
  BY <1>1 DEF Init, survivor, durableFile
<1>3. /\ DOMAIN m = Chunk \union Cell \union {HDR}
      /\ \A c \in Chunk : m[c] = Blank
      /\ \A d \in Cell : m[d] = NULL
      /\ m[HDR] = NULL
  BY <1>2, Constants
<1>4. Typed(m)
  <2>1. MediumOK(m) BY <1>3, BlankLine DEF MediumOK
  <2>2. Fits(m) BY <1>3, BlankLine, Constants DEF Fits
  <2> QED BY <2>1, <2>2 DEF Typed
<1>5. Sound(m)
  <2>1. m[0].size = 0 BY <1>3, BlankLine, Constants
  <2> QED BY <1>3, <1>4, <2>1, SoundNew DEF Typed
<1>6. Medium(m, m, <<>>) BY ONLY <1>4, <1>5, FlowEmpty, SyncKeeps
<1>7. FileFits(m, m, "absent", "absent") BY <1>3 DEF FileFits, Untouched
<1>8. Agreed(m, m, <<>>, NoCall, NoReservation, {}, {}, FALSE, "absent", "absent")
  BY ONLY <1>6, <1>7, AgreedEnds
<1>9. Agreed(mem, survivor, todo, call, asked, filled, dropped, up, file, durableFile)
  BY <1>1, <1>2, <1>8 DEF Init, NoReservation
<1>10. MediumOK(pm) BY <1>1, <1>4 DEF Init, Typed
<1> QED BY <1>9, <1>10 DEF IInv, Background, Init

\* The pool is opened.
LEMMA OpenInv ==
    ASSUME IInv, InitPool
    PROVE  IInv'
<1>1. /\ Background /\ ~up /\ call = NoCall /\ file # "empty"
      /\ Agreed(mem, survivor, todo, call, asked, filled, dropped, up, file, durableFile)
      /\ call' = [NoCall EXCEPT !.op = "init"]
      /\ todo' = (IF file = "absent" THEN CreateSteps ELSE <<>>) \o Do("recover", 0) \o Do("coalesce", 0)
      /\ UNCHANGED <<file, mem, pfile, pm, up, failures, asked, filled, dropped>>
  BY DEF IInv, InitPool, program, media
<1>2. PICK m, v, s, k, a, fl, dr, r, f, df :
        /\ m = mem /\ v = survivor /\ s = todo /\ k = call /\ a = asked /\ fl = filled
        /\ dr = dropped /\ r = up /\ f = file /\ df = durableFile
  OBVIOUS
<1>3. Agreed(m, v, s, k, a, fl, dr, r, f, df) /\ k = NoCall /\ r = FALSE
  <2>1. up \in BOOLEAN BY <1>1 DEF Agreed
  <2> QED BY <1>1, <1>2, <2>1
<1>4. /\ Medium(m, v, s) /\ FileFits(m, v, f, df)
      /\ Promised(m, k, a, fl, dr, FALSE) /\ Course(m, v, s, k, a, fl, dr, r, f, df)
  BY <1>3 DEF Agreed
<1>5. s = <<>> /\ f = df
  <2>1. k.op = "none" BY <1>3 DEF NoCall
  <2> QED BY <2>1, <1>4 DEF Course, Between
<1>6. Pending(s) = HDR BY <1>5 DEF Pending
<1>7. PICK t, j : t = todo' /\ j = call' OBVIOUS
<1>8. Medium(m, v, t) /\ Opening(m, v, t, j, f, df)
  <2>1. j = [NoCall EXCEPT !.op = "init"] BY <1>1, <1>7
  <2>2. CASE f = "absent"
    <3>1. t = (CreateSteps \o Do("recover", 0)) \o Do("coalesce", 0) BY <1>1, <1>2, <1>7, <2>2
    <3>2. t = Making /\ t \in Flow BY <3>1, MakingIs
    <3>3. Medium(m, v, t) BY ONLY <1>4, <1>6, <3>2, ScanKeeps
    <3>4. Untouched(m) /\ Untouched(v) BY <1>4, <2>2 DEF FileFits
    <3>5. Creating(m, v, t, f) BY <3>4, <3>2, Constants DEF Creating, Untouched
    <3> QED BY <2>1, <3>3, <3>5 DEF Opening
  <2>3. CASE f = "sized"
    <3>1. t = (<<>> \o Do("recover", 0)) \o Do("coalesce", 0) BY <1>1, <1>2, <1>7, <2>3
    <3>2. t = RecoverFrom(0)
      <4>1. Do("recover", 0) \in Seq(Ops) BY ScanIs, Constants
      <4>2. <<>> \o Do("recover", 0) = Do("recover", 0) BY <4>1
      <4> QED BY <3>1, <4>2 DEF RecoverFrom
    <3>3. t \in Flow BY <3>2, RecoverFromIs, Constants
    <3>4. Medium(m, v, t) BY ONLY <1>4, <1>6, <3>3, ScanKeeps
    <3>5. Typed(m) /\ Sound(m) BY ONLY <1>4, MediumCourse
    <3>6. 0 \in Walk(m) BY <3>5, TiledFacts DEF Typed, Sound
    <3>7. Recovered(m, 0)
      <4>1. Clumps(m) \subseteq Chunk BY <3>5, TiledFacts DEF Typed, Sound
      <4> QED BY <4>1, Constants DEF Recovered
    <3>8. Recovering(m, t, 0)
      <4>1. <<>> \in Seq(Persists) OBVIOUS
      <4>2. <<>> \o RecoverFrom(0) = RecoverFrom(0) BY RecoverFromIs, Constants
      <4> QED BY <3>2, <3>6, <3>7, <4>1, <4>2 DEF Recovering
    <3>9. Mending(m, t) BY <3>8, Constants DEF Mending
    <3> QED BY <2>1, <2>3, <1>5, <3>4, <3>9 DEF Opening
  <2> QED BY <1>1, <1>2, <2>2, <2>3 DEF Background
<1>9. Promised(m, j, a, fl, dr, FALSE)
  BY ONLY <1>4, PromisedNothing
<1>10. Course(m, v, t, j, a, fl, dr, r, f, df)
  <2>1. j.op = "init" BY <1>1, <1>7 DEF NoCall
  <2> QED BY <1>3, <1>8, <2>1 DEF Course, UserCalls
<1>11. Agreed(m, v, t, j, a, fl, dr, r, f, df)
  BY <1>3, <1>4, <1>8, <1>9, <1>10 DEF Agreed
<1>12. survivor' = v /\ durableFile' = df BY <1>1, <1>2 DEF survivor, durableFile
<1>13. Agreed(mem, survivor, todo, call, asked, filled, dropped, up, file, durableFile)'
  BY <1>1, <1>2, <1>7, <1>11, <1>12
<1> QED BY <1>1, <1>13 DEF IInv, Background, OneKindFails

LEMMA GoneInv ==
    ASSUME IInv, Gone, UNCHANGED media,
           (call = NoCall \/ "kill" \in failures)
    PROVE  IInv'
<1>1. /\ Background
      /\ Agreed(mem, survivor, todo, call, asked, filled, dropped, up, file, durableFile)
      /\ UNCHANGED <<file, mem, pfile, pm, failures>>
  BY DEF IInv, media, Gone
<1>2. PICK m, v, s, k, a, fl, dr, r, f, df :
        /\ m = mem /\ v = survivor /\ s = todo /\ k = call /\ a = asked /\ fl = filled
        /\ dr = dropped /\ r = up /\ f = file /\ df = durableFile
  OBVIOUS
<1>3. Agreed(m, v, s, k, a, fl, dr, r, f, df) BY <1>1, <1>2
<1>4. /\ Medium(m, v, s) /\ FileFits(m, v, f, df) /\ Course(m, v, s, k, a, fl, dr, r, f, df)
  BY <1>3 DEF Agreed
<1>5. Medium(m, v, <<>>) /\ f = df
  <2>1. CASE k = NoCall
    <3>1. s = <<>> /\ f = df
      <4>1. k.op = "none" BY <2>1 DEF NoCall
      <4> QED BY <4>1, <1>4 DEF Course, Between
    <3> QED BY <3>1, <1>4
  <2>2. CASE "kill" \in failures
    <3>1. "power" \notin failures BY <1>1, <2>2 DEF Background, OneKindFails
    <3>2. v = m /\ f = df BY <3>1, <1>2 DEF survivor, durableFile
    <3>3. Typed(m) /\ Sound(m) BY ONLY <1>4, MediumCourse
    <3>4. Medium(m, m, <<>>) BY ONLY <3>3, FlowEmpty, SyncKeeps
    <3> QED BY <3>2, <3>4
  <2> QED BY <1>2, <2>1, <2>2
<1>6. FileFits(m, v, f, f) BY <1>4, <1>5
<1>7. Agreed(m, v, <<>>, NoCall, NoReservation, {}, {}, FALSE, f, f)
  BY ONLY <1>5, <1>6, AgreedEnds
<1>8. survivor' = v /\ durableFile' = f BY <1>1, <1>2, <1>5 DEF survivor, durableFile
<1>9. Agreed(mem, survivor, todo, call, asked, filled, dropped, up, file, durableFile)'
  BY <1>1, <1>2, <1>7, <1>8 DEF Gone
<1> QED BY <1>1, <1>9 DEF IInv, Background, OneKindFails

LEMMA ExitInv == IInv /\ Exit => IInv'
BY GoneInv DEF Exit, Idle, ProcessEnds, Gone, NoReservation

LEMMA KillInv == IInv /\ Kill => IInv'
BY GoneInv DEF Kill, ProcessEnds, Gone, NoReservation

LEMMA FatalInv ==
    ASSUME NEW why
    PROVE  IInv /\ Idle /\ Fatal(why) => IInv'
BY GoneInv DEF Fatal, Idle, Gone, NoReservation

LEMMA PowerInv ==
    ASSUME IInv, PowerFailure
    PROVE  IInv'
<1>1. /\ Background /\ "power" \in failures
      /\ Agreed(mem, survivor, todo, call, asked, filled, dropped, up, file, durableFile)
      /\ UNCHANGED <<pfile, pm, failures>> /\ file' = pfile /\ mem' = pm
      /\ up' = FALSE /\ call' = NoCall /\ todo' = <<>>
      /\ asked' = NoReservation /\ filled' = {} /\ dropped' = {}
  BY DEF IInv, PowerFailure, ProcessEnds, NoReservation
<1>2. PICK m, v, s, k, a, fl, dr, r, f, df :
        /\ m = mem /\ v = survivor /\ s = todo /\ k = call /\ a = asked /\ fl = filled
        /\ dr = dropped /\ r = up /\ f = file /\ df = durableFile
  OBVIOUS
<1>3. Agreed(m, v, s, k, a, fl, dr, r, f, df) BY <1>1, <1>2
<1>4. Medium(m, v, s) /\ FileFits(m, v, f, df) BY <1>3 DEF Agreed
<1>5. Typed(v) /\ Sound(v) BY ONLY <1>4, MediumCourse
<1>6. Medium(v, v, <<>>) BY ONLY <1>5, FlowEmpty, SyncKeeps
<1>7. FileFits(v, v, df, df) BY <1>4 DEF FileFits
<1>8. Agreed(v, v, <<>>, NoCall, NoReservation, {}, {}, FALSE, df, df)
  BY ONLY <1>6, <1>7, AgreedEnds
<1>9. v = pm /\ df = pfile /\ survivor' = v /\ durableFile' = df
  BY <1>1, <1>2 DEF survivor, durableFile
<1>10. Agreed(mem, survivor, todo, call, asked, filled, dropped, up, file, durableFile)'
  BY <1>1, <1>2, <1>8, <1>9
<1> QED BY <1>1, <1>10 DEF IInv, Background, OneKindFails

-----------------------------------------------------------------------------
(* The program enters a call *)

LEMMA IdleFacts ==
    ASSUME IInv, Idle
    PROVE  /\ todo = <<>> /\ up = TRUE /\ call = NoCall /\ file = "sized" /\ durableFile = "sized"
           /\ Medium(mem, survivor, <<>>) /\ FileFits(mem, survivor, file, durableFile)
           /\ Typed(mem) /\ Sound(mem) /\ MediumOK(mem) /\ Tiled(mem)
           /\ Calm(mem) /\ Apart(mem, LastClump)
           /\ Promised(mem, NoCall, asked, filled, dropped, TRUE)
           /\ Background
<1>1. Background /\ up = TRUE /\ call = NoCall BY DEF IInv, Idle, Agreed
<1>2. /\ Medium(mem, survivor, todo) /\ FileFits(mem, survivor, file, durableFile)
      /\ Promised(mem, call, asked, filled, dropped, up)
      /\ Course(mem, survivor, todo, call, asked, filled, dropped, up, file, durableFile)
  BY DEF IInv, Agreed
<1>3. Between(mem, todo, call, up, file, durableFile)
  <2>1. call.op = "none" BY <1>1 DEF NoCall
  <2> QED BY <1>2, <2>1 DEF Course
<1>4. todo = <<>> /\ file = "sized" /\ durableFile = "sized" /\ Quiet(mem)
  BY <1>1, <1>3 DEF Between
<1>5. Typed(mem) /\ Sound(mem) BY <1>2 DEF Medium
<1> QED BY <1>1, <1>2, <1>4, <1>5 DEF Quiet, Typed, Sound

LEMMA PromisedEnter ==
    ASSUME NEW m, NEW a, NEW fl, NEW dr, Promised(m, NoCall, a, fl, dr, TRUE), NEW k
    PROVE  /\ Promised(m, k, a, fl, dr, TRUE)
           /\ \A d \in Cell : Dropping(k, d) => Promised(m, k, a, fl, dr \union {d}, TRUE)
           /\ \A c \in Chunk : a[c] # 0 => Reserved(m, c, a[c])
           /\ \A d \in dr : m[d] # NULL /\ d \in Named(m[m[d]])
<1>1. /\ \A c : ~Releasing(NoCall, c)
      /\ \A d : ~Dropping(NoCall, d)
      /\ NoCall.op # "reserve"
  BY DEF Releasing, Dropping, NoCall
<1>2. /\ \A c \in Chunk : a[c] # 0 => Reserved(m, c, a[c])
      /\ \A d \in dr : m[d] # NULL /\ d \in Named(m[m[d]])
  BY <1>1 DEF Promised
<1>3. Promised(m, k, a, fl, dr, TRUE) BY <1>1, <1>2 DEF Promised
<1>4. ASSUME NEW d \in Cell, Dropping(k, d)
      PROVE  Promised(m, k, a, fl, dr \union {d}, TRUE)
  <2>1. dr \subseteq Cell BY DEF Promised
  <2>2. dr \union {d} \subseteq Cell BY <2>1
  <2>3. \A e \in dr \union {d} : (m[e] # NULL /\ e \in Named(m[m[e]])) \/ Dropping(k, e)
    BY <1>2, <1>4
  <2> QED BY <1>3, <2>2, <2>3 DEF Promised
<1> QED BY <1>2, <1>3, <1>4

LEMMA AgreedEnter ==
    ASSUME NEW m, NEW v, Medium(m, v, <<>>), NEW f, FileFits(m, v, f, f), f = "sized",
           NEW k, NEW a, NEW fl, NEW dr, Promised(m, k, a, fl, dr, TRUE),
           k.op \in UserCalls, k.block \in Chunk, k.cells \subseteq Cell,
           NEW t \in Flow,
           k.op = "reserve" => InReserve(m, v, t, k, a),
           k.op = "onactive" => InOnActive(m, t, k, a),
           k.op = "onfree" => InOnFree(m, t, k),
           k.op = "activate" => InActivate(m, t, k, a, fl, dr),
           k.op = "free" => InFree(m, t, k, a),
           k.op = "discard" => InDiscard(m, t, k, a)
    PROVE  Agreed(m, v, t, k, a, fl, dr, TRUE, f, f)
<1>1. Pending(<<>>) = HDR BY DEF Pending
<1>2. <<>> \in Flow /\ Medium(m, v, t)
  <2>1. PICK e : e = <<>> OBVIOUS
  <2>2. Medium(m, v, e) /\ Pending(e) = HDR BY <1>1, <2>1
  <2>3. Medium(m, v, t) BY ONLY <2>2, t \in Flow, ScanKeeps
  <2> QED BY <2>3, FlowEmpty
<1>3. k.op \notin {"none", "init"} BY DEF UserCalls
<1>4. Course(m, v, t, k, a, fl, dr, TRUE, f, f) BY <1>3 DEF Course
<1> QED BY <1>2, <1>4 DEF Agreed

LEMMA EnterInv ==
    ASSUME IInv, Idle, NEW t \in Flow, NEW k, NEW er,
           call' = k, todo' = t, dropped' = er,
           UNCHANGED <<media, up, failures, asked, filled>>,
           Promised(mem, k, asked, filled, er, TRUE),
           k.op \in UserCalls, k.block \in Chunk, k.cells \subseteq Cell,
           k.op = "reserve" => InReserve(mem, survivor, t, k, asked),
           k.op = "onactive" => InOnActive(mem, t, k, asked),
           k.op = "onfree" => InOnFree(mem, t, k),
           k.op = "activate" => InActivate(mem, t, k, asked, filled, er),
           k.op = "free" => InFree(mem, t, k, asked),
           k.op = "discard" => InDiscard(mem, t, k, asked)
    PROVE  IInv'
<1>1. PICK m, v, a, fl, f : m = mem /\ v = survivor /\ a = asked /\ fl = filled /\ f = file
  OBVIOUS
<1>2. Medium(m, v, <<>>) /\ FileFits(m, v, f, f) /\ f = "sized"
  BY <1>1, IdleFacts
<1>3. /\ Promised(m, k, a, fl, er, TRUE)
      /\ k.op = "reserve" => InReserve(m, v, t, k, a)
      /\ k.op = "onactive" => InOnActive(m, t, k, a)
      /\ k.op = "onfree" => InOnFree(m, t, k)
      /\ k.op = "activate" => InActivate(m, t, k, a, fl, er)
      /\ k.op = "free" => InFree(m, t, k, a)
      /\ k.op = "discard" => InDiscard(m, t, k, a)
  BY <1>1
<1>4. k.op \in UserCalls /\ k.block \in Chunk /\ k.cells \subseteq Cell /\ t \in Flow OBVIOUS
<1>5. Agreed(m, v, t, k, a, fl, er, TRUE, f, f) BY ONLY <1>2, <1>3, <1>4, AgreedEnter
<1>6. survivor' = v /\ durableFile' = f /\ up' = TRUE
  BY <1>1, IdleFacts DEF survivor, durableFile, media
<1>7. Agreed(mem, survivor, todo, call, asked, filled, dropped, up, file, durableFile)'
  BY <1>1, <1>5, <1>6 DEF media
<1> QED BY <1>7, IdleFacts DEF IInv, Background, OneKindFails, media

LEMMA ReserveInv ==
    ASSUME IInv, NEW n \in Request, Reserve(n)
    PROVE  IInv'
<1>1. CASE mem[0].size = 0 /\ Fatal("no clumps found")
  BY <1>1, FatalInv DEF Reserve
<1>2. ASSUME NEW c \in Chunk, FirstFit(c, n), Enter("reserve", c, {}, n, ReserveSteps(c, n)),
             UNCHANGED program
      PROVE  IInv'
  <2>1. Idle BY DEF Reserve
  <2>2. /\ Typed(mem) /\ Sound(mem) /\ Calm(mem) /\ Apart(mem, LastClump)
        /\ Promised(mem, NoCall, asked, filled, dropped, TRUE)
    BY <2>1, IdleFacts
  <2>3. c \in Clumps(mem) /\ mem[c].state = "FREE" /\ n <= mem[c].size
    BY <1>2 DEF FirstFit
  <2>4. n \in Nat /\ 0 < n BY RequestIs
  <2> DEFINE k == [op |-> "reserve", block |-> c, cells |-> {}, n |-> n]
  <2>5. /\ ReserveSteps(c, n) \in Flow /\ Reserving(mem, ReserveSteps(c, n), c, n)
        /\ mem[c].size - n >= 2 => PersistOp(c + n) \in Range(ReserveSteps(c, n))
    BY <2>2, <2>3, <2>4, ReserveIs
  <2>6. PICK t, er, j : t = ReserveSteps(c, n) /\ er = dropped /\ j = k OBVIOUS
  <2>7. PICK m, a, fl : m = mem /\ a = asked /\ fl = filled OBVIOUS
  <2>8. Promised(m, NoCall, a, fl, er, TRUE) BY <2>2, <2>6, <2>7
  <2>9. Promised(m, j, a, fl, er, TRUE) /\ \A b \in Chunk : a[b] # 0 => Reserved(m, b, a[b])
    BY ONLY <2>8, PromisedEnter
  <2>10. asked[c] = 0
    BY <2>3, <2>7, <2>9 DEF Reserved
  <2>11. j.op = "reserve" /\ j.block = c /\ j.cells = {} /\ j.n = n BY <2>6
  <2>12. InReserve(mem, survivor, t, j, asked)
    <3>1. mem[c].size - n >= 2 => Owed(mem, survivor, t, c + n)
      BY <2>5, <2>6 DEF Owed
    <3> QED BY <2>2, <2>5, <2>6, <2>10, <2>11, <3>1 DEF InReserve
  <2>13. call' = j /\ todo' = t /\ dropped' = er /\ UNCHANGED <<media, up, failures, asked, filled>>
    BY <1>2, <2>6 DEF Enter, program
  <2>14. t \in Flow /\ Promised(mem, j, asked, filled, er, TRUE) BY <2>5, <2>6, <2>7, <2>9
  <2> HIDE DEF k
  <2> QED BY <2>1, <2>11, <2>12, <2>13, <2>14, EnterInv DEF UserCalls
<1> QED BY <1>1, <1>2 DEF Reserve

\* The reservations and the blocks, between calls.
LEMMA HoldingFacts ==
    ASSUME IInv, Idle
    PROVE  /\ \A c \in Chunk : asked[c] # 0 =>
                /\ Reserved(mem, c, asked[c]) /\ c \in Clumps(mem) /\ mem[c].state = "RESERVED"
                /\ Packed(mem[c]) /\ ListSets(mem, c, c, {NULL})
           /\ \A d \in dropped : mem[d] # NULL /\ d \in Named(mem[mem[d]])
           /\ \A d \in Cell : mem[d] # NULL =>
                /\ mem[d] \in Clumps(mem) /\ mem[d] \in Chunk /\ mem[mem[d]].state = "ACTIVE"
                /\ asked[mem[d]] = 0
                /\ Packed(mem[mem[d]]) /\ ListSets(mem, mem[d], NULL, {mem[d]})
           /\ filled \subseteq Chunk /\ \A c \in filled : asked[c] # 0
           /\ \A k : Promised(mem, k, asked, filled, dropped, TRUE)
           /\ \A k : \A d \in Cell : Dropping(k, d) =>
                Promised(mem, k, asked, filled, dropped \union {d}, TRUE)
           /\ \A c \in Chunk : DOMAIN asked = Chunk
<1>1. PICK m, a, fl, dr : m = mem /\ a = asked /\ fl = filled /\ dr = dropped OBVIOUS
<1>2. /\ Typed(m) /\ Sound(m) /\ MediumOK(m) /\ Tiled(m) /\ Calm(m)
      /\ Promised(m, NoCall, a, fl, dr, TRUE)
  BY <1>1, IdleFacts
<1>3. \A k : Promised(m, k, a, fl, dr, TRUE)
  BY ONLY <1>2, PromisedEnter
<1>4. \A k : \A d \in Cell : Dropping(k, d) => Promised(m, k, a, fl, dr \union {d}, TRUE)
  BY ONLY <1>2, PromisedEnter
<1>5. /\ \A c \in Chunk : a[c] # 0 => Reserved(m, c, a[c])
      /\ \A d \in dr : m[d] # NULL /\ d \in Named(m[m[d]])
  BY ONLY <1>2, PromisedEnter
<1>6. \A c \in Chunk : a[c] # 0 =>
        /\ Reserved(m, c, a[c]) /\ c \in Clumps(m) /\ m[c].state = "RESERVED"
        /\ Packed(m[c]) /\ ListSets(m, c, c, {NULL})
  BY <1>5 DEF Reserved
<1>7. ASSUME NEW d \in Cell, m[d] # NULL
      PROVE  /\ m[d] \in Clumps(m) /\ m[d] \in Chunk /\ m[m[d]].state = "ACTIVE" /\ a[m[d]] = 0
             /\ Packed(m[m[d]]) /\ ListSets(m, m[d], NULL, {m[d]})
  <2>1. PICK c : c = m[d] OBVIOUS
  <2>2. c \in Clumps(m) /\ m[c].state \in {"ACTIVATING", "ACTIVE", "FREEING"}
    BY <1>2, <1>7, <2>1 DEF Sound, PointersOK
  <2>3. c \in Chunk BY <1>2, <2>2, TiledFacts
  <2>4. m[c].state = "ACTIVE" BY <1>2, <2>2 DEF Calm, InTransit
  <2>5. Packed(m[c]) /\ ListSets(m, c, NULL, {c})
    BY <1>2, <2>2, <2>4 DEF Sound, ClumpOK, ActiveOK
  <2>6. a[c] = 0 BY <1>6, <2>3, <2>4
  <2> QED BY <2>1, <2>2, <2>3, <2>4, <2>5, <2>6
<1>8. /\ fl \subseteq Chunk /\ (\A c \in fl : a[c] # 0) /\ DOMAIN a = Chunk
  BY <1>2 DEF Promised
<1> QED BY <1>1, <1>3, <1>4, <1>5, <1>6, <1>7, <1>8

LEMMA OnActiveInv ==
    ASSUME IInv, NEW c \in Chunk, NEW d \in Cell, OnActive(c, d)
    PROVE  IInv'
<1>1. Idle /\ asked[c] # 0 /\ mem[d] = NULL /\ \A b \in Chunk : asked[b] # 0 => d \notin Named(mem[b])
  BY DEF OnActive
<1>2. CASE Fatal("exceeded onactive limit") BY <1>1, <1>2, FatalInv
<1>3. ASSUME NEW i \in Slot, FreeSlot(c, i), Enter("onactive", c, {d}, 0, AddOn(c, i, d, c)),
             UNCHANGED program
      PROVE  IInv'
  <2>1. /\ Typed(mem) /\ Sound(mem) /\ Calm(mem) /\ Apart(mem, LastClump)
    BY <1>1, IdleFacts
  <2>2. FreeEntry(mem[c], i) BY <1>3 DEF FreeSlot, FreeEntry
  <2> DEFINE s0 == PutPtr(c, i, c) \o (Persist(c) \o (PutOff(c, i, d) \o Persist(c)))
  <2>3. s0 \in Flow /\ s0 = AddOn(c, i, d, c) BY AddingIs
  <2>4. Adding(mem, s0, c, d, c) BY <2>2 DEF Adding
  <2>5. PICK t, j, er : t = s0 /\ j = [op |-> "onactive", block |-> c, cells |-> {d}, n |-> 0]
                        /\ er = dropped
    OBVIOUS
  <2>6. j.op = "onactive" /\ j.block = c /\ j.cells = {d} BY <2>5
  <2>7. InOnActive(mem, t, j, asked)
    BY <1>1, <2>1, <2>4, <2>5, <2>6 DEF InOnActive
  <2>8. call' = j /\ todo' = t /\ dropped' = er /\ UNCHANGED <<media, up, failures, asked, filled>>
    BY <1>3, <2>3, <2>5 DEF Enter, program
  <2>9. t \in Flow /\ Promised(mem, j, asked, filled, er, TRUE)
    BY <1>1, <2>3, <2>5, HoldingFacts
  <2> QED BY <1>1, <2>6, <2>7, <2>8, <2>9, EnterInv DEF UserCalls
<1> QED BY <1>2, <1>3 DEF OnActive

LEMMA OnFreeInv ==
    ASSUME IInv, NEW d \in Cell, OnFree(d)
    PROVE  IInv'
<1>1. PICK c : c = mem[d] OBVIOUS
<1>2. Idle /\ c # NULL /\ d \notin dropped BY <1>1 DEF OnFree
<1>3. c \in Chunk /\ c \in Clumps(mem) /\ mem[c].state = "ACTIVE"
  BY <1>1, <1>2, HoldingFacts
<1>4. CASE Fatal("exceeded onfree limit") BY <1>2, <1>4, FatalInv
<1>5. ASSUME NEW i \in Slot, FreeSlot(c, i), Enter("onfree", c, {d}, 0, AddOn(c, i, d, NULL)),
             dropped' = dropped \union {d}, UNCHANGED <<asked, filled>>
      PROVE  IInv'
  <2>1. /\ Typed(mem) /\ Sound(mem) /\ Calm(mem) /\ Apart(mem, LastClump)
    BY <1>2, IdleFacts
  <2>2. FreeEntry(mem[c], i) BY <1>5 DEF FreeSlot, FreeEntry
  <2> DEFINE s0 == PutPtr(c, i, NULL) \o (Persist(c) \o (PutOff(c, i, d) \o Persist(c)))
  <2>3. s0 \in Flow /\ s0 = AddOn(c, i, d, NULL) BY <1>3, AddingIs
  <2>4. Adding(mem, s0, c, d, NULL) BY <2>2 DEF Adding
  <2>5. PICK t, j, er : t = s0 /\ j = [op |-> "onfree", block |-> c, cells |-> {d}, n |-> 0]
                        /\ er = dropped \union {d}
    OBVIOUS
  <2>6. j.op = "onfree" /\ j.block = c /\ j.cells = {d} BY <2>5
  <2>7. InOnFree(mem, t, j)
    BY <1>1, <2>1, <2>4, <2>5, <2>6 DEF InOnFree
  <2>8. call' = j /\ todo' = t /\ dropped' = er /\ UNCHANGED <<media, up, failures, asked, filled>>
    BY <1>5, <2>3, <2>5 DEF Enter
  <2>9. t \in Flow /\ Promised(mem, j, asked, filled, er, TRUE)
    <3>1. Dropping(j, d) BY <2>6 DEF Dropping
    <3>2. \A k : \A e \in Cell : Dropping(k, e) =>
                Promised(mem, k, asked, filled, dropped \union {e}, TRUE)
      BY <1>2, HoldingFacts
    <3> QED BY <2>3, <2>5, <3>1, <3>2
  <2> QED BY <1>2, <1>3, <2>6, <2>7, <2>8, <2>9, EnterInv DEF UserCalls
<1>6. \/ \E i \in Slot :
            /\ FreeSlot(c, i)
            /\ Enter("onfree", c, {d}, 0, AddOn(c, i, d, NULL))
            /\ dropped' = dropped \union {d}
            /\ UNCHANGED <<asked, filled>>
      \/ Fatal("exceeded onfree limit")
  BY <1>1 DEF OnFree, FreeSlot
<1> QED BY <1>4, <1>5, <1>6

LEMMA ActivateInv ==
    ASSUME IInv, NEW c \in Chunk, Activate(c)
    PROVE  IInv'
<1>1. /\ Idle /\ c \in filled /\ OnList(mem[c]) # {} /\ UNCHANGED program
      /\ Enter("activate", c, Named(mem[c]), 0, ActivateSteps(c))
  BY DEF Activate
<1>2. /\ Typed(mem) /\ Sound(mem) /\ MediumOK(mem) /\ Calm(mem) /\ Apart(mem, LastClump)
  BY <1>1, IdleFacts
<1>3. asked[c] # 0 /\ Reserved(mem, c, asked[c]) /\ c \in Clumps(mem) /\ mem[c].state = "RESERVED"
      /\ ListSets(mem, c, c, {NULL})
  BY <1>1, HoldingFacts
<1>4. Ready(mem, c, "ACTIVATING") BY <1>1, <1>3 DEF Ready
<1>5. ActivateSteps(c) \in Flow /\ Starting(mem, ActivateSteps(c), c, "ACTIVATING", <<>>)
  BY <1>2, <1>4, ActivateIs
<1>6. Named(mem[c]) \subseteq Cell /\ \A d \in Named(mem[c]) : mem[d] = NULL
  <2>1. PICK m : m = mem OBVIOUS
  <2>2. MediumOK(m) /\ c \in Chunk /\ ListSets(m, c, c, {NULL}) BY <1>2, <1>3, <2>1
  <2>3. Named(m[c]) \subseteq Cell /\ \A d \in Named(m[c]) : \E i \in OnList(m[c]) : m[c].off[i] = d
    BY ONLY <2>2, NamedCells
  <2> QED BY <2>1, <2>2, <2>3 DEF ListSets
<1>7. Named(mem[c]) \cap dropped = {} BY <1>1, <1>6, HoldingFacts
<1>8. PICK t, j, er : t = ActivateSteps(c) /\ er = dropped
                      /\ j = [op |-> "activate", block |-> c, cells |-> Named(mem[c]), n |-> 0]
  OBVIOUS
<1>9. j.op = "activate" /\ j.block = c /\ j.cells = Named(mem[c]) BY <1>8
<1>10. InActivate(mem, t, j, asked, filled, er)
  <2>1. Activating(mem, t, j, asked) BY <1>1, <1>2, <1>3, <1>5, <1>8, <1>9 DEF Activating
  <2> QED BY <1>1, <1>2, <1>3, <1>7, <1>8, <1>9, <2>1 DEF InActivate
<1>11. call' = j /\ todo' = t /\ dropped' = er /\ UNCHANGED <<media, up, failures, asked, filled>>
  BY <1>1, <1>8 DEF Enter, program
<1>12. t \in Flow /\ Promised(mem, j, asked, filled, er, TRUE)
  BY <1>1, <1>5, <1>8, HoldingFacts
<1> QED BY <1>1, <1>6, <1>9, <1>10, <1>11, <1>12, EnterInv DEF UserCalls

LEMMA FreeInv ==
    ASSUME IInv, NEW c \in Chunk, Free(c)
    PROVE  IInv'
<1> DEFINE holders == {d \in Cell : mem[d] = c}
<1>1. Idle /\ UNCHANGED program BY DEF Free
<1>2. /\ Typed(mem) /\ Sound(mem) /\ MediumOK(mem) /\ Calm(mem) /\ Apart(mem, LastClump)
  BY <1>1, IdleFacts
<1>3. ASSUME asked[c] # 0, Enter("discard", c, {}, 0, FreeSteps(c))
      PROVE  IInv'
  <2>1. c \in Clumps(mem) /\ mem[c].state = "RESERVED" BY <1>1, <1>3, HoldingFacts
  <2>2. FreeSteps(c) \in Flow /\ Clearing(mem, FreeSteps(c), c, Coalesce)
    BY <1>2, <2>1, DiscardIs DEF Coalesce
  <2>3. PICK t, j, er : t = FreeSteps(c) /\ er = dropped
                        /\ j = [op |-> "discard", block |-> c, cells |-> {}, n |-> 0]
    OBVIOUS
  <2>4. j.op = "discard" /\ j.block = c /\ j.cells = {} BY <2>3
  <2>5. InDiscard(mem, t, j, asked) BY <1>2, <1>3, <2>1, <2>2, <2>3, <2>4 DEF InDiscard
  <2>6. call' = j /\ todo' = t /\ dropped' = er /\ UNCHANGED <<media, up, failures, asked, filled>>
    BY <1>1, <1>3, <2>3 DEF Enter, program
  <2>7. t \in Flow /\ Promised(mem, j, asked, filled, er, TRUE)
    BY <1>1, <2>2, <2>3, HoldingFacts
  <2> QED BY <1>1, <2>4, <2>5, <2>6, <2>7, EnterInv DEF UserCalls
<1>4. ASSUME holders # {}, holders \subseteq dropped, Enter("free", c, holders, 0, FreeSteps(c))
      PROVE  IInv'
  <2>1. c \in Clumps(mem) /\ mem[c].state = "ACTIVE" /\ asked[c] = 0
    <3>1. PICK d \in Cell : mem[d] = c BY <1>4
    <3>2. c # NULL BY Constants
    <3> QED BY <1>1, <3>1, <3>2, HoldingFacts
  <2>2. \A d \in Cell : mem[d] = c => d \in Named(mem[c])
    BY <1>1, <1>4, HoldingFacts
  <2>3. Ready(mem, c, "FREEING") BY <2>1, <2>2 DEF Ready
  <2>4. FreeSteps(c) \in Flow /\ Starting(mem, FreeSteps(c), c, "FREEING", Coalesce)
    BY <1>2, <2>3, FreeIs DEF Coalesce
  <2>5. PICK t, j, er : t = FreeSteps(c) /\ er = dropped
                        /\ j = [op |-> "free", block |-> c, cells |-> holders, n |-> 0]
    OBVIOUS
  <2>6. j.op = "free" /\ j.block = c /\ j.cells = holders BY <2>5
  <2>7. InFree(mem, t, j, asked) BY <1>2, <2>1, <2>3, <2>4, <2>5, <2>6 DEF InFree
  <2>8. call' = j /\ todo' = t /\ dropped' = er /\ UNCHANGED <<media, up, failures, asked, filled>>
    BY <1>1, <1>4, <2>5 DEF Enter, program
  <2>9. t \in Flow /\ Promised(mem, j, asked, filled, er, TRUE)
    BY <1>1, <2>4, <2>5, HoldingFacts
  <2>10. j.cells \subseteq Cell BY <2>6
  <2> HIDE DEF holders
  <2> QED BY <1>1, <2>6, <2>7, <2>8, <2>9, <2>10, EnterInv DEF UserCalls
<1> QED BY <1>3, <1>4 DEF Free

-----------------------------------------------------------------------------
(* The program writes to its block *)

LEMMA AgreedIdle ==
    ASSUME NEW m, NEW v, Medium(m, v, <<>>), NEW a, NEW fl, NEW dr, Promised(m, NoCall, a, fl, dr, TRUE),
           Quiet(m)
    PROVE  Agreed(m, v, <<>>, NoCall, a, fl, dr, TRUE, "sized", "sized")
<1>1. FileFits(m, v, "sized", "sized") BY DEF FileFits
<1>2. Course(m, v, <<>>, NoCall, a, fl, dr, TRUE, "sized", "sized")
  BY DEF Course, Between, NoCall, UserCalls
<1> QED BY <1>1, <1>2 DEF Agreed

LEMMA FilledIs ==
    ASSUME NEW m, Typed(m), Sound(m), Quiet(m), NEW v, Medium(m, v, <<>>),
           NEW a, NEW fl, NEW dr, Promised(m, NoCall, a, fl, dr, TRUE),
           NEW c \in Chunk, NEW n, n = a[c], n # 0, NEW w, w = FilledWith(m, c, n)
    PROVE  /\ Typed(w) /\ Sound(w) /\ Quiet(w) /\ Medium(w, v, <<>>) /\ Medium(w, w, <<>>)
           /\ Promised(w, NoCall, a, fl \union {c}, dr, TRUE)
<1>1. n \in Request /\ n \in Nat /\ n \in Chunk
  BY RequestIs DEF Promised
<1>2. Reserved(m, c, n) BY PromisedEnter
<1>3. MediumOK(m) /\ Fits(m) /\ Tiled(m) BY DEF Typed, Sound
<1>4. c \in Clumps(m) /\ n <= m[c].size /\ m[c].size \in Nat /\ c + m[c].size <= LastClump
  BY <1>2, <1>3, TiledFacts, Constants DEF Reserved, Goes
<1>5. DOMAIN w = DOMAIN m /\ DOMAIN m = Chunk \union Cell \union {HDR}
  BY <1>3 DEF MediumOK, FilledWith
<1>6. (c + 1)..(c + n - 1) \subseteq Chunk BY <1>1, <1>4, Constants, SMTT(30)
<1>7. \A x \in DOMAIN m : w[x] = IF x \in (c + 1)..(c + n - 1) THEN Data(n) ELSE m[x]
  BY DEF FilledWith
<1>8. Data(n) \in Line /\ Data(n).state = "DATA"
  <2>1. Blank \in Line BY BlankLine
  <2>2. n \in 0..LastClump BY <1>1, Constants
  <2> QED BY <2>1, <2>2 DEF Data, Line
<1>9. MediumOK(w)
  <2>1. \A x \in Cell \union {HDR} : w[x] = m[x] BY <1>5, <1>6, <1>7, Constants
  <2>2. \A x \in Chunk : w[x] \in Line BY <1>3, <1>5, <1>7, <1>8 DEF MediumOK
  <2>3. \A x \in Cell : w[x] \in Chunk \union {NULL} BY <1>3, <2>1 DEF MediumOK
  <2>4. w[HDR] \in {NULL, "*PMEMALLOC_POOL"} BY <1>3, <2>1 DEF MediumOK
  <2> QED BY <1>5, <2>2, <2>3, <2>4 DEF MediumOK
<1>10. Fits(w) BY <1>3, <1>5, <1>7, <1>8 DEF Fits
<1>11. \A x \in Walk(m) \union Cell : w[x] = m[x]
  <2>1. ASSUME NEW x \in Walk(m) PROVE x \notin (c + 1)..(c + n - 1) /\ x \in DOMAIN m
    <3>1. c < x => c + m[c].size <= x BY <1>3, <1>4, TiledFacts
    <3>2. x \in Chunk BY <1>3, TiledFacts
    <3> QED BY <1>1, <1>4, <1>5, <3>1, <3>2, Constants
  <2> QED BY <2>1, <1>5, <1>6, <1>7, Constants
<1>12. Walk(w) = Walk(m) /\ Clumps(w) = Clumps(m) /\ InTransit(w) = InTransit(m) /\ Sound(w)
  BY <1>3, <1>9, <1>11, SoundSame
<1>13. Typed(w) BY <1>9, <1>10 DEF Typed
<1>14. Quiet(w)
  <2>1. \A b \in Clumps(m) : w[b].size = m[b].size /\ (w[b].state = "FREE" <=> m[b].state = "FREE")
    BY <1>11 DEF Clumps
  <2>2. Apart(m, LastClump) => Apart(w, LastClump) BY <1>3, <1>12, <2>1, ApartLike
  <2> QED BY <1>12, <2>2 DEF Quiet, Calm
<1>15. Medium(w, v, <<>>)
  <2>1. Typed(v) /\ Sound(v) /\ Dirty(m, v, HDR)
    BY DEF Medium, Pending
  <2>2. \A x \in Walk(m) \union Cell : v[x] = m[x] BY <2>1, DirtyNowhere
  <2>3. \A x \in Walk(w) \union Cell : v[x] = w[x] BY <2>2, <1>11, <1>12
  <2>4. Dirty(w, v, HDR) BY <2>1, <2>3, <1>12, <1>13, DurableIs
  <2> QED BY <1>12, <1>13, <2>1, <2>4, FlowEmpty DEF Medium, Pending
<1>16. Medium(w, w, <<>>) BY <1>12, <1>13, FlowEmpty, SyncKeeps
<1>17. Promised(w, NoCall, a, fl, dr, TRUE) BY <1>11, <1>12, PromisedSame
<1>18. Promised(w, NoCall, a, fl \union {c}, dr, TRUE) BY <1>17 DEF Promised
<1> QED BY <1>12, <1>13, <1>14, <1>15, <1>16, <1>18

LEMMA FillInv ==
    ASSUME IInv, NEW c \in Chunk, Fill(c)
    PROVE  IInv'
<1>1. /\ Idle /\ asked[c] # 0 /\ filled' = filled \union {c}
      /\ mem' = [x \in DOMAIN mem |->
                    IF x \in (c + 1)..(c + asked[c] - 1) THEN Data(asked[c]) ELSE mem[x]]
      /\ UNCHANGED <<file, pfile, pm, up, failures, call, todo, asked, dropped>>
  BY DEF Fill
<1>2. PICK m, v, a, fl, dr, n, w :
        /\ m = mem /\ v = survivor /\ a = asked /\ fl = filled /\ dr = dropped
        /\ n = asked[c] /\ w = mem'
  OBVIOUS
<1>3. /\ Typed(m) /\ Sound(m) /\ Quiet(m) /\ Medium(m, v, <<>>)
      /\ Promised(m, NoCall, a, fl, dr, TRUE)
  BY <1>1, <1>2, IdleFacts DEF Quiet
<1>4. n = a[c] /\ n # 0 /\ c \in Chunk /\ w = FilledWith(m, c, n)
  BY <1>1, <1>2 DEF FilledWith
<1>5. /\ Typed(w) /\ Sound(w) /\ Quiet(w) /\ Medium(w, v, <<>>) /\ Medium(w, w, <<>>)
      /\ Promised(w, NoCall, a, fl \union {c}, dr, TRUE)
  BY ONLY <1>3, <1>4, FilledIs
<1>6. PICK u, fl2 : u = survivor' /\ fl2 = fl \union {c} OBVIOUS
<1>7. u = v \/ u = w BY <1>1, <1>2, <1>6 DEF survivor
<1>8. Medium(w, u, <<>>) /\ Promised(w, NoCall, a, fl2, dr, TRUE) /\ Quiet(w)
  BY <1>5, <1>6, <1>7
<1>9. Agreed(w, u, <<>>, NoCall, a, fl2, dr, TRUE, "sized", "sized") BY ONLY <1>8, AgreedIdle
<1>10. /\ todo = <<>> /\ up = TRUE /\ call = NoCall /\ file = "sized" /\ durableFile = "sized"
       /\ Background
  BY <1>1, IdleFacts
<1>11. durableFile' = "sized" BY <1>1, <1>10 DEF durableFile
<1>12. Agreed(mem, survivor, todo, call, asked, filled, dropped, up, file, durableFile)'
  BY <1>1, <1>2, <1>6, <1>9, <1>10, <1>11
<1> QED BY <1>1, <1>10, <1>12 DEF IInv, Background, OneKindFails

-----------------------------------------------------------------------------
(* The call returns *)

\* The program's reservations are now b, and its dropped cells e.
LEMMA PromisedReturn ==
    ASSUME NEW m, NEW k, NEW a, NEW fl, NEW dr, Promised(m, k, a, fl, dr, TRUE),
           NEW b \in [Chunk -> {0} \union Request], NEW e, e \subseteq dr,
           \A c \in Chunk : b[c] # 0 =>
                \/ a[c] = b[c] /\ ~Releasing(k, c)
                \/ Reserved(m, c, b[c]) /\ Named(m[c]) = {},
           \A d \in e : Dropping(k, d) => m[d] # NULL /\ d \in Named(m[m[d]]),
           \A c \in Clumps(m) : m[c].state = "RESERVED" => b[c] # 0
    PROVE  Promised(m, NoCall, b, StillHeld(fl, b), e, TRUE)
<1>1. /\ fl \subseteq Chunk /\ dr \subseteq Cell
      /\ \A c \in Chunk : a[c] # 0 => Releasing(k, c) \/ Reserved(m, c, a[c])
      /\ \A x, c \in Chunk :
            x # c /\ a[x] # 0 /\ a[c] # 0 /\ Waiting(m, x) /\ Waiting(m, c)
            => Named(m[x]) \cap Named(m[c]) = {}
      /\ \A d \in dr : (m[d] # NULL /\ d \in Named(m[m[d]])) \/ Dropping(k, d)
  BY DEF Promised
<1>2. \A c \in Chunk : b[c] # 0 => Reserved(m, c, b[c]) BY <1>1
<1>3. ASSUME NEW x \in Chunk, NEW c \in Chunk, x # c, b[x] # 0, b[c] # 0,
             Waiting(m, x), Waiting(m, c)
      PROVE  Named(m[x]) \cap Named(m[c]) = {}
  <2>1. CASE Named(m[x]) = {} \/ Named(m[c]) = {} BY <2>1
  <2>2. CASE a[x] = b[x] /\ a[c] = b[c] BY <1>1, <1>3, <2>2
  <2> QED BY <1>3, <2>1, <2>2
<1>4. \A d \in e : m[d] # NULL /\ d \in Named(m[m[d]]) BY <1>1
<1> QED BY <1>1, <1>2, <1>3, <1>4 DEF Promised, StillHeld

\* What is left of a call that has no step left.
LEMMA CoalescingOver ==
    ASSUME NEW m, Typed(m), Sound(m), Coalescing(m, <<>>)
    PROVE  Apart(m, LastClump)
<1>1. PICK s : s = <<>> OBVIOUS
<1>2. ASSUME NEW c \in Chunk, Scanning(m, s, c) PROVE FALSE
  <2>1. s # <<>> BY ONLY <1>2, Typed(m), Sound(m), ScanningStep
  <2> QED BY <1>1, <2>1
<1>3. ASSUME NEW c \in Chunk, NEW e \in Chunk, Uniting(m, s, c, e) PROVE FALSE
  <2>1. s # <<>> BY ONLY <1>3, Typed(m), Sound(m), UnitingStep
  <2> QED BY <1>1, <2>1
<1>4. Coalescing(m, s) BY <1>1
<1>5. Settled(m, s) BY <1>2, <1>3, <1>4 DEF Coalescing
<1> QED BY <1>5 DEF Settled

LEMMA FinishingOn ==
    ASSUME NEW m, Typed(m), Sound(m), NEW c, NEW rest \in Flow
    PROVE  ~Finishing(m, <<>>, c, rest)
<1>1. PICK s : s = <<>> OBVIOUS
<1>2. ASSUME Finishing(m, s, c, rest) PROVE FALSE
  <2>1. s # <<>> BY ONLY <1>2, Typed(m), Sound(m), rest \in Flow, FinishingHead
  <2> QED BY <1>1, <2>1
<1> QED BY <1>1, <1>2

LEMMA StartingOn ==
    ASSUME NEW m, Typed(m), Sound(m), NEW c, NEW st, Ready(m, c, st), NEW rest \in Flow
    PROVE  ~Starting(m, <<>>, c, st, rest)
<1>1. PICK s : s = <<>> OBVIOUS
<1>2. ASSUME Starting(m, s, c, st, rest) PROVE FALSE
  <2>1. s # <<>> BY ONLY <1>2, Typed(m), Sound(m), Ready(m, c, st), rest \in Flow, StartingHead
  <2> QED BY <1>1, <2>1
<1> QED BY <1>1, <1>2

LEMMA MendingOver ==
    ASSUME NEW m, Typed(m), Sound(m), Mending(m, <<>>)
    PROVE  Quiet(m) /\ \A c \in Clumps(m) : m[c].state # "RESERVED"
<1>1. MediumOK(m) /\ Tiled(m) BY DEF Typed, Sound
<1>2. ASSUME NEW c \in Chunk, Recovering(m, <<>>, c) PROVE FALSE
  <2>1. PICK q \in Seq(Persists) : <<>> = q \o RecoverFrom(c) BY <1>2 DEF Recovering
  <2>2. RecoverFrom(c) \in Seq(Ops) /\ RecoverFrom(c) # <<>> BY RecoverFromIs
  <2>3. q \o RecoverFrom(c) # <<>> BY <2>2, HeadOf
  <2> QED BY <2>1, <2>3
<1>3. ASSUME NEW c \in Chunk, RecoveringAt(m, <<>>, c) PROVE FALSE
  <2>1. c \in Clumps(m) BY <1>3 DEF RecoveringAt
  <2>2. c + m[c].size \in Chunk BY <1>1, <2>1, TiledFacts
  <2>3. RecoverFrom(c + m[c].size) \in Flow BY <2>2, RecoverFromIs
  <2> QED BY <1>3, <2>3, FinishingOn DEF RecoveringAt
<1>4. Coalescing(m, <<>>) /\ Recovered(m, LastClump)
  BY <1>2, <1>3 DEF Mending
<1>5. Apart(m, LastClump) BY <1>4, CoalescingOver
<1>6. Calm(m) /\ \A c \in Clumps(m) : m[c].state \in {"FREE", "ACTIVE"}
  BY <1>1, <1>4, RecoveredCalm
<1> QED BY <1>5, <1>6 DEF Quiet

LEMMA ReturnedReserve ==
    ASSUME NEW m, Typed(m), Sound(m), NEW v, NEW k, k.op = "reserve", k.block \in Chunk,
           NEW a, NEW fl, NEW dr, Promised(m, k, a, fl, dr, TRUE), InReserve(m, v, <<>>, k, a)
    PROVE  Quiet(m) /\ Promised(m, NoCall, NowAsked(k, a), NowFilled(k, a, fl), NowDropped(k, dr), TRUE)
<1>1. PICK c, n : c = k.block /\ n = k.n OBVIOUS
<1>2. /\ Quiet(m) /\ n \in Request /\ a[c] = 0 /\ Reserving(m, <<>>, c, n) /\ c \in Chunk
  BY <1>1 DEF InReserve, Quiet
<1>3. n \in Nat /\ 0 < n /\ n # 0 BY <1>2, RequestIs
<1>4. MediumOK(m) /\ Tiled(m) BY DEF Typed, Sound
<1>5. c \in Clumps(m) /\ n <= m[c].size BY <1>2 DEF Reserving
<1>6. m[c].state = "RESERVED" /\ EmptyList(m[c])
  <2>1. ASSUME m[c].size - n >= 2,
               <<>> = Do("blank", c + n) \o Placing(m, c, n) \/ <<>> = Placing(m, c, n)
        PROVE  FALSE
    BY <1>3, <1>4, <1>5, <2>1, PlacingIs
  <2>2. ASSUME NEW q \in Seq(Resets(c) \union Persists), <<>> = q \o Taking(m, c, n)
        PROVE  FALSE
    <3>1. Taking(m, c, n) \in Seq(Ops) /\ Taking(m, c, n) # <<>>
      BY <1>3, <1>4, <1>5, PlacingIs DEF Flow
    <3>2. q \o Taking(m, c, n) # <<>> BY <3>1, HeadOf
    <3> QED BY <2>2, <3>2
  <2> QED BY <1>2, <2>1, <2>2 DEF Reserving
<1>7. OnList(m[c]) = {} /\ Named(m[c]) = {}
  <2>1. \A i \in Slot : m[c].off[i] = NULL BY <1>6 DEF EmptyList
  <2>2. OnList(m[c]) \subseteq Slot /\ \A i \in OnList(m[c]) : m[c].off[i] # NULL BY OnListIs
  <2> QED BY <2>1, <2>2 DEF Named
<1>8. Reserved(m, c, n) /\ Named(m[c]) = {}
  BY <1>5, <1>6, <1>7 DEF Reserved, Packed, EmptyList, ListSets
<1>9. PICK b : b = [a EXCEPT ![c] = n] OBVIOUS
<1>10. a \in [Chunk -> {0} \union Request] BY DEF Promised
<1>11. b \in [Chunk -> {0} \union Request] /\ b[c] = n /\ \A x \in Chunk \ {c} : b[x] = a[x]
  BY <1>2, <1>9, <1>10
<1>12. \A x : ~Releasing(k, x) /\ ~Dropping(k, x) BY DEF Releasing, Dropping
<1>13. \A x \in Chunk : b[x] # 0 =>
                \/ a[x] = b[x] /\ ~Releasing(k, x)
                \/ Reserved(m, x, b[x]) /\ Named(m[x]) = {}
  BY <1>8, <1>11, <1>12
<1>14. \A x \in Clumps(m) : m[x].state = "RESERVED" => b[x] # 0
  <2>1. \A x \in Clumps(m) : x \in Chunk BY <1>4, TiledFacts
  <2> QED BY <1>1, <1>3, <1>11, <2>1 DEF Promised
<1>15. Promised(m, NoCall, b, StillHeld(fl, b), dr, TRUE)
  <2>1. PICK e : e = dr OBVIOUS
  <2>2. e \subseteq dr /\ \A d \in e : Dropping(k, d) => m[d] # NULL /\ d \in Named(m[m[d]])
    BY <1>12, <2>1
  <2>3. Promised(m, k, a, fl, dr, TRUE) OBVIOUS
  <2>4. Promised(m, NoCall, b, StillHeld(fl, b), e, TRUE)
    BY ONLY <1>11, <1>13, <1>14, <2>2, <2>3, PromisedReturn
  <2> QED BY <2>1, <2>4
<1> QED BY <1>1, <1>2, <1>9, <1>15 DEF NowAsked, NowDropped, NowFilled, StillHeld

\* The reservations stay, those that are released excepted.
LEMMA ReturnedPlain ==
    ASSUME NEW m, Typed(m), Sound(m), Quiet(m), NEW k, k.op \in UserCalls \ {"reserve"},
           k.block \in Chunk,
           NEW a, NEW fl, NEW dr, Promised(m, k, a, fl, dr, TRUE),
           k.op \in {"activate", "discard"} /\ k.block \in Clumps(m) => m[k.block].state # "RESERVED",
           k.op = "onfree" => \A d \in k.cells : m[d] # NULL /\ d \in Named(m[m[d]])
    PROVE  Promised(m, NoCall, NowAsked(k, a), NowFilled(k, a, fl), NowDropped(k, dr), TRUE)
<1>1. PICK c : c = k.block OBVIOUS
<1>2. PICK b, e : b = NowAsked(k, a) /\ e = NowDropped(k, dr) OBVIOUS
<1>3. a \in [Chunk -> {0} \union Request] /\ c \in Chunk BY <1>1 DEF Promised
<1>4. b = IF k.op \in {"activate", "discard"} THEN [a EXCEPT ![c] = 0] ELSE a
  BY <1>1, <1>2 DEF NowAsked
<1>5. b \in [Chunk -> {0} \union Request] /\ \A x \in Chunk : b[x] # 0 => a[x] = b[x] /\ ~Releasing(k, x)
  <2>1. CASE k.op \in {"activate", "discard"}
    <3>1. b = [a EXCEPT ![c] = 0] BY <1>4, <2>1
    <3>2. \A x \in Chunk : b[x] = IF x = c THEN 0 ELSE a[x] BY <1>3, <3>1
    <3> QED BY <1>1, <1>3, <3>1, <3>2 DEF Releasing
  <2>2. CASE k.op \notin {"activate", "discard"}
    BY <1>3, <1>4, <2>2 DEF Releasing
  <2> QED BY <2>1, <2>2
<1>6. e \subseteq dr BY <1>2 DEF NowDropped
<1>7. \A d \in e : Dropping(k, d) => m[d] # NULL /\ d \in Named(m[m[d]])
  BY <1>2 DEF NowDropped, Dropping
<1>8. ASSUME NEW x \in Clumps(m), m[x].state = "RESERVED" PROVE b[x] # 0
  <2>1. x \in Chunk BY TiledFacts DEF Typed, Sound
  <2>2. a[x] # 0 BY <1>8 DEF Promised
  <2>3. CASE k.op \in {"activate", "discard"}
    <3>1. x # c BY <1>1, <1>8, <2>3
    <3> QED BY <1>3, <1>4, <2>1, <2>2, <2>3, <3>1
  <2>4. CASE k.op \notin {"activate", "discard"} BY <1>4, <2>2, <2>4
  <2> QED BY <2>3, <2>4
<1>9. Promised(m, NoCall, b, StillHeld(fl, b), e, TRUE)
  <2>1. Promised(m, k, a, fl, dr, TRUE) OBVIOUS
  <2> QED BY ONLY <1>5, <1>6, <1>7, <1>8, <2>1, PromisedReturn
<1> QED BY <1>2, <1>9 DEF NowFilled, StillHeld

\* Without a step left pmemalloc_activate and pmemalloc_free have had their effect.
LEMMA ReturnedEffect ==
    ASSUME NEW m, Typed(m), Sound(m), NEW k, k.block \in Chunk, NEW a, NEW fl, NEW dr
    PROVE  /\ InActivate(m, <<>>, k, a, fl, dr) =>
                Quiet(m) /\ k.block \in Clumps(m) /\ m[k.block].state = "ACTIVE"
           /\ InFree(m, <<>>, k, a) => Quiet(m) /\ \A d \in Cell : m[d] # k.block
<1>1. PICK c : c = k.block OBVIOUS
<1>2. ASSUME InActivate(m, <<>>, k, a, fl, dr)
      PROVE  Quiet(m) /\ c \in Clumps(m) /\ m[c].state = "ACTIVE"
  <2>1. Apart(m, LastClump) /\ Activating(m, <<>>, k, a) BY <1>2 DEF InActivate
  <2>2. ASSUME Reserved(m, c, a[c]), OnList(m[c]) # {}, Starting(m, <<>>, c, "ACTIVATING", <<>>)
        PROVE  FALSE
    <3>1. Ready(m, c, "ACTIVATING") BY <2>2 DEF Ready, Reserved
    <3> QED BY <2>2, <3>1, FlowEmpty, StartingOn
  <2>3. ~Finishing(m, <<>>, c, <<>>) BY FlowEmpty, FinishingOn
  <2> QED BY <1>1, <2>1, <2>2, <2>3 DEF Activating, Quiet
<1>3. ASSUME InFree(m, <<>>, k, a)
      PROVE  Quiet(m) /\ \A d \in Cell : m[d] # c
  <2>1. ASSUME Ready(m, c, "FREEING"), Starting(m, <<>>, c, "FREEING", Coalesce) PROVE FALSE
    BY <2>1, CoalesceIs, StartingOn
  <2>2. ~Finishing(m, <<>>, c, Coalesce) BY CoalesceIs, FinishingOn
  <2>3. Calm(m) /\ Coalescing(m, <<>>) /\ \A d \in Cell : m[d] # c
    BY <1>1, <1>3, <2>1, <2>2 DEF InFree
  <2> QED BY <2>3, CoalescingOver DEF Quiet
<1> QED BY <1>1, <1>2, <1>3

\* A call that has no step left is over.
LEMMA ReturnedUser ==
    ASSUME NEW m, NEW v, Typed(m), Sound(m), NEW k, NEW a, NEW fl, NEW dr, NEW f, NEW df,
           Promised(m, k, a, fl, dr, TRUE), Course(m, v, <<>>, k, a, fl, dr, TRUE, f, df),
           k.op \in UserCalls
    PROVE  Quiet(m) /\ Promised(m, NoCall, NowAsked(k, a), NowFilled(k, a, fl), NowDropped(k, dr), TRUE)
<1>1. PICK c : c = k.block OBVIOUS
<1>2. c \in Chunk /\ k.block \in Chunk /\ k.cells \subseteq Cell /\ MediumOK(m) /\ Tiled(m)
  BY <1>1 DEF Course, Typed, Sound
<1>3. CASE k.op = "reserve"
  <2>1. InReserve(m, v, <<>>, k, a) BY <1>3 DEF Course
  <2> QED BY <1>2, <1>3, <2>1, ReturnedReserve
<1>4. CASE k.op = "onactive"
  <2>1. Quiet(m) BY <1>4 DEF Course, InOnActive, Quiet
  <2>2. k.op \in UserCalls \ {"reserve"} BY <1>4 DEF UserCalls
  <2> QED BY <1>2, <1>4, <2>1, <2>2, ReturnedPlain
<1>5. CASE k.op = "onfree"
  <2>1. Quiet(m) /\ \E d \in Cell : k.cells = {d} /\ m[d] = c /\ Adding(m, <<>>, c, d, NULL)
    BY <1>1, <1>5 DEF Course, InOnFree, Quiet
  <2>2. PICK d \in Cell : k.cells = {d} /\ m[d] = c /\ Adding(m, <<>>, c, d, NULL) BY <2>1
  <2>3. d \in Named(m[c])
    <3>1. ASSUME NEW i \in Slot,
                 \/ <<>> = PutPtr(c, i, NULL) \o (Persist(c) \o (PutOff(c, i, d) \o Persist(c)))
                 \/ \E q \in Seq(Persists) : <<>> = q \o (PutOff(c, i, d) \o Persist(c))
          PROVE  FALSE
      <4>1. /\ PutPtr(c, i, NULL) \o (Persist(c) \o (PutOff(c, i, d) \o Persist(c))) # <<>>
            /\ PutOff(c, i, d) \o Persist(c) \in Seq(Ops)
            /\ PutOff(c, i, d) \o Persist(c) # <<>>
        BY <1>2, AddingIs
      <4>2. \A q \in Seq(Persists) : q \o (PutOff(c, i, d) \o Persist(c)) # <<>>
        BY <4>1, HeadOf
      <4> QED BY <3>1, <4>1, <4>2
    <3> QED BY <2>2, <3>1 DEF Adding
  <2>4. c # NULL BY <1>2, Constants
  <2>5. k.op \in UserCalls \ {"reserve"} /\ k.op \notin {"activate", "discard"}
    BY <1>5 DEF UserCalls
  <2>6. \A e \in k.cells : m[e] # NULL /\ e \in Named(m[m[e]]) BY <2>2, <2>3, <2>4
  <2> QED BY <1>2, <2>1, <2>5, <2>6, ReturnedPlain
<1>6. CASE k.op = "activate"
  <2>1. InActivate(m, <<>>, k, a, fl, dr) BY <1>6 DEF Course
  <2>2. Quiet(m) /\ c \in Clumps(m) /\ m[c].state = "ACTIVE"
    BY <1>1, <1>2, <2>1, ReturnedEffect
  <2>3. k.op \in UserCalls \ {"reserve"} BY <1>6 DEF UserCalls
  <2> QED BY <1>1, <1>2, <1>6, <2>2, <2>3, ReturnedPlain
<1>7. CASE k.op = "free"
  <2>1. InFree(m, <<>>, k, a) BY <1>7 DEF Course
  <2>2. Quiet(m) BY <1>2, <2>1, ReturnedEffect
  <2>3. k.op \in UserCalls \ {"reserve"} BY <1>7 DEF UserCalls
  <2> QED BY <1>2, <1>7, <2>2, <2>3, ReturnedPlain
<1>8. CASE k.op = "discard"
  <2>1. InDiscard(m, <<>>, k, a) BY <1>8 DEF Course
  <2>2. ~Clearing(m, <<>>, c, Coalesce)
    <3>1. ~Finishing(m, <<>>, c, Coalesce) BY CoalesceIs, FinishingOn
    <3> QED BY <3>1 DEF Finishing
  <2>3. Calm(m) /\ Coalescing(m, <<>>) /\ (c \in Clumps(m) => m[c].state # "RESERVED")
    BY <1>1, <2>1, <2>2 DEF InDiscard
  <2>4. Quiet(m) BY <2>3, CoalescingOver DEF Quiet
  <2>5. k.op \in UserCalls \ {"reserve"} BY <1>8 DEF UserCalls
  <2> QED BY <1>1, <1>2, <1>8, <2>3, <2>4, <2>5, ReturnedPlain
<1> QED BY <1>3, <1>4, <1>5, <1>6, <1>7, <1>8 DEF UserCalls

LEMMA ReturnedInit ==
    ASSUME NEW m, NEW v, Typed(m), Sound(m), NEW k, NEW a, NEW fl, NEW dr, NEW f, NEW df,
           Promised(m, k, a, fl, dr, FALSE), Opening(m, v, <<>>, k, f, df)
    PROVE  /\ Quiet(m) /\ f = "sized" /\ df = "sized"
           /\ Promised(m, NoCall, NowAsked(k, a), NowFilled(k, a, fl), NowDropped(k, dr), TRUE)
<1>1. ~Creating(m, v, <<>>, f)
  <2>1. PICK s : s = <<>> OBVIOUS
  <2>2. ASSUME Creating(m, v, s, f) PROVE FALSE
    <3>1. s # <<>> BY ONLY <2>2, CreatingHead
    <3> QED BY <2>1, <3>1
  <2> QED BY <2>1, <2>2
<1>2. f = "sized" /\ df = "sized" /\ Mending(m, <<>>) BY <1>1 DEF Opening
<1>3. Quiet(m) /\ \A c \in Clumps(m) : m[c].state # "RESERVED" BY <1>2, MendingOver
<1>4. k.op = "init" BY DEF Opening, NoCall
<1>5. NowAsked(k, a) = a /\ NowDropped(k, dr) = dr BY <1>4 DEF NowAsked, NowDropped
<1>6. NowFilled(k, a, fl) = fl
  <2>1. \A c \in fl : a[c] # 0 BY DEF Promised
  <2> QED BY <1>5, <2>1 DEF NowFilled
<1>7. Promised(m, NoCall, a, fl, dr, TRUE)
  BY <1>3 DEF Promised
<1> QED BY <1>2, <1>3, <1>5, <1>6, <1>7

LEMMA ReturnInv ==
    ASSUME IInv, Return
    PROVE  IInv'
<1>1. /\ Background /\ call # NoCall /\ todo = <<>>
      /\ Agreed(mem, survivor, todo, call, asked, filled, dropped, up, file, durableFile)
      /\ call' = NoCall /\ todo' = <<>> /\ up' = TRUE
      /\ UNCHANGED <<file, mem, pfile, pm, failures>>
  BY DEF IInv, Return, media
<1>2. PICK m, v, s, k, a, fl, dr, r, f, df :
        /\ m = mem /\ v = survivor /\ s = todo /\ k = call /\ a = asked /\ fl = filled
        /\ dr = dropped /\ r = up /\ f = file /\ df = durableFile
  OBVIOUS
<1>3. PICK b, g, e : b = asked' /\ g = filled' /\ e = dropped' OBVIOUS
<1>4. b = NowAsked(k, a) /\ g = NowFilled(k, a, fl) /\ e = NowDropped(k, dr)
  <2>1. b = NowAsked(k, a) BY <1>2, <1>3 DEF Return, NowAsked
  <2>2. g = {c \in fl : b[c] # 0} BY <1>2, <1>3 DEF Return
  <2>3. e = NowDropped(k, dr) BY <1>2, <1>3 DEF Return, NowDropped
  <2> QED BY <2>1, <2>2, <2>3 DEF NowFilled
<1>5. Agreed(m, v, <<>>, k, a, fl, dr, r, f, df) /\ k # NoCall BY <1>1, <1>2
<1>6. /\ r \in BOOLEAN /\ Medium(m, v, <<>>)
      /\ Promised(m, k, a, fl, dr, r) /\ Course(m, v, <<>>, k, a, fl, dr, r, f, df)
  BY <1>5 DEF Agreed
<1>7. Typed(m) /\ Sound(m) BY <1>6 DEF Medium
<1>8. /\ Quiet(m) /\ f = "sized" /\ df = "sized"
      /\ Promised(m, NoCall, NowAsked(k, a), NowFilled(k, a, fl), NowDropped(k, dr), TRUE)
  <2>1. k.op \in {"init"} \union UserCalls BY <1>5, <1>6 DEF Course, Between
  <2>2. CASE k.op = "init"
    <3>1. r = FALSE /\ Opening(m, v, <<>>, k, f, df) BY <1>6, <2>2 DEF Course
    <3>2. Promised(m, k, a, fl, dr, FALSE) BY <1>6, <3>1
    <3> QED BY <1>7, <3>1, <3>2, ReturnedInit
  <2>3. CASE k.op \in UserCalls
    <3>1. r = TRUE /\ f = "sized" /\ df = "sized" BY <1>6, <2>3 DEF Course
    <3>2. Promised(m, k, a, fl, dr, TRUE) /\ Course(m, v, <<>>, k, a, fl, dr, TRUE, f, df)
      BY <1>6, <3>1
    <3> QED BY <1>7, <2>3, <3>1, <3>2, ReturnedUser
  <2> QED BY <2>1, <2>2, <2>3
<1>9. Promised(m, NoCall, b, g, e, TRUE) BY <1>4, <1>8
<1>10. Agreed(m, v, <<>>, NoCall, b, g, e, TRUE, "sized", "sized")
  BY ONLY <1>6, <1>8, <1>9, AgreedIdle
<1>11. survivor' = v /\ durableFile' = df BY <1>1, <1>2 DEF survivor, durableFile
<1>12. Agreed(mem, survivor, todo, call, asked, filled, dropped, up, file, durableFile)'
  BY <1>1, <1>2, <1>3, <1>8, <1>10, <1>11
<1> QED BY <1>1, <1>12 DEF IInv, Background, OneKindFails

-----------------------------------------------------------------------------
(* The invariant holds throughout *)

\* The invariant holds before the first process makes the pool's file.
THEOREM InvInit == Init /\ OneKindFails => IInv
BY InitInv

\* Every step keeps it: the calls and returns of the program, each store, each
\* flush and each scan of the library, a write-back that nobody asked for, the
\* end of the process and the loss of power.
THEOREM InvNext == IInv /\ [Next]_vars => IInv'
<1> SUFFICES ASSUME IInv, [Next]_vars PROVE IInv'
  OBVIOUS
<1>1. CASE InitPool BY <1>1, OpenInv
<1>2. ASSUME NEW n \in Request, Reserve(n) PROVE IInv' BY <1>2, ReserveInv
<1>3. ASSUME NEW c \in Chunk, Fill(c) PROVE IInv' BY <1>3, FillInv
<1>4. ASSUME NEW c \in Chunk, Activate(c) PROVE IInv' BY <1>4, ActivateInv
<1>5. ASSUME NEW c \in Chunk, Free(c) PROVE IInv' BY <1>5, FreeInv
<1>6. ASSUME NEW c \in Chunk, NEW d \in Cell, OnActive(c, d) PROVE IInv' BY <1>6, OnActiveInv
<1>7. ASSUME NEW d \in Cell, OnFree(d) PROVE IInv' BY <1>7, OnFreeInv
<1>8. CASE Return BY <1>8, ReturnInv
<1>9. CASE Step BY <1>9, StoreInv, FlushInv, ScanInv, FileInv DEF Step
<1>10. CASE Evict BY <1>10, EvictInv
<1>11. CASE Exit \/ Kill \/ PowerFailure BY <1>11, ExitInv, KillInv, PowerInv
<1>12. CASE UNCHANGED vars
  <2>1. /\ UNCHANGED <<file, mem, pfile, pm, failures, up, call, todo, asked, filled, dropped>>
    BY <1>12 DEF vars, media, program
  <2>2. survivor' = survivor /\ durableFile' = durableFile
    BY <2>1 DEF survivor, durableFile
  <2>3. Background' BY <2>1 DEF IInv, Background, OneKindFails
  <2>4. Agreed(mem, survivor, todo, call, asked, filled, dropped, up, file, durableFile)'
    BY <2>1, <2>2 DEF IInv
  <2> QED BY <2>3, <2>4 DEF IInv
<1> QED
  BY <1>1, <1>2, <1>3, <1>4, <1>5, <1>6, <1>7, <1>8, <1>9, <1>10, <1>11, <1>12 DEF Next

\* So it holds throughout, for every pool, every set of requests and every
\* behaviour in which processes are killed or the power fails, but not both.
THEOREM Invariance == Spec /\ OneKindFails => []IInv
<1>1. Init /\ OneKindFails => IInv BY InvInit
<1>2. IInv /\ [Next]_vars => IInv' BY InvNext
<1> QED BY <1>1, <1>2, PTL DEF Spec

LEMMA InvTypeOK == IInv => TypeOK
<1> SUFFICES ASSUME IInv PROVE TypeOK
  OBVIOUS
<1>1. /\ Background /\ up \in BOOLEAN
      /\ Medium(mem, survivor, todo)
      /\ Promised(mem, call, asked, filled, dropped, up)
      /\ Course(mem, survivor, todo, call, asked, filled, dropped, up, file, durableFile)
  BY DEF IInv, Agreed
<1>2. MediumOK(mem) BY <1>1 DEF Medium, Typed
<1>3. asked \in [Chunk -> {0} \union Request] /\ filled \subseteq Chunk /\ dropped \subseteq Cell
  BY <1>1 DEF Promised
<1>4. call.block \in Chunk \union {NULL} /\ call.cells \subseteq Cell
  <2>1. CASE call.op = "none" BY <1>1, <2>1 DEF Course, Between, NoCall
  <2>2. CASE call.op = "init" BY <1>1, <2>2 DEF Course, Opening, NoCall
  <2>3. CASE call.op \in UserCalls BY <1>1, <2>3 DEF Course
  <2> QED BY <1>1, <2>1, <2>2, <2>3 DEF Course
<1> QED BY <1>1, <1>2, <1>3, <1>4 DEF TypeOK, Background

\* A sound pool is covered by its clumps.
LEMMA SoundTiles ==
    ASSUME NEW m, Typed(m), Sound(m), m[0].size # 0
    PROVE  /\ LastClump \in Walk(m) /\ m[LastClump].size = 0
           /\ \A c \in Clumps(m) : m[c].state \in States
<1>1. MediumOK(m) /\ Tiled(m) BY DEF Typed, Sound
<1>2. LastClump \in Walk(m) BY <1>1, WalkEnds
<1>3. m[LastClump].size = 0 BY <1>1, <1>2, TiledFacts
<1> QED BY <1>1, <1>2, <1>3, TiledFacts

LEMMA InvTiled == IInv => PoolTiled
<1> SUFFICES ASSUME IInv PROVE PoolTiled
  OBVIOUS
<1>1. PICK m, v, s : m = mem /\ v = survivor /\ s = todo OBVIOUS
<1>2. Medium(m, v, s) BY <1>1 DEF IInv, Agreed
<1>3. Typed(m) /\ Typed(v) /\ Sound(m) /\ Sound(v) BY <1>2, MediumCourse
<1>4. \A x \in {m, v} : x[0].size # 0 =>
        /\ LastClump \in Walk(x) /\ x[LastClump].size = 0
        /\ \A c \in Clumps(x) : x[c].state \in States
  BY <1>3, SoundTiles
<1> QED BY <1>1, <1>4 DEF PoolTiled

LEMMA LastEntry ==
    ASSUME NEW S, S \subseteq Slot, S # {}
    PROVE  \E i \in S : \A j \in S : j <= i
<1> DEFINE T == {PMEM_NUM_ON - i : i \in S}
<1>1. T \in SUBSET Nat /\ T # {}
  <2>1. \A i \in S : i \in 1..PMEM_NUM_ON BY Constants
  <2>2. PMEM_NUM_ON \in Nat BY Constants
  <2>3. \A i \in S : PMEM_NUM_ON - i \in Nat BY <2>1, <2>2
  <2> QED BY <2>3
<1>2. PICK n \in T : \A y \in T : n <= y BY <1>1, LeastElement
<1>3. PICK i \in S : n = PMEM_NUM_ON - i BY <1>2
<1>4. \A j \in S : j <= i
  <2> TAKE j \in S
  <2>1. n <= PMEM_NUM_ON - j BY <1>2
  <2> QED BY <1>3, <2>1, Constants
<1> QED BY <1>4

\* The pointers after recovery.
LEMMA CellsAre ==
    ASSUME NEW m, Typed(m), Sound(m), NEW d \in Cell
    PROVE  /\ \A c \in InTransit(m) : d \in Named(m[c]) => Cells(m)[d] = Target(m, c)
           /\ (\A c \in InTransit(m) : d \notin Named(m[c])) => Cells(m)[d] = m[d]
<1> DEFINE inTransit == {c \in Clumps(m) : m[c].state \in {"ACTIVATING", "FREEING"}}
           last(l, e) == CHOOSE i \in OnList(l) :
                            l.off[i] = e /\ \A j \in OnList(l) : l.off[j] = e => j <= i
<1>1. inTransit = InTransit(m) BY DEF InTransit
<1>2. Cells(m)[d] =
        IF \E c \in inTransit : d \in Named(m[c])
        THEN LET l == m[CHOOSE c \in inTransit : d \in Named(m[c])]
             IN  l.ptr[last(l, d)]
        ELSE m[d]
  BY DEF Cells
<1> HIDE DEF inTransit
<1>3. ASSUME NEW c \in InTransit(m), d \in Named(m[c])
      PROVE  Cells(m)[d] = Target(m, c)
  <2>1. (CHOOSE x \in inTransit : d \in Named(m[x])) = c
    <3>1. \A x \in inTransit : x = c BY <1>1, <1>3 DEF Sound
    <3>2. \E x \in inTransit : d \in Named(m[x]) BY <1>1, <1>3
    <3> QED BY <3>1, <3>2
  <2>2. Cells(m)[d] = m[c].ptr[last(m[c], d)]
    BY <1>1, <1>2, <1>3, <2>1
  <2>3. last(m[c], d) \in OnList(m[c])
    <3> DEFINE S == {i \in OnList(m[c]) : m[c].off[i] = d}
    <3>1. S # {} BY <1>3 DEF Named
    <3>2. S \subseteq Slot BY OnListIs
    <3>3. \E i \in S : \A j \in S : j <= i BY <3>1, <3>2, LastEntry
    <3>4. \E i \in OnList(m[c]) : m[c].off[i] = d /\ \A j \in OnList(m[c]) : m[c].off[j] = d => j <= i
      BY <3>3
    <3> QED BY <3>4
  <2>4. ListSets(m, c, Target(m, c), {NULL, c})
    <3>1. c \in Clumps(m) /\ ClumpOK(m, c) BY DEF InTransit, Sound
    <3>2. CASE m[c].state = "ACTIVATING" BY <3>1, <3>2 DEF ClumpOK, ActivatingOK, Target
    <3>3. CASE m[c].state = "FREEING" BY <3>1, <3>3 DEF ClumpOK, FreeingOK, Target
    <3> QED BY <3>2, <3>3 DEF InTransit
  <2> HIDE DEF last
  <2> QED BY <2>2, <2>3, <2>4 DEF ListSets
<1> QED BY <1>1, <1>2, <1>3

\* What a failure leaves leaks nothing and points nowhere.
LEMMA SoundLeaks ==
    ASSUME NEW m, Typed(m), Sound(m)
    PROVE  InUse(m) = {Cells(m)[d] : d \in Cell} \ {NULL}
<1>0. NULL \notin Clumps(m) /\ \A c \in InTransit(m) : c \in Clumps(m) /\ m[c].state \in {"ACTIVATING", "FREEING"}
  <2>1. Clumps(m) \subseteq Chunk BY TiledFacts DEF Typed, Sound
  <2> QED BY <2>1, Constants DEF InTransit
<1>1. ASSUME NEW c \in InUse(m)
      PROVE  c # NULL /\ \E d \in Cell : Cells(m)[d] = c
  <2>1. c \in Clumps(m) /\ m[c].state \in {"ACTIVATING", "ACTIVE"} BY DEF InUse
  <2>2. ClumpOK(m, c) BY <2>1 DEF Sound
  <2>3. ASSUME NEW d \in Cell, m[d] = c, \A b \in InTransit(m) : d \in Named(m[b]) => b = c /\ FALSE
        PROVE  Cells(m)[d] = c
    BY <2>3, CellsAre
  <2>4. CASE m[c].state = "ACTIVATING"
    <3>1. PICK d \in Cell : m[d] = c \/ d \in Named(m[c]) BY <2>2, <2>4 DEF ClumpOK, ActivatingOK
    <3>2. c \in InTransit(m) BY <2>1, <2>4 DEF InTransit
    <3>3. CASE d \in Named(m[c])
      <4>1. Cells(m)[d] = c BY <3>2, <3>3, <2>4, CellsAre DEF Target
      <4> QED BY <4>1, <2>1, <1>0
    <3>4. CASE d \notin Named(m[c]) /\ m[d] = c
      <4>1. \A b \in InTransit(m) : b = c BY <3>2 DEF Sound
      <4>2. Cells(m)[d] = c BY <4>1, <3>4, CellsAre
      <4> QED BY <4>2, <2>1, <1>0
    <3> QED BY <3>1, <3>3, <3>4
  <2>5. CASE m[c].state = "ACTIVE"
    <3>1. PICK d \in Cell : m[d] = c BY <2>2, <2>5 DEF ClumpOK, ActiveOK
    <3>2. ASSUME NEW b \in InTransit(m), d \in Named(m[b]) PROVE FALSE
      <4>1. b \in Clumps(m) /\ m[b].state \in {"ACTIVATING", "FREEING"} /\ ClumpOK(m, b)
        BY <1>0 DEF Sound
      <4>2. ListSets(m, b, b, {NULL, b}) \/ ListSets(m, b, NULL, {NULL, b})
        BY <4>1 DEF ClumpOK, ActivatingOK, FreeingOK
      <4>3. m[d] \in {NULL, b} BY <3>2, <4>2 DEF ListSets, Named
      <4> QED BY <3>1, <4>1, <4>3, <2>1, <2>5, <1>0
    <3>3. Cells(m)[d] = c BY <3>1, <3>2, CellsAre
    <3> QED BY <3>3, <2>1, <1>0
  <2> QED BY <2>1, <2>4, <2>5
<1>2. ASSUME NEW d \in Cell, Cells(m)[d] # NULL
      PROVE  Cells(m)[d] \in InUse(m)
  <2>1. ASSUME NEW c \in InTransit(m), d \in Named(m[c])
        PROVE  Cells(m)[d] \in InUse(m)
    <3>1. Cells(m)[d] = Target(m, c) BY <2>1, CellsAre
    <3> QED BY <1>0, <1>2, <3>1 DEF Target, InUse
  <2>2. ASSUME \A c \in InTransit(m) : d \notin Named(m[c])
        PROVE  Cells(m)[d] \in InUse(m)
    <3>1. PICK c : c = m[d] OBVIOUS
    <3>2. Cells(m)[d] = c BY <2>2, <3>1, CellsAre
    <3>3. /\ c \in Clumps(m) /\ m[c].state \in {"ACTIVATING", "ACTIVE", "FREEING"}
          /\ m[c].state = "FREEING" => d \in Named(m[c])
      BY <1>2, <3>1, <3>2 DEF Sound, PointersOK
    <3>4. m[c].state # "FREEING" BY <2>2, <3>3 DEF InTransit
    <3> QED BY <3>2, <3>3, <3>4 DEF InUse
  <2> QED BY <2>1, <2>2
<1> QED BY <1>1, <1>2

LEMMA InvNoLeak == IInv => NoLeak
<1> SUFFICES ASSUME IInv PROVE NoLeak
  OBVIOUS
<1>1. PICK m, v, s : m = mem /\ v = survivor /\ s = todo OBVIOUS
<1>2. Medium(m, v, s) BY <1>1 DEF IInv, Agreed
<1>3. Typed(v) /\ Sound(v) BY <1>2, MediumCourse
<1>4. InUse(v) = {Cells(v)[d] : d \in Cell} \ {NULL} BY <1>3, SoundLeaks
<1> QED BY <1>1, <1>4 DEF NoLeak

\* Free clumps that are apart are coalesced.
LEMMA ApartRuns ==
    ASSUME NEW m, Typed(m), Sound(m), Apart(m, LastClump), NEW c \in Clumps(m), m[c].state = "FREE"
    PROVE  RunEnd(m, c) = c + m[c].size
<1>1. MediumOK(m) /\ Fits(m) /\ Tiled(m) BY DEF Typed, Sound
<1>2. c \in Chunk /\ c # LastClump /\ c < LastClump /\ c + m[c].size \in Chunk /\ m[c].size # 0
  <2>1. c \in Chunk /\ c # LastClump /\ c + m[c].size \in Chunk /\ m[c].size # 0
    BY <1>1, TiledFacts
  <2> QED BY <2>1, Constants
<1>3. ~FreeLine(m[c + m[c].size]) BY <1>2 DEF Apart
<1>4. FreeAt(m, c) /\ ~FreeAt(m, c + m[c].size)
  BY <1>2, <1>3 DEF FreeAt, FreeLine
<1> QED BY <1>1, <1>2, <1>4, RunEndIs

LEMMA InvSettle == IInv => CallsSettle
<1> SUFFICES ASSUME IInv PROVE CallsSettle
  OBVIOUS
<1>1. ReservationsKept
  <2> SUFFICES ASSUME up, call = NoCall
               PROVE  /\ {c \in Clumps(mem) : mem[c].state = "RESERVED"} = {c \in Chunk : asked[c] # 0}
                      /\ \A c \in Chunk : asked[c] # 0 => asked[c] <= mem[c].size
    BY DEF ReservationsKept
  <2>1. Idle BY DEF Idle
  <2>2. \A c \in Chunk : asked[c] # 0 =>
            Reserved(mem, c, asked[c]) /\ c \in Clumps(mem) /\ mem[c].state = "RESERVED"
    BY <2>1, HoldingFacts
  <2>3. \A c \in Clumps(mem) : mem[c].state = "RESERVED" => asked[c] # 0
    <3>1. Promised(mem, NoCall, asked, filled, dropped, TRUE) BY <2>1, IdleFacts
    <3>2. NoCall.op # "reserve" BY DEF NoCall
    <3> QED BY <3>1, <3>2 DEF Promised
  <2>4. Clumps(mem) \subseteq Chunk
    <3>1. PICK m : m = mem OBVIOUS
    <3>2. MediumOK(m) /\ Tiled(m) BY <2>1, <3>1, IdleFacts
    <3> QED BY <3>1, <3>2, TiledFacts
  <2> QED BY <2>2, <2>3, <2>4 DEF Reserved
<1>2. ASSUME up, todo = <<>>
      PROVE  /\ \A c \in Clumps(mem) :
                    /\ mem[c].state \notin {"ACTIVATING", "FREEING"}
                    /\ mem[c].state = "FREE" => FreeRunEnd(c) = c + mem[c].size
                    /\ survivor[c] = mem[c]
             /\ \A d \in Cell : survivor[d] = mem[d]
  <2>1. PICK m, v, s, k, a, fl, dr, r, f, df :
          /\ m = mem /\ v = survivor /\ s = todo /\ k = call /\ a = asked /\ fl = filled
          /\ dr = dropped /\ r = up /\ f = file /\ df = durableFile
    OBVIOUS
  <2>2. Agreed(m, v, <<>>, k, a, fl, dr, TRUE, f, df)
    <3>1. up \in BOOLEAN BY DEF IInv, Agreed
    <3> QED BY <1>2, <2>1, <3>1 DEF IInv
  <2>3. /\ Medium(m, v, <<>>) /\ Promised(m, k, a, fl, dr, TRUE)
        /\ Course(m, v, <<>>, k, a, fl, dr, TRUE, f, df)
    BY <2>2 DEF Agreed
  <2>4. Typed(m) /\ Sound(m) /\ Typed(v) /\ Sound(v) /\ Dirty(m, v, HDR)
    BY <2>3 DEF Medium, Pending
  <2>5. Quiet(m)
    <3>1. k.op \in {"none"} \union UserCalls BY <2>3 DEF Course
    <3>2. CASE k.op = "none" BY <3>2, <2>3 DEF Course, Between
    <3>3. CASE k.op \in UserCalls BY ONLY <3>3, <2>3, <2>4, ReturnedUser
    <3> QED BY <3>1, <3>2, <3>3
  <2>6. \A x \in Walk(m) \union Cell : v[x] = m[x] BY <2>4, DirtyNowhere
  <2>7. \A c \in Clumps(m) : m[c].state \notin {"ACTIVATING", "FREEING"} /\ v[c] = m[c]
    BY <2>5, <2>6 DEF Quiet, Calm, InTransit, Clumps
  <2>8. \A c \in Clumps(m) : m[c].state = "FREE" => RunEnd(m, c) = c + m[c].size
    BY <2>4, <2>5, ApartRuns DEF Quiet
  <2>9. \A c : FreeRunEnd(c) = RunEnd(m, c) BY <2>1 DEF FreeRunEnd, RunEnd, FreeAt
  <2> QED BY <2>1, <2>6, <2>7, <2>8, <2>9
<1> QED BY <1>1, <1>2 DEF CallsSettle

-----------------------------------------------------------------------------
(* The pointers after recovery, across a step *)

LEMMA CellsSame ==
    ASSUME NEW m, Typed(m), Sound(m), NEW w, Typed(w), Sound(w),
           \A d \in Cell : Cells(w)[d] = Cells(m)[d]
    PROVE  Cells(w) = Cells(m)
  BY DEF Cells

LEMMA CalmCells ==
    ASSUME NEW m, Typed(m), Sound(m), Calm(m)
    PROVE  \A d \in Cell : Cells(m)[d] = m[d]
  BY CellsAre DEF Calm

LEMMA CalmSame ==
    ASSUME NEW m, Typed(m), Sound(m), Calm(m), NEW w, Typed(w), Sound(w), Calm(w), SameCells(m, w)
    PROVE  Cells(w) = Cells(m)
<1>1. \A d \in Cell : Cells(m)[d] = m[d] /\ Cells(w)[d] = w[d]
  BY CalmCells
<1>2. \A d \in Cell : Cells(w)[d] = Cells(m)[d]
  BY <1>1 DEF SameCells
<1> QED BY <1>2, CellsSame

\* A store elsewhere leaves the cells.
LEMMA EffectCells ==
    ASSUME NEW m, Typed(m), NEW o \in Ops, o.do # "cell" \/ o.at = HDR
    PROVE  SameCells(m, Effect(m, o))
<1>1. CASE o.do \in Stores
  <2>1. o.at \in Chunk \union {HDR}
    BY <1>1 DEF Ops, Persists, SizeOps, OffOps, PtrOps, CellOps, ScanOps, BlankOps, FileOps, Magic,
                CellOp, Stores
  <2>2. \A a \in DOMAIN m \ {o.at} : Effect(m, o)[a] = m[a]
    BY EffectTyped
  <2>3. DOMAIN m = Chunk \union Cell \union {HDR}
    BY DEF Typed, MediumOK
  <2> QED BY <2>1, <2>2, <2>3, Constants DEF SameCells
<1>2. CASE o.do \notin Stores
  BY <1>2 DEF Effect, SameCells
<1> QED BY <1>1, <1>2

\* The way out of ACTIVATING, FREEING and RESERVED does what recovery would do.
LEMMA FinishingCells ==
    ASSUME NEW m, Typed(m), Sound(m), NEW c, NEW rest \in Flow, NEW s, s \in Seq(Ops),
           Finishing(m, s, c, rest), NEW w, w = Effect(m, Head(s))
    PROVE  Cells(w) = Cells(m)
<1>1. /\ c \in Clumps(m) /\ c \in Chunk /\ m[c].state \in {"RESERVED", "ACTIVATING", "FREEING"}
      /\ Frame(m, w, c) /\ Typed(w) /\ MediumOK(m)
  <2>1. s # <<>> /\ c \in Clumps(m) /\ m[c].state \in {"RESERVED", "ACTIVATING", "FREEING"}
        /\ Frame(m, w, c)
    BY FinishingStep
  <2>2. Head(s) \in Ops
    BY <2>1
  <2>3. Typed(w)
    BY <2>2, EffectTyped
  <2> QED BY <2>1, <2>3, TiledFacts DEF Sound, Typed
<1>2. /\ Sound(w) /\ Same(m, w, c) /\ LinkedBy(m, w, c) /\ w[c].state \in {m[c].state, FinalOf(m, c)}
      /\ Named(w[c]) \subseteq Named(m[c])
      /\ w[c].state = m[c].state \/ InTransit(w) \subseteq InTransit(m) \ {c}
      /\ w[c] = m[c] \/ (c \in InTransit(m) => \A d \in Named(m[c]) : w[d] = Target(m, c))
  BY <1>1 DEF Frame
<1>3. InTransit(w) \ {c} = InTransit(m) \ {c}
      /\ \A b \in InTransit(m) \ {c} : w[b] = m[b]
  BY <1>2 DEF Same, InTransit
<1>4. \A b \in InTransit(m) \ {c} : Target(w, b) = Target(m, b) /\ Named(w[b]) = Named(m[b])
  BY <1>3 DEF Target
<1>5. \A d \in Named(m[c]) : d \in Cell
  BY <1>1, NamedCells
<1> SUFFICES ASSUME NEW d \in Cell PROVE Cells(w)[d] = Cells(m)[d]
  BY <1>1, <1>2, CellsSame
<1>6. CASE c \notin InTransit(m)
  <2>1. c \notin InTransit(w)
    BY <1>1, <1>2, <1>6 DEF InTransit, FinalOf
  <2>2. InTransit(w) = InTransit(m) /\ w[d] = m[d]
    <3>1. w[d] = m[d]
      BY <1>2, <1>6 DEF LinkedBy
    <3>2. InTransit(w) = InTransit(m)
      <4>1. c \notin InTransit(w) /\ c \notin InTransit(m) /\ InTransit(w) \ {c} = InTransit(m) \ {c}
        BY <2>1, <1>3, <1>6
      <4> QED BY ONLY <4>1
    <3> QED BY <3>1, <3>2
  <2>3. \A b \in InTransit(m) : Target(w, b) = Target(m, b) /\ Named(w[b]) = Named(m[b])
    BY <1>4, <1>6
  <2>4. CASE \E b \in InTransit(m) : d \in Named(m[b])
    <3>1. PICK b \in InTransit(m) : d \in Named(m[b])
      BY <2>4
    <3>2. Cells(m)[d] = Target(m, b)
      BY <3>1, CellsAre
    <3>3. Cells(w)[d] = Target(w, b)
      BY <3>1, <2>2, <2>3, <1>1, <1>2, CellsAre
    <3> QED BY <3>1, <3>2, <3>3, <2>3
  <2>5. CASE \A b \in InTransit(m) : d \notin Named(m[b])
    <3>1. Cells(m)[d] = m[d]
      BY <2>5, CellsAre
    <3>2. Cells(w)[d] = w[d]
      BY <2>5, <2>2, <2>3, <1>1, <1>2, CellsAre
    <3> QED BY <3>1, <3>2, <2>2
  <2> QED BY <2>4, <2>5
<1>7. CASE c \in InTransit(m)
  <2>1. InTransit(m) = {c} /\ InTransit(w) \subseteq {c}
    BY <1>3, <1>7 DEF Sound
  <2>2. w[c].state = m[c].state => Target(w, c) = Target(m, c)
    BY DEF Target
  <2>3. c \in InTransit(w) => w[c].state = m[c].state
    BY <1>2
  <2>4. CASE d \in Named(m[c])
    <3>1. Cells(m)[d] = Target(m, c)
      BY <2>4, <1>7, CellsAre
    <3>2. CASE c \in InTransit(w) /\ d \in Named(w[c])
      BY <3>1, <3>2, <2>2, <2>3, <1>1, <1>2, CellsAre
    <3>3. CASE ~(c \in InTransit(w) /\ d \in Named(w[c]))
      <4>1. Cells(w)[d] = w[d]
        BY <3>3, <2>1, <1>1, <1>2, CellsAre
      <4>2. w[c] # m[c]
        BY <3>3, <2>4, <1>1, <1>2, <1>7 DEF InTransit, Same
      <4>3. w[d] = Target(m, c)
        BY <4>2, <2>4, <1>2, <1>7
      <4> QED BY <3>1, <4>1, <4>3
    <3> QED BY <3>2, <3>3
  <2>5. CASE d \notin Named(m[c])
    <3>1. Cells(m)[d] = m[d]
      BY <2>5, <2>1, CellsAre
    <3>2. Cells(w)[d] = w[d]
      BY <2>5, <2>1, <1>1, <1>2, CellsAre
    <3> QED BY <3>1, <3>2, <2>5, <1>2 DEF LinkedBy
  <2> QED BY <2>4, <2>5
<1> QED BY <1>6, <1>7

-----------------------------------------------------------------------------
(* One step and the pointers *)

\* A call does it once.
LEMMA EffectOnce ==
    ASSUME NEW k, k.block \in Chunk, k.cells \subseteq Cell, NEW x, NEW y, NEW z,
           HeapEffect(k, x, y)
    PROVE  ~HeapEffect(k, y, z)
<1> SUFFICES ASSUME HeapEffect(k, y, z) PROVE FALSE
  OBVIOUS
<1>1. PICK d \in k.cells : d \in Cell
  BY DEF HeapEffect, Linking, Unlinking
<1>2. CASE k.op = "activate"
  <2>1. y[d] = k.block
    BY <1>1, <1>2 DEF HeapEffect, Linking, Unlinking
  <2> QED BY <2>1, <1>1, <1>2 DEF HeapEffect, Linking, Unlinking
<1>3. CASE k.op = "free"
  <2>1. y[d] = NULL
    BY <1>1, <1>3 DEF HeapEffect, Linking, Unlinking
  <2>2. y[d] = k.block
    BY <1>1, <1>3 DEF HeapEffect, Linking, Unlinking
  <2> QED BY <2>1, <2>2, Constants
<1> QED BY <1>2, <1>3 DEF HeapEffect, Linking, Unlinking

\* The pointers depend on the clumps' headers and on the cells.
LEMMA CellsLines ==
    ASSUME NEW m, Typed(m), Sound(m), NEW v, Typed(v), Sound(v),
           \A a \in Walk(m) \union Cell : v[a] = m[a]
    PROVE  Cells(v) = Cells(m)
<1>1. InTransit(v) = InTransit(m)
  BY SoundSame DEF Typed
<1>2. \A c \in InTransit(m) : v[c] = m[c]
  BY DEF InTransit, Clumps
<1>3. \A c \in InTransit(m) : Target(v, c) = Target(m, c) /\ Named(v[c]) = Named(m[c])
  BY <1>2 DEF Target
<1> SUFFICES ASSUME NEW d \in Cell PROVE Cells(v)[d] = Cells(m)[d]
  BY CellsSame
<1>4. CASE \E c \in InTransit(m) : d \in Named(m[c])
  <2>1. PICK c \in InTransit(m) : d \in Named(m[c])
    BY <1>4
  <2>2. Cells(m)[d] = Target(m, c)
    BY <2>1, CellsAre
  <2>3. Cells(v)[d] = Target(v, c)
    BY <2>1, <1>1, <1>3, CellsAre
  <2> QED BY <2>1, <2>2, <2>3, <1>3
<1>5. CASE \A c \in InTransit(m) : d \notin Named(m[c])
  <2>1. Cells(m)[d] = m[d]
    BY <1>5, CellsAre
  <2>2. Cells(v)[d] = v[d]
    BY <1>5, <1>1, <1>3, CellsAre
  <2> QED BY <2>1, <2>2
<1> QED BY <1>4, <1>5

\* A line is written back: the pointers stay, or become those in memory.
LEMMA WrittenCells ==
    ASSUME NEW m, Typed(m), Sound(m), NEW v, Typed(v), Sound(v), NEW x, Dirty(m, v, x),
           NEW a \in DOMAIN m, NEW u, u = [v EXCEPT ![a] = m[a]]
    PROVE  Cells(u) \in {Cells(v), Cells(m)}
<1>1. Typed(u) /\ Sound(u) /\ (x = a => Dirty(m, u, HDR))
  <2> DEFINE y == [v EXCEPT ![a] = m[a]]
  <2>1. Typed(y) /\ Sound(y)
    BY WriteBack
  <2>2. ASSUME x = a PROVE Dirty(m, y, HDR)
    <3>1. Dirty(m, v, a)
      BY <2>2
    <3> QED BY <3>1, WriteBack
  <2> QED BY <2>1, <2>2
<1>4. u[a] = m[a] /\ \A b \in DOMAIN m \ {a} : u[b] = v[b]
  BY DEF Typed, MediumOK
<1>2. CASE x = a
  <2>1. Dirty(m, u, HDR)
    BY <1>1, <1>2
  <2>2. \A b \in Walk(m) \union Cell : u[b] = m[b]
    BY <1>1, <2>1, DirtyNowhere, ZenonT(40)
  <2> QED BY <1>1, <2>2, CellsLines
<1>3. CASE x # a
  <2>1. \A b \in Walk(v) \union Cell : u[b] = v[b]
    <3>1. a \in Relevant(m, v) => v[a] = m[a]
      BY <1>3 DEF Dirty
    <3>2. \A b \in Walk(v) \union Cell : b \in Relevant(m, v) /\ b \in DOMAIN m
      BY RelevantLines DEF Relevant, Typed, MediumOK
    <3> QED BY <3>1, <3>2, <1>1
  <2> QED BY <1>1, <2>1, CellsLines
<1> QED BY <1>2, <1>3

LEMMA CellsDomain == \A m : DOMAIN Cells(m) = Cell /\ Cells(m) = [d \in Cell |-> Cells(m)[d]]
<1> SUFFICES ASSUME NEW m PROVE DOMAIN Cells(m) = Cell /\ Cells(m) = [d \in Cell |-> Cells(m)[d]]
  OBVIOUS
<1>1. DOMAIN Cells(m) = Cell
  BY DEF Cells
<1>2. Cells(m) = [d \in Cell |-> Cells(m)[d]]
  BY SMTT(60) DEF Cells
<1> QED BY <1>1, <1>2

\* The pointers when c has become the clump in transit.
LEMMA TransitCells ==
    ASSUME NEW m, Typed(m), Sound(m), Calm(m), NEW w, Typed(w), Sound(w), SameCells(m, w),
           NEW c, InTransit(w) = {c}, Named(w[c]) = Named(m[c])
    PROVE  Cells(w) = [d \in Cell |-> IF d \in Named(m[c]) THEN Target(w, c) ELSE Cells(m)[d]]
<1>1. \A d \in Cell : Cells(m)[d] = m[d]
  BY CalmCells
<1>2. \A d \in Cell : d \in Named(m[c]) => Cells(w)[d] = Target(w, c)
  BY CellsAre
<1>3. \A d \in Cell : d \notin Named(m[c]) => Cells(w)[d] = w[d]
  BY CellsAre
<1>4. \A d \in Cell : Cells(w)[d] = IF d \in Named(m[c]) THEN Target(w, c) ELSE Cells(m)[d]
  BY <1>1, <1>2, <1>3 DEF SameCells
<1> QED BY <1>4, CellsDomain

LEMMA LinkingStep ==
    ASSUME NEW m, Typed(m), Sound(m), Calm(m), NEW w, Typed(w), Sound(w), SameCells(m, w),
           NEW c, Ready(m, c, "ACTIVATING"), InTransit(w) = {c}, Named(w[c]) = Named(m[c]),
           w[c].state = "ACTIVATING",
           NEW k, k.op = "activate", k.block = c, k.cells = Named(m[c])
    PROVE  Linking(k, Cells(m), Cells(w))
<1>1. \A d \in Cell : Cells(m)[d] = m[d]
  BY CalmCells
<1>2. c \in Clumps(m) /\ m[c].state = "RESERVED" /\ OnList(m[c]) # {} /\ ListSets(m, c, c, {NULL})
  BY DEF Ready
<1>3. c \in Chunk /\ c # NULL
  BY <1>2, TiledFacts, Constants DEF Typed, Sound
<1>4. Named(m[c]) \subseteq Cell /\ Named(m[c]) # {}
  BY <1>2, <1>3, NamedCells DEF Typed, Named
<1>5. \A d \in Named(m[c]) : m[d] = NULL
  BY <1>2 DEF ListSets, Named
<1>6. \A d \in Cell : m[d] # c
  BY <1>2, <1>3 DEF Sound, PointersOK
<1>7. Target(w, c) = c
  BY DEF Target
<1>8. Cells(w) = [d \in Cell |-> IF d \in Named(m[c]) THEN c ELSE Cells(m)[d]]
  BY <1>7, TransitCells
<1> QED BY <1>1, <1>4, <1>5, <1>6, <1>8 DEF Linking

LEMMA UnlinkingStep ==
    ASSUME NEW m, Typed(m), Sound(m), Calm(m), NEW w, Typed(w), Sound(w), SameCells(m, w),
           NEW c, Ready(m, c, "FREEING"), InTransit(w) = {c}, Named(w[c]) = Named(m[c]),
           w[c].state = "FREEING",
           NEW k, k.op = "free", k.block = c, k.cells \subseteq Cell,
           \A d \in Cell : m[d] = c <=> d \in k.cells
    PROVE  Unlinking(k, Cells(m), Cells(w))
<1>1. \A d \in Cell : Cells(m)[d] = m[d]
  BY CalmCells
<1>2. c \in Clumps(m) /\ m[c].state = "ACTIVE" /\ \A d \in Cell : m[d] = c => d \in Named(m[c])
  BY DEF Ready
<1>3. ActiveOK(m, c) /\ c \in Chunk
  BY <1>2, TiledFacts DEF Sound, ClumpOK, Typed
<1>4. Named(m[c]) \subseteq Cell
  BY <1>3, NamedCells DEF Typed
<1>5. \A d \in Named(m[c]) : m[d] = c
  BY <1>3 DEF ActiveOK, ListSets, Named
<1>6. Named(m[c]) = k.cells /\ k.cells # {}
  BY <1>2, <1>3, <1>4, <1>5 DEF ActiveOK
<1>7. Target(w, c) = NULL
  BY DEF Target
<1>8. Cells(w) = [d \in Cell |-> IF d \in k.cells THEN NULL ELSE Cells(m)[d]]
  BY <1>6, <1>7, TransitCells
<1> QED BY <1>1, <1>6, <1>8 DEF Unlinking

LEMMA StoreTyped ==
    ASSUME NEW m, NEW v, NEW s, Medium(m, v, s), s # <<>>, NEW w, w = Effect(m, Head(s))
    PROVE  /\ Typed(m) /\ Sound(m) /\ s \in Seq(Ops) /\ Head(s) \in Ops /\ Typed(w)
           /\ \A a \in DOMAIN m \ {Head(s).at} : w[a] = m[a]
           /\ Head(s).do \notin Stores => w = m
<1>1. Typed(m) /\ Sound(m) /\ s \in Flow
  BY DEF Medium
<1>2. Head(s) \in Ops /\ s \in Seq(Ops)
  BY <1>1, FlowNext DEF Flow
<1>3. Typed(w) /\ \A a \in DOMAIN m \ {Head(s).at} : w[a] = m[a]
  BY <1>1, <1>2, EffectTyped
<1>4. Head(s).do \notin Stores => w = m
  BY DEF Effect
<1> QED BY <1>1, <1>2, <1>3, <1>4

LEMMA StartedCells ==
    ASSUME NEW m, NEW v, NEW s, Medium(m, v, s),
           NEW c, NEW st, NEW rest \in Flow, Calm(m), Ready(m, c, st), Starting(m, s, c, st, rest),
           NEW w, w = Effect(m, Head(s))
    PROVE  \/ w = m
           \/ /\ SameCells(m, w) /\ InTransit(w) = {c} /\ Named(w[c]) = Named(m[c])
              /\ w[c].state = st
<1>1. PICK p : p = TRUE
  OBVIOUS
<1>2. /\ Medium(m, v, s) /\ p \in BOOLEAN /\ (~p => v = m) /\ rest \in Flow
      /\ Calm(m) /\ Ready(m, c, st) /\ Starting(m, s, c, st, rest) /\ w = Effect(m, Head(s))
  BY <1>1
<1>3. \/ w = m /\ Starting(m, Tail(s), c, st, rest)
      \/ /\ Executing(w, Tail(s), c, rest)
         /\ Same(m, w, c) /\ SameCells(m, w)
         /\ w[c].state = st /\ InTransit(w) = {c}
         /\ OnList(w[c]) = OnList(m[c]) /\ Named(w[c]) = Named(m[c])
  BY ONLY <1>2, StartingCall
<1> QED BY <1>3

LEMMA ActivateCells ==
    ASSUME NEW m, NEW v, NEW s, Medium(m, v, s), s # <<>>,
           NEW k, k.op = "activate", k.block \in Chunk,
           NEW a, NEW fl, NEW dr, InActivate(m, s, k, a, fl, dr),
           NEW w, w = Effect(m, Head(s)), Sound(w)
    PROVE  Moves(m, w, k)
<1> DEFINE c == k.block
<1>0. Typed(m) /\ Sound(m) /\ Typed(w) /\ s \in Seq(Ops) /\ (Head(s).do \notin Stores => w = m)
  BY StoreTyped
<1>1. CASE /\ Calm(m) /\ Reserved(m, c, a[c]) /\ OnList(m[c]) # {} /\ k.cells = Named(m[c])
           /\ Starting(m, s, c, "ACTIVATING", <<>>)
  <2>1. Ready(m, c, "ACTIVATING")
    BY <1>1 DEF Ready, Reserved
  <2>2. \/ w = m
        \/ /\ SameCells(m, w) /\ InTransit(w) = {c} /\ Named(w[c]) = Named(m[c])
           /\ w[c].state = "ACTIVATING"
    <3>1. PICK rest, st, x : rest = <<>> /\ st = "ACTIVATING" /\ x = c
      OBVIOUS
    <3>2. /\ Medium(m, v, s) /\ rest \in Flow /\ Calm(m) /\ Ready(m, x, st)
          /\ Starting(m, s, x, st, rest) /\ w = Effect(m, Head(s))
      BY <1>1, <2>1, <3>1, FlowEmpty
    <3>3. \/ w = m
          \/ /\ SameCells(m, w) /\ InTransit(w) = {x} /\ Named(w[x]) = Named(m[x])
             /\ w[x].state = st
      BY ONLY <3>2, StartedCells
    <3> QED BY <3>1, <3>3
  <2>3. w = m => Moves(m, w, k)
    BY DEF Moves
  <2>4. ASSUME SameCells(m, w), InTransit(w) = {c}, Named(w[c]) = Named(m[c]), w[c].state = "ACTIVATING"
        PROVE  Linking(k, Cells(m), Cells(w))
    BY <1>0, <1>1, <2>1, <2>4, LinkingStep
  <2> QED BY <2>2, <2>3, <2>4 DEF Moves, HeapEffect
<1>2. CASE Finishing(m, s, c, <<>>)
  BY <1>0, <1>2, FlowEmpty, FinishingCells DEF Moves
<1>3. CASE s \in Seq(Persists)
  <2>1. Head(s) \in Persists
    BY <1>3
  <2>2. Head(s).do \notin Stores
    BY <2>1 DEF Persists, Stores
  <2> QED BY <2>2, <1>0 DEF Moves
<1> QED BY <1>1, <1>2, <1>3 DEF InActivate, Activating

LEMMA CoalescingCells ==
    ASSUME NEW m, NEW v, NEW s, Medium(m, v, s), s # <<>>, Head(s).do # "coalesce",
           Calm(m), Coalescing(m, s), NEW w, w = Effect(m, Head(s))
    PROVE  Cells(w) = Cells(m)
<1>1. Typed(m) /\ Sound(m) /\ Typed(w)
  BY StoreTyped
<1>2. Sound(w) /\ Kept(m, w)
  BY <1>1, CoalescingStep
<1>3. Calm(w) /\ SameCells(m, w)
  BY <1>2 DEF Kept, Calm
<1> QED BY <1>1, <1>2, <1>3, CalmSame

LEMMA FreeCells ==
    ASSUME NEW m, NEW v, NEW s, Medium(m, v, s), s # <<>>, Head(s).do # "coalesce",
           NEW k, k.op = "free", k.block \in Chunk, k.cells \subseteq Cell,
           NEW a, InFree(m, s, k, a),
           NEW w, w = Effect(m, Head(s)), Sound(w)
    PROVE  Moves(m, w, k)
<1> DEFINE c == k.block
<1>0. Typed(m) /\ Sound(m) /\ Typed(w) /\ s \in Seq(Ops)
  BY StoreTyped
<1>1. CASE /\ Calm(m) /\ Ready(m, c, "FREEING") /\ Starting(m, s, c, "FREEING", Coalesce)
           /\ \A d \in Cell : m[d] = c <=> d \in k.cells
  <2>2. \/ w = m
        \/ /\ SameCells(m, w) /\ InTransit(w) = {c} /\ Named(w[c]) = Named(m[c])
           /\ w[c].state = "FREEING"
    <3>1. PICK rest, st, x : rest = Coalesce /\ st = "FREEING" /\ x = c
      OBVIOUS
    <3>2. /\ Medium(m, v, s) /\ rest \in Flow /\ Calm(m) /\ Ready(m, x, st)
          /\ Starting(m, s, x, st, rest) /\ w = Effect(m, Head(s))
      BY <1>1, <3>1, CoalesceIs
    <3>3. \/ w = m
          \/ /\ SameCells(m, w) /\ InTransit(w) = {x} /\ Named(w[x]) = Named(m[x])
             /\ w[x].state = st
      BY ONLY <3>2, StartedCells
    <3> QED BY <3>1, <3>3
  <2>3. w = m => Moves(m, w, k)
    BY DEF Moves
  <2>4. ASSUME SameCells(m, w), InTransit(w) = {c}, Named(w[c]) = Named(m[c]), w[c].state = "FREEING"
        PROVE  Unlinking(k, Cells(m), Cells(w))
    BY <1>0, <1>1, <2>4, UnlinkingStep
  <2> QED BY <2>2, <2>3, <2>4 DEF Moves, HeapEffect
<1>2. CASE Finishing(m, s, c, Coalesce)
  BY <1>0, <1>2, CoalesceIs, FinishingCells DEF Moves
<1>3. CASE Calm(m) /\ Coalescing(m, s)
  BY <1>3, CoalescingCells DEF Moves
<1> QED BY <1>1, <1>2, <1>3 DEF InFree

LEMMA UserCells ==
    ASSUME NEW m, NEW v, NEW s, Medium(m, v, s), s # <<>>, Head(s).do # "coalesce",
           NEW k, k.op \in UserCalls, NEW a, NEW fl, NEW dr, NEW r \in BOOLEAN, NEW f, NEW df,
           Promised(m, k, a, fl, dr, r), Course(m, v, s, k, a, fl, dr, r, f, df),
           NEW w, w = Effect(m, Head(s))
    PROVE  Moves(m, w, k)
<1>0. Typed(m) /\ Sound(m) /\ Typed(w) /\ s \in Seq(Ops) /\ Head(s) \in Ops
  BY StoreTyped
<1>1. PICK p, u : p = TRUE /\ u = DurableAfter(m, v, Head(s), p)
  OBVIOUS
<1>2. Medium(w, u, Tail(s)) /\ Course(w, u, Tail(s), k, a, fl, dr, r, f, df)
  <2>1. /\ Medium(m, v, s) /\ s # <<>> /\ Head(s).do # "coalesce"
        /\ p \in BOOLEAN /\ (~p => v = m) /\ k.op \in UserCalls /\ r \in BOOLEAN
        /\ Promised(m, k, a, fl, dr, r) /\ Course(m, v, s, k, a, fl, dr, r, f, df)
        /\ w = Effect(m, Head(s)) /\ u = DurableAfter(m, v, Head(s), p)
    BY <1>1
  <2> QED BY ONLY <2>1, UserStep
<1>3. Sound(w)
  BY <1>2 DEF Medium
<1>4. k.block \in Chunk /\ k.cells \subseteq Cell
  BY DEF Course
<1>5. ASSUME Calm(m), Calm(w), SameCells(m, w) PROVE Moves(m, w, k)
  BY <1>0, <1>3, <1>5, CalmSame DEF Moves
<1>6. CASE k.op = "reserve"
  <2>1. InReserve(m, v, s, k, a) /\ InReserve(w, u, Tail(s), k, a)
    BY <1>2, <1>6 DEF Course
  <2>2. PICK n, c : n = k.n /\ c = k.block
    OBVIOUS
  <2>3. Calm(m) /\ Calm(w) /\ Apart(m, LastClump) /\ n \in Request /\ Reserving(m, s, c, n)
    BY <2>1, <2>2 DEF InReserve
  <2>4. n \in Nat /\ 0 < n
    BY <2>3, RequestIs
  <2>5. Untaken(m, w, c)
    BY ONLY <1>0, <2>3, <2>4, s # <<>>, w = Effect(m, Head(s)), ReservingStep
  <2> QED BY <2>3, <2>5, <1>5 DEF Untaken
<1>7. ASSUME NEW d \in Cell, NEW q \in Chunk \union {NULL}, Adding(m, s, k.block, d, q)
      PROVE  SameCells(m, w)
  <2>1. Head(s).do # "cell"
    BY <1>4, <1>7, AddingHead
  <2> QED BY <1>0, <2>1, EffectCells
<1>8. CASE k.op = "onactive"
  <2>1. InOnActive(m, s, k, a) /\ InOnActive(w, Tail(s), k, a)
    BY <1>2, <1>8 DEF Course
  <2>2. Calm(m) /\ Calm(w) /\ \E d \in Cell : Adding(m, s, k.block, d, k.block)
    BY <2>1 DEF InOnActive
  <2> QED BY <2>2, <1>4, <1>5, <1>7
<1>9. CASE k.op = "onfree"
  <2>1. InOnFree(m, s, k) /\ InOnFree(w, Tail(s), k)
    BY <1>2, <1>9 DEF Course
  <2>2. Calm(m) /\ Calm(w) /\ \E d \in Cell : Adding(m, s, k.block, d, NULL)
    BY <2>1 DEF InOnFree
  <2> QED BY <2>2, <1>5, <1>7
<1>10. CASE k.op = "activate"
  <2>1. InActivate(m, s, k, a, fl, dr)
    BY <1>10 DEF Course
  <2> QED BY <2>1, <1>3, <1>4, <1>10, ActivateCells
<1>11. CASE k.op = "free"
  <2>1. InFree(m, s, k, a)
    BY <1>11 DEF Course
  <2> QED BY <2>1, <1>3, <1>4, <1>11, FreeCells
<1>12. CASE k.op = "discard"
  <2>1. InDiscard(m, s, k, a)
    BY <1>12 DEF Course
  <2>2. CASE Clearing(m, s, k.block, Coalesce)
    <3>1. Finishing(m, s, k.block, Coalesce)
      BY <2>2 DEF Finishing
    <3> QED BY <3>1, <1>0, CoalesceIs, FinishingCells DEF Moves
  <2>3. CASE Calm(m) /\ Coalescing(m, s)
    BY <2>3, CoalescingCells DEF Moves
  <2> QED BY <2>1, <2>2, <2>3 DEF InDiscard
<1> QED BY <1>6, <1>8, <1>9, <1>10, <1>11, <1>12 DEF UserCalls

\* A new pool has no pointer.
LEMMA NewCells ==
    ASSUME NEW m, Typed(m), Sound(m), NEW v, NEW s, NEW f, Creating(m, v, s, f)
    PROVE  Cells(m) = [d \in Cell |-> NULL]
<1>1. m[0] \in {Blank, Whole} /\ (\A c \in Chunk \ {0} : m[c] = Blank) /\ \A d \in Cell : m[d] = NULL
  BY DEF Creating
<1>2. \A c \in Chunk : m[c].state = "FREE"
  BY <1>1 DEF Blank, Whole
<1>3. Clumps(m) \subseteq Chunk
  BY TiledFacts DEF Typed, Sound
<1>4. Calm(m)
  BY <1>2, <1>3 DEF Calm, InTransit
<1>5. \A d \in Cell : Cells(m)[d] = NULL
  BY <1>1, <1>4, CalmCells
<1> QED BY <1>5, CellsDomain

LEMMA MendingCells ==
    ASSUME NEW m, NEW v, NEW s, Medium(m, v, s), s # <<>>, Head(s).do \notin ScanHead,
           Mending(m, s), NEW w, w = Effect(m, Head(s))
    PROVE  Cells(w) = Cells(m)
<1>0. Typed(m) /\ Sound(m) /\ Typed(w) /\ s \in Seq(Ops) /\ (Head(s).do \notin Stores => w = m)
      /\ Tiled(m) /\ MediumOK(m)
  BY StoreTyped DEF Sound, Typed
<1>1. ASSUME NEW c \in Chunk, Recovering(m, s, c) PROVE w = m
  <2>1. PICK q \in Seq(Persists) : s = q \o RecoverFrom(c)
    BY ONLY <1>1 DEF Recovering
  <2>2. RecoverFrom(c) \in Seq(Ops) /\ RecoverFrom(c) # <<>> /\ Head(RecoverFrom(c)).do = "recover"
    BY RecoverFromIs
  <2>3. PICK r : r = RecoverFrom(c)
    BY ONLY <2>2
  <2>4. q \o r # <<>> /\ Head(q \o r) \in Persists \union {Head(r)}
    <3>1. q \in Seq(Persists) /\ r \in Seq(Ops) /\ r # <<>>
      BY ONLY <2>1, <2>2, <2>3
    <3> QED BY ONLY <3>1, HeadOf
  <2>5. Head(s) \in Persists \union {Head(r)} /\ Head(r).do = "recover"
    BY ONLY <2>1, <2>2, <2>3, <2>4
  <2>6. Head(s).do \notin Stores
    BY ONLY <2>5, Head(s).do \notin ScanHead DEF Persists, Stores, ScanHead
  <2> QED BY <2>6, <1>0
<1>2. ASSUME NEW c \in Chunk, RecoveringAt(m, s, c) PROVE Cells(w) = Cells(m)
  <2>1. PICK rest : rest = RecoverFrom(c + m[c].size)
    OBVIOUS
  <2>2. Finishing(m, s, c, rest) /\ c + m[c].size \in Chunk
    BY <1>0, <1>2, <2>1, TiledFacts DEF RecoveringAt
  <2>3. rest \in Flow
    BY <2>1, <2>2, RecoverFromIs
  <2> QED BY <1>0, <2>2, <2>3, FinishingCells
<1>3. CASE Coalescing(m, s) /\ Recovered(m, LastClump)
  <2>1. Calm(m)
    BY <1>0, <1>3, RecoveredCalm
  <2>2. Head(s).do # "coalesce"
    BY DEF ScanHead
  <2> QED BY <1>3, <2>1, <2>2, CoalescingCells
<1> QED BY <1>1, <1>2, <1>3 DEF Mending

LEMMA OpeningCells ==
    ASSUME NEW m, NEW v, NEW s, Medium(m, v, s), s # <<>>, Head(s).do \notin ScanHead,
           NEW k, NEW f, NEW df, Opening(m, v, s, k, f, df), NEW w, w = Effect(m, Head(s))
    PROVE  Cells(w) = Cells(m)
<1>0. Typed(m) /\ Sound(m) /\ Typed(w)
  BY StoreTyped
<1>1. CASE Mending(m, s)
  BY <1>1, MendingCells
<1>2. CASE Creating(m, v, s, f)
  <2>1. PICK g : g = FileAfter(f, Head(s))
    OBVIOUS
  <2>2. /\ Sound(w)
        /\ Creating(w, v, Tail(s), g) \/ Head(s).do = "fsync"
    BY <1>0, <1>2, <2>1, CreatingStep
  <2>3. CASE Head(s).do = "fsync"
    <3>1. w = m
      BY <2>3 DEF Effect, Stores
    <3> QED BY <3>1
  <2>4. CASE Creating(w, v, Tail(s), g)
    <3>1. Cells(m) = [d \in Cell |-> NULL]
      BY <1>0, <1>2, NewCells
    <3>2. Cells(w) = [d \in Cell |-> NULL]
      BY <1>0, <2>2, <2>4, NewCells
    <3> QED BY <3>1, <3>2
  <2> QED BY <2>2, <2>3, <2>4
<1> QED BY <1>1, <1>2 DEF Opening

LEMMA CourseCells ==
    ASSUME NEW m, NEW v, NEW s, Medium(m, v, s), s # <<>>, Head(s).do \notin ScanHead,
           NEW k, NEW a, NEW fl, NEW dr, NEW r \in BOOLEAN, NEW f, NEW df,
           Promised(m, k, a, fl, dr, r), Course(m, v, s, k, a, fl, dr, r, f, df),
           NEW w, w = Effect(m, Head(s))
    PROVE  Moves(m, w, k)
<1>1. CASE k.op \in UserCalls
  <2>1. Head(s).do # "coalesce"
    BY DEF ScanHead
  <2> QED BY <1>1, <2>1, UserCells
<1>2. CASE k.op = "init"
  <2>1. Opening(m, v, s, k, f, df)
    BY <1>2 DEF Course
  <2> QED BY <2>1, OpeningCells DEF Moves
<1>3. k.op # "none"
  BY DEF Course, Between
<1> QED BY <1>1, <1>2, <1>3 DEF Course

-----------------------------------------------------------------------------
(* The effect of a call, in memory and durable *)

LEMMA CellsStep ==
    ASSUME NEW m, NEW v, NEW s, NEW k, NEW a, NEW fl, NEW dr, NEW r, NEW f, NEW df,
           Agreed(m, v, s, k, a, fl, dr, r, f, df), s # <<>>, Head(s).do \notin ScanHead,
           Faithful(m, v, k),
           NEW p \in BOOLEAN, ~p => v = m,
           NEW w, w = Effect(m, Head(s)), NEW u, u = DurableAfter(m, v, Head(s), p)
    PROVE  Faithful(w, u, k) /\ Moves(v, u, k)
<1>0. /\ Medium(m, v, s) /\ Promised(m, k, a, fl, dr, r) /\ r \in BOOLEAN
      /\ Course(m, v, s, k, a, fl, dr, r, f, df)
  BY DEF Agreed
<1>1. Moves(m, w, k)
  BY <1>0, CourseCells
<1>2. Typed(m) /\ Sound(m) /\ Typed(v) /\ Sound(v) /\ Dirty(m, v, Pending(s))
      /\ s \in Seq(Ops) /\ Head(s) \in Ops /\ (Head(s).do \notin Stores => w = m)
  BY <1>0, StoreTyped DEF Medium
<1>3. \A x, y : HeapEffect(k, x, y) => k.block \in Chunk /\ k.cells \subseteq Cell
  <2>1. k.op \in {"activate", "free"} => k.op \in UserCalls
    BY DEF UserCalls
  <2>2. k.op \in UserCalls => k.block \in Chunk /\ k.cells \subseteq Cell
    BY <1>0 DEF Course
  <2> QED BY <2>1, <2>2 DEF HeapEffect, Linking, Unlinking
<1>4. Cells(m) = Cells(v) \/ HeapEffect(k, Cells(v), Cells(m))
  BY DEF Faithful, Moves
<1>5. CASE ~p
  <2>1. u = w /\ v = m
    BY <1>5 DEF DurableAfter
  <2> QED BY <2>1, <1>1 DEF Faithful, Moves
<1>6. CASE p /\ Head(s).do = "persist"
  <2>1. w = m /\ u = [v EXCEPT ![Head(s).at] = m[Head(s).at]]
    BY <1>2, <1>6 DEF DurableAfter, Stores
  <2>2. Head(s) \in Persists
    BY <1>2, <1>6, OpsKinds
  <2>3. Head(s).at \in DOMAIN m
    BY <1>0, <2>2, FlushKeeps
  <2>4. Cells(u) \in {Cells(v), Cells(m)}
    <3>1. PICK x, b : x = Pending(s) /\ b = Head(s).at
      OBVIOUS
    <3>2. Dirty(m, v, x) /\ b \in DOMAIN m /\ u = [v EXCEPT ![b] = m[b]]
      BY <1>2, <2>1, <2>3, <3>1
    <3> QED BY ONLY <1>2, <3>2, WrittenCells
  <2> QED BY <2>1, <2>4, <1>4 DEF Faithful, Moves
<1>7. CASE p /\ Head(s).do = "fsync"
  <2>1. w = m /\ u = m
    BY <1>2, <1>7 DEF DurableAfter, Stores
  <2> QED BY <2>1, <1>4 DEF Faithful, Moves
<1>8. CASE p /\ Head(s).do \notin {"persist", "fsync"}
  <2>1. u = v
    BY <1>8 DEF DurableAfter
  <2>2. CASE Cells(w) = Cells(m)
    BY <2>1, <2>2, <1>4 DEF Faithful, Moves
  <2>3. CASE HeapEffect(k, Cells(m), Cells(w))
    <3>1. ~HeapEffect(k, Cells(v), Cells(m))
      <4>1. PICK x, y, z : x = Cells(v) /\ y = Cells(m) /\ z = Cells(w)
        OBVIOUS
      <4>2. HeapEffect(k, y, z) /\ k.block \in Chunk /\ k.cells \subseteq Cell
        BY <4>1, <2>3, <1>3
      <4>3. HeapEffect(k, x, y) => ~HeapEffect(k, y, z)
        BY ONLY <4>2, EffectOnce
      <4> QED BY <4>1, <4>2, <4>3
    <3>2. Cells(v) = Cells(m)
      BY <3>1, <1>4
    <3> QED BY <2>1, <2>3, <3>2 DEF Faithful, Moves
  <2> QED BY <1>1, <2>2, <2>3 DEF Moves
<1> QED BY <1>5, <1>6, <1>7, <1>8

\* The blocks in use before and after the effect.
LEMMA EffectLive ==
    ASSUME NEW k, k.block \in Chunk, k.cells \subseteq Cell, NEW x, NEW y, HeapEffect(k, x, y),
           NEW L, L = Blocks(x), NEW N, N = Blocks(y)
    PROVE  \/ /\ k.op = "activate" /\ k.block \notin L /\ N = L \union {k.block}
              /\ y = [d \in Cell |-> IF d \in k.cells THEN k.block ELSE x[d]]
           \/ /\ k.op = "free" /\ k.block \in L /\ N = L \ {k.block}
              /\ y = [d \in Cell |-> IF d \in k.cells THEN NULL ELSE x[d]]
<1>0. k.block # NULL
  BY Constants
<1>a. L = {x[d] : d \in Cell} \ {NULL} /\ N = {y[d] : d \in Cell} \ {NULL}
  BY DEF Blocks
<1>1. CASE Linking(k, x, y)
  <2>1. /\ k.op = "activate" /\ k.cells # {}
        /\ \A d \in Cell : x[d] # k.block
        /\ \A d \in k.cells : x[d] = NULL
        /\ y = [d \in Cell |-> IF d \in k.cells THEN k.block ELSE x[d]]
    BY <1>1 DEF Linking
  <2>2. \A d \in Cell : y[d] = IF d \in k.cells THEN k.block ELSE x[d]
    BY <2>1
  <2>3. k.block \notin L
    BY <1>a, <2>1
  <2>4. k.block \in N
    <3>1. PICK d \in Cell : d \in k.cells
      BY <2>1
    <3> QED BY <1>a, <3>1, <2>2, <1>0
  <2>5. N \subseteq L \union {k.block}
    BY <1>a, <2>2
  <2>6. L \subseteq N
    <3> SUFFICES ASSUME NEW d \in Cell, x[d] # NULL PROVE x[d] \in N
      BY <1>a
    <3>1. y[d] = x[d]
      BY <2>1, <2>2
    <3> QED BY <1>a, <3>1
  <2> QED BY <2>1, <2>3, <2>4, <2>5, <2>6
<1>2. CASE Unlinking(k, x, y)
  <2>1. /\ k.op = "free" /\ k.cells # {} /\ \A d \in Cell : d \in k.cells <=> x[d] = k.block
        /\ y = [d \in Cell |-> IF d \in k.cells THEN NULL ELSE x[d]]
    BY <1>2 DEF Unlinking
  <2>2. \A d \in Cell : y[d] = IF d \in k.cells THEN NULL ELSE x[d]
    BY <2>1
  <2>3. k.block \in L
    <3>1. PICK d \in Cell : d \in k.cells
      BY <2>1
    <3> QED BY <1>a, <3>1, <2>1, <1>0
  <2>4. k.block \notin N
    <3> SUFFICES ASSUME NEW d \in Cell, y[d] = k.block PROVE FALSE
      BY <1>a
    <3> QED BY <2>1, <2>2, <1>0
  <2>5. N \subseteq L
    BY <1>a, <2>2
  <2>6. L \ {k.block} \subseteq N
    <3> SUFFICES ASSUME NEW d \in Cell, x[d] # NULL, x[d] # k.block PROVE x[d] \in N
      BY <1>a
    <3>1. y[d] = x[d]
      BY <2>1, <2>2
    <3> QED BY <1>a, <3>1
  <2> QED BY <2>1, <2>3, <2>4, <2>5, <2>6
<1> QED BY <1>1, <1>2 DEF HeapEffect

-----------------------------------------------------------------------------
(* Every step is one of the durable heap, or none *)

\* Nothing is left to do: all that matters is durable.
LEMMA DurableCells ==
    ASSUME NEW m, NEW v, Medium(m, v, <<>>)
    PROVE  Cells(v) = Cells(m) /\ \A k : Faithful(m, v, k)
<1>1. Typed(m) /\ Sound(m) /\ Typed(v) /\ Sound(v) /\ Dirty(m, v, HDR)
  BY DEF Medium, Pending
<1>2. \A a \in Walk(m) \union Cell : v[a] = m[a]
  BY ONLY <1>1, DirtyNowhere
<1>3. Cells(v) = Cells(m)
  BY ONLY <1>1, <1>2, CellsLines
<1> QED BY <1>3 DEF Faithful, Moves

\* The blocks in use follow the pointers.
LEMMA MovesLive ==
    ASSUME NEW v, Typed(v), Sound(v), NEW u, Typed(u), Sound(u), NEW k, Moves(v, u, k),
           k.op \in {"activate", "free"} => k.block \in Chunk /\ k.cells \subseteq Cell
    PROVE  \/ InUse(u) = InUse(v) /\ Cells(u) = Cells(v)
           \/ /\ k.op = "activate" /\ k.block \notin InUse(v) /\ InUse(u) = InUse(v) \union {k.block}
              /\ Cells(u) = [d \in Cell |-> IF d \in k.cells THEN k.block ELSE Cells(v)[d]]
           \/ /\ k.op = "free" /\ k.block \in InUse(v) /\ InUse(u) = InUse(v) \ {k.block}
              /\ Cells(u) = [d \in Cell |-> IF d \in k.cells THEN NULL ELSE Cells(v)[d]]
<1>1. PICK x, y, L, N : x = Cells(v) /\ y = Cells(u) /\ L = InUse(v) /\ N = InUse(u)
  OBVIOUS
<1>2. L = Blocks(x) /\ N = Blocks(y)
  BY <1>1, SoundLeaks DEF Blocks
<1>3. CASE y = x
  BY <1>1, <1>2, <1>3
<1>4. CASE HeapEffect(k, x, y)
  <2>1. k.block \in Chunk /\ k.cells \subseteq Cell
    BY <1>4 DEF HeapEffect, Linking, Unlinking
  <2>2. \/ /\ k.op = "activate" /\ k.block \notin L /\ N = L \union {k.block}
           /\ y = [d \in Cell |-> IF d \in k.cells THEN k.block ELSE x[d]]
        \/ /\ k.op = "free" /\ k.block \in L /\ N = L \ {k.block}
           /\ y = [d \in Cell |-> IF d \in k.cells THEN NULL ELSE x[d]]
    BY ONLY <1>2, <1>4, <2>1, EffectLive
  <2> QED BY <1>1, <2>2
<1> QED BY <1>1, <1>3, <1>4 DEF Moves

LEMMA StateFacts ==
    ASSUME IInv
    PROVE  /\ Typed(mem) /\ Sound(mem) /\ Typed(survivor) /\ Sound(survivor)
           /\ Medium(mem, survivor, todo)
           /\ call.op \in {"activate", "free"} => call.block \in Chunk /\ call.cells \subseteq Cell
           /\ call = NoCall => todo = <<>>
           /\ todo = <<>> => Cells(survivor) = Cells(mem) /\ \A k : Faithful(mem, survivor, k)
           /\ "kill" \in failures => survivor = mem
<1>1. /\ Medium(mem, survivor, todo) /\ Background
      /\ Course(mem, survivor, todo, call, asked, filled, dropped, up, file, durableFile)
  BY DEF IInv, Agreed
<1>2. Typed(mem) /\ Sound(mem) /\ Typed(survivor) /\ Sound(survivor)
  BY <1>1 DEF Medium
<1>3. call.op \in {"activate", "free"} => call.block \in Chunk /\ call.cells \subseteq Cell
  BY <1>1 DEF Course, UserCalls
<1>4. call = NoCall => todo = <<>>
  BY <1>1 DEF Course, Between, NoCall
<1>5. todo = <<>> => Cells(survivor) = Cells(mem) /\ \A k : Faithful(mem, survivor, k)
  BY <1>1, DurableCells
<1>6. "kill" \in failures => survivor = mem
  BY <1>1 DEF Background, OneKindFails, survivor
<1> QED BY <1>1, <1>2, <1>3, <1>4, <1>5, <1>6

\* Nothing in transit, nothing left to do: the blocks in use are those the cells
\* point at.
LEMMA RestCells ==
    ASSUME IInv, todo = <<>>, Calm(mem)
    PROVE  /\ \A d \in Cell : Cells(survivor)[d] = mem[d]
           /\ InUse(survivor) = {mem[d] : d \in Cell} \ {NULL}
<1>1. PICK m, v : m = mem /\ v = survivor
  OBVIOUS
<1>2. Typed(m) /\ Sound(m) /\ Calm(m) /\ Typed(v) /\ Sound(v) /\ Cells(v) = Cells(m)
  BY <1>1, StateFacts
<1>3. \A d \in Cell : Cells(v)[d] = m[d]
  BY ONLY <1>2, CalmCells
<1>4. InUse(v) = {Cells(v)[d] : d \in Cell} \ {NULL}
  BY ONLY <1>2, SoundLeaks
<1> QED BY <1>1, <1>3, <1>4

\* What the durable heap sees stays.
LEMMA HeapStays ==
    ASSUME UNCHANGED up, Seen(call)' = Seen(call),
           InUse(survivor)' = InUse(survivor), Cells(survivor)' = Cells(survivor)
    PROVE  UNCHANGED Heap!vars
BY DEF Heap!vars, Seen

LEMMA MovesHeap ==
    ASSUME AInv, IInv', UNCHANGED <<call, up>>, Moves(survivor, survivor', call)
    PROVE  Heap!Effect \/ UNCHANGED Heap!vars
<1>1. PICK v, u, k : v = survivor /\ u = survivor' /\ k = call
  OBVIOUS
<1>2. /\ Typed(v) /\ Sound(v) /\ Moves(v, u, k)
      /\ k.op \in {"activate", "free"} => k.block \in Chunk /\ k.cells \subseteq Cell
  BY <1>1, StateFacts DEF AInv
<1>3. Typed(u) /\ Sound(u)
  <2>1. Medium(mem', survivor', todo')
    BY DEF IInv, Agreed
  <2> QED BY <1>1, <2>1 DEF Medium
<1>4. \/ InUse(u) = InUse(v) /\ Cells(u) = Cells(v)
      \/ /\ k.op = "activate" /\ k.block \notin InUse(v) /\ InUse(u) = InUse(v) \union {k.block}
         /\ Cells(u) = [d \in Cell |-> IF d \in k.cells THEN k.block ELSE Cells(v)[d]]
      \/ /\ k.op = "free" /\ k.block \in InUse(v) /\ InUse(u) = InUse(v) \ {k.block}
         /\ Cells(u) = [d \in Cell |-> IF d \in k.cells THEN NULL ELSE Cells(v)[d]]
  BY ONLY <1>2, <1>3, MovesLive
<1>5. CASE InUse(u) = InUse(v) /\ Cells(u) = Cells(v)
  BY <1>1, <1>5, HeapStays
<1>6. CASE /\ k.op = "activate" /\ k.block \notin InUse(v) /\ InUse(u) = InUse(v) \union {k.block}
           /\ Cells(u) = [d \in Cell |-> IF d \in k.cells THEN k.block ELSE Cells(v)[d]]
  BY <1>1, <1>6 DEF Heap!Effect
<1>7. CASE /\ k.op = "free" /\ k.block \in InUse(v) /\ InUse(u) = InUse(v) \ {k.block}
           /\ Cells(u) = [d \in Cell |-> IF d \in k.cells THEN NULL ELSE Cells(v)[d]]
  BY <1>1, <1>7 DEF Heap!Effect
<1> QED BY <1>4, <1>5, <1>6, <1>7

\* A step of a call, scans apart, in memory and on the medium.
LEMMA StepFacts ==
    ASSUME Store \/ Flush \/ FileStep
    PROVE  /\ todo # <<>> /\ Head(todo).do \notin ScanHead
           /\ mem' = Effect(mem, Head(todo))
           /\ survivor' = DurableAfter(mem, survivor, Head(todo), "power" \in failures)
           /\ UNCHANGED <<call, up>>
<1> DEFINE o == Head(todo)
<1>1. CASE Store
  <2>1. /\ todo # <<>> /\ o.do \in Stores /\ mem' = [mem EXCEPT ![o.at] = Written(o)]
        /\ UNCHANGED <<pm, failures, call, up>>
    BY <1>1 DEF Store, Stores
  <2>2. mem' = Effect(mem, o)
    <3>1. PICK m, e : m = mem /\ e = o OBVIOUS
    <3>2. e.do \in Stores BY <2>1, <3>1
    <3>3. Effect(m, e) = [m EXCEPT ![e.at] = WrittenTo(m, e)] BY <3>2 DEF Effect
    <3>4. Written(o) = WrittenTo(m, e) BY <3>1 DEF Written, WrittenTo
    <3> QED BY <2>1, <3>1, <3>3, <3>4
  <2>3. survivor' = DurableAfter(mem, survivor, o, "power" \in failures)
    BY <2>1, <2>2 DEF survivor, DurableAfter, Stores
  <2> QED BY <2>1, <2>2, <2>3 DEF Stores, ScanHead
<1>2. CASE Flush
  <2>1. /\ todo # <<>> /\ o.do = "persist" /\ pm' = [pm EXCEPT ![o.at] = Durable(mem[o.at], @)]
        /\ UNCHANGED <<mem, failures, call, up>>
    BY <1>2 DEF Flush
  <2>2. mem' = Effect(mem, o)
    BY <2>1 DEF Effect, Stores
  <2>3. survivor' = DurableAfter(mem, survivor, o, "power" \in failures)
    BY <2>1, <2>2 DEF survivor, DurableAfter, Durable
  <2> QED BY <2>1, <2>2, <2>3 DEF ScanHead
<1>3. CASE FileStep
  <2>1. /\ todo # <<>> /\ o.do \in {"creat", "fallocate", "fsync"}
        /\ o.do # "fsync" => UNCHANGED pm
        /\ o.do = "fsync" => pm' = Durable(mem, pm)
        /\ UNCHANGED <<mem, failures, call, up>>
    BY <1>3 DEF FileStep
  <2>2. mem' = Effect(mem, o)
    BY <2>1 DEF Effect, Stores
  <2>3. survivor' = DurableAfter(mem, survivor, o, "power" \in failures)
    BY <2>1, <2>2 DEF survivor, DurableAfter, Durable
  <2> QED BY <2>1, <2>2, <2>3 DEF ScanHead
<1> QED BY <1>1, <1>2, <1>3

\* A store or a flush has the effect of the call, or none that can be seen.
LEMMA StoringHeap ==
    ASSUME AInv, IInv', Store \/ Flush \/ FileStep
    PROVE  AInv' /\ (Heap!Effect \/ UNCHANGED Heap!vars)
<1>1. PICK m, v, s, k, a, fl, dr, r, f, df :
        /\ m = mem /\ v = survivor /\ s = todo /\ k = call /\ a = asked /\ fl = filled
        /\ dr = dropped /\ r = up /\ f = file /\ df = durableFile
  OBVIOUS
<1>2. PICK p, w, u : p = ("power" \in failures) /\ w = mem' /\ u = survivor'
  OBVIOUS
<1>3. /\ Agreed(m, v, s, k, a, fl, dr, r, f, df) /\ s # <<>> /\ Head(s).do \notin ScanHead
      /\ Faithful(m, v, k) /\ p \in BOOLEAN /\ (~p => v = m)
      /\ w = Effect(m, Head(s)) /\ u = DurableAfter(m, v, Head(s), p)
  <2>1. ~p => v = m
    BY <1>1, <1>2 DEF survivor
  <2>2. /\ todo # <<>> /\ Head(todo).do \notin ScanHead
        /\ mem' = Effect(mem, Head(todo))
        /\ survivor' = DurableAfter(mem, survivor, Head(todo), "power" \in failures)
    BY StepFacts
  <2> QED BY <1>1, <1>2, <2>1, <2>2 DEF AInv, IInv
<1>4. Faithful(w, u, k) /\ Moves(v, u, k)
  BY ONLY <1>3, CellsStep
<1>5. UNCHANGED <<call, up>>
  BY StepFacts
<1>6. AInv' /\ Moves(survivor, survivor', call)
  BY <1>1, <1>2, <1>4, <1>5 DEF AInv
<1> QED BY <1>5, <1>6, MovesHeap

\* A line is written back by itself.
LEMMA EvictHeap ==
    ASSUME AInv, IInv', Evict
    PROVE  AInv' /\ (Heap!Effect \/ UNCHANGED Heap!vars)
<1>1. /\ "power" \in failures /\ UNCHANGED <<mem, failures, call, up>>
      /\ survivor = pm /\ survivor' = pm'
  BY DEF Evict, survivor
<1>2. PICK m, v, k, x : m = mem /\ v = pm /\ k = call /\ x = Pending(todo)
  OBVIOUS
<1>3. /\ Typed(m) /\ Sound(m) /\ Typed(v) /\ Sound(v) /\ Dirty(m, v, x)
      /\ Cells(m) = Cells(v) \/ HeapEffect(k, Cells(v), Cells(m))
  BY <1>1, <1>2, StateFacts DEF AInv, Medium, Faithful, Moves
<1>4. Cells(pm') \in {Cells(v), Cells(m)}
  <2>1. CASE pm' = pm
    BY <1>2, <2>1
  <2>2. CASE \E a \in DOMAIN mem : pm' = [pm EXCEPT ![a] = mem[a]]
    <3>1. PICK a \in DOMAIN mem : pm' = [pm EXCEPT ![a] = mem[a]]
      BY <2>2
    <3>2. PICK u : u = [v EXCEPT ![a] = m[a]]
      OBVIOUS
    <3>3. a \in DOMAIN m /\ u = pm'
      BY <1>2, <3>1, <3>2
    <3>4. Cells(u) \in {Cells(v), Cells(m)}
      BY ONLY <1>3, <3>2, <3>3, WrittenCells
    <3> QED BY <3>3, <3>4
  <2> QED BY <2>1, <2>2 DEF Evict
<1>5. Moves(v, pm', k) /\ Moves(pm', m, k)
  BY <1>3, <1>4 DEF Moves
<1>6. AInv' /\ Moves(survivor, survivor', call)
  BY <1>1, <1>2, <1>5 DEF AInv, Faithful
<1> QED BY <1>1, <1>6, MovesHeap

\* The program writes to a block that is not in use yet.
LEMMA FillHeap ==
    ASSUME AInv, IInv', NEW c \in Chunk, Fill(c)
    PROVE  AInv' /\ UNCHANGED Heap!vars
<1>1. Idle /\ UNCHANGED <<pm, up, failures, call, todo>>
  BY DEF Fill
<1>2. todo = <<>>
  BY <1>1, IdleFacts DEF AInv
<1>3. PICK m, v, w, u : m = mem /\ v = survivor /\ w = mem' /\ u = survivor'
  OBVIOUS
<1>4. Medium(m, v, <<>>) /\ Medium(w, u, <<>>)
  <2>1. Medium(mem', survivor', todo')
    BY DEF IInv, Agreed
  <2> QED BY <1>1, <1>2, <1>3, <2>1, StateFacts DEF AInv
<1>5. Cells(v) = Cells(m) /\ Cells(u) = Cells(w) /\ \A k : Faithful(w, u, k)
  BY <1>4, DurableCells
<1>6. Cells(u) = Cells(v)
  <2>1. CASE "power" \in failures
    BY <1>1, <1>3, <2>1 DEF survivor
  <2>2. CASE "power" \notin failures
    <3>1. PICK a, fl, dr, n : a = asked /\ fl = filled /\ dr = dropped /\ n = asked[c]
      OBVIOUS
    <3>2. /\ Typed(m) /\ Sound(m) /\ Quiet(m) /\ Medium(m, v, <<>>)
          /\ Promised(m, NoCall, a, fl, dr, TRUE)
          /\ c \in Chunk /\ n = a[c] /\ n # 0 /\ w = FilledWith(m, c, n)
      BY <1>1, <1>3, <1>4, <3>1, IdleFacts DEF AInv, Quiet, Fill, FilledWith
    <3>3. Medium(w, v, <<>>)
      BY ONLY <3>2, FilledIs
    <3>4. Cells(v) = Cells(w)
      BY <3>3, DurableCells
    <3> QED BY <1>5, <3>4
  <2> QED BY <2>1, <2>2
<1>7. AInv'
  BY <1>1, <1>3, <1>5 DEF AInv
<1>8. InUse(u) = InUse(v)
  <2>1. Typed(v) /\ Sound(v) /\ Typed(u) /\ Sound(u)
    BY <1>4 DEF Medium
  <2> QED BY <1>6, <2>1, SoundLeaks
<1> QED BY <1>1, <1>3, <1>6, <1>7, <1>8, HeapStays

-----------------------------------------------------------------------------
(* The calls of the program and the durable heap *)

\* The program enters a call other than pmemalloc_activate and pmemalloc_free
\* of a block in use, opens the pool, or does nothing.
LEMMA SilentHeap ==
    ASSUME AInv, UNCHANGED <<media, failures, up>>, Seen(call)' = Seen(call),
           call' = call \/ todo = <<>>
    PROVE  (IInv' => AInv') /\ UNCHANGED Heap!vars
<1>1. mem' = mem /\ survivor' = survivor
  BY DEF media, survivor
<1>2. Faithful(mem, survivor, call')
  BY StateFacts DEF AInv
<1> QED BY <1>1, <1>2, HeapStays DEF AInv

LEMMA EnterHeap ==
    ASSUME AInv, IInv', Idle, NEW op, op \notin {"activate", "free"}, NEW c, NEW S, NEW n, NEW t,
           Enter(op, c, S, n, t)
    PROVE  AInv' /\ UNCHANGED Heap!vars
<1>1. /\ call' = [op |-> op, block |-> c, cells |-> S, n |-> n]
      /\ UNCHANGED <<media, failures, up>>
  BY DEF Enter
<1>2. call = NoCall /\ todo = <<>>
  BY StateFacts DEF AInv, Idle
<1>3. Seen(call)' = Seen(call)
  BY <1>1, <1>2 DEF Seen, NoCall
<1> QED BY <1>1, <1>2, <1>3, SilentHeap

\* The process ends, and what is durable stays.
LEMMA GoneHeap ==
    ASSUME AInv, IInv', up' = FALSE, call' = NoCall, todo' = <<>>, survivor' = survivor
    PROVE  AInv' /\ Heap!Fail
<1>1. Faithful(mem, survivor, call)'
  <2>1. Medium(mem', survivor', <<>>)
    BY DEF IInv, Agreed
  <2> QED BY <2>1, DurableCells
<1>2. Seen(call)' = [op |-> "none", block |-> NULL, cells |-> {}]
  BY DEF Seen, NoCall
<1> QED BY <1>1, <1>2 DEF AInv, Heap!Fail, Heap!NoCall, Seen

LEMMA OpenHeap ==
    ASSUME AInv, IInv', InitPool
    PROVE  AInv' /\ UNCHANGED Heap!vars
<1>1. /\ call = NoCall /\ call' = [NoCall EXCEPT !.op = "init"]
      /\ UNCHANGED <<media, failures, up>>
  BY DEF InitPool
<1>2. todo = <<>>
  BY <1>1, StateFacts DEF AInv
<1>3. Seen(call)' = Seen(call)
  BY <1>1 DEF Seen, NoCall
<1> QED BY <1>1, <1>2, <1>3, SilentHeap

LEMMA FatalHeap ==
    ASSUME AInv, IInv', NEW why, Fatal(why)
    PROVE  AInv' /\ Heap!Fail
<1>1. survivor' = survivor
  BY DEF Fatal, media, survivor
<1> QED BY <1>1, GoneHeap DEF Fatal

LEMMA EndsHeap ==
    ASSUME AInv, IInv', Exit \/ Kill \/ PowerFailure
    PROVE  AInv' /\ Heap!Fail
<1>1. ProcessEnds
  BY DEF Exit, Kill, PowerFailure
<1>2. survivor' = survivor
  BY <1>1 DEF Exit, Kill, PowerFailure, ProcessEnds, media, survivor
<1> QED BY <1>1, <1>2, GoneHeap DEF ProcessEnds

\* pmemalloc_activate is called: no pointer is to the block, and those it
\* shall have are empty.
LEMMA ActivateHeap ==
    ASSUME AInv, IInv', NEW c \in Chunk, Activate(c)
    PROVE  AInv' /\ \E S \in SUBSET Cell : Heap!CallActivate(c, S)
<1>1. /\ Idle /\ c \in filled /\ OnList(mem[c]) # {} /\ UNCHANGED <<media, failures, up>>
      /\ call' = [op |-> "activate", block |-> c, cells |-> Named(mem[c]), n |-> 0]
  BY DEF Activate, Enter
<1>2. /\ up /\ call = NoCall /\ todo = <<>> /\ MediumOK(mem) /\ Calm(mem)
  BY <1>1, IdleFacts DEF AInv
<1>3. PICK S : S = Named(mem[c])
  OBVIOUS
<1>4. ListSets(mem, c, c, {NULL}) /\ mem[c].state = "RESERVED"
  BY <1>1, HoldingFacts DEF AInv
<1>5. S \subseteq Cell /\ S # {} /\ \A d \in S : mem[d] = NULL
  <2>1. PICK m : m = mem OBVIOUS
  <2>2. MediumOK(m) /\ c \in Chunk /\ ListSets(m, c, c, {NULL}) BY <1>2, <1>4, <2>1
  <2>3. Named(m[c]) \subseteq Cell /\ \A d \in Named(m[c]) : \E i \in OnList(m[c]) : m[c].off[i] = d
    BY ONLY <2>2, NamedCells
  <2>4. Named(m[c]) # {} BY <1>1, <2>1 DEF Named
  <2> QED BY <1>3, <2>1, <2>2, <2>3, <2>4 DEF ListSets
<1>6. \A d \in S : Cells(survivor)[d] = NULL
  BY <1>2, <1>5, RestCells DEF AInv
<1>7. c \notin InUse(survivor)
  <2>1. \A d \in Cell : mem[d] # c
    BY <1>1, <1>4, Constants, HoldingFacts DEF AInv
  <2> QED BY <1>2, <2>1, RestCells DEF AInv
<1>8. mem' = mem /\ survivor' = survivor
  BY <1>1 DEF media, survivor
<1>9. AInv'
  BY <1>2, <1>8, StateFacts DEF AInv
<1>10. Heap!CallActivate(c, S)
  BY <1>1, <1>2, <1>3, <1>5, <1>6, <1>7, <1>8 DEF Heap!CallActivate, Heap!NoCall, NoCall
<1> QED BY <1>5, <1>9, <1>10

\* pmemalloc_free is called: the block is in use.
LEMMA FreeHeap ==
    ASSUME AInv, IInv', NEW c \in Chunk, Free(c)
    PROVE  AInv' /\ (Heap!CallFree(c) \/ UNCHANGED Heap!vars)
<1> DEFINE holders == {d \in Cell : mem[d] = c}
<1>1. CASE Enter("discard", c, {}, 0, FreeSteps(c))
  <2>1. Idle
    BY DEF Free
  <2> QED BY <1>1, <2>1, EnterHeap
<1>2. CASE holders # {} /\ Enter("free", c, holders, 0, FreeSteps(c))
  <2>1. /\ Idle /\ UNCHANGED <<media, failures, up>>
        /\ call' = [op |-> "free", block |-> c, cells |-> holders, n |-> 0]
    BY <1>2 DEF Free, Enter
  <2>2. up /\ call = NoCall /\ todo = <<>> /\ Calm(mem)
    BY <2>1, IdleFacts DEF AInv
  <2>3. /\ \A d \in Cell : Cells(survivor)[d] = mem[d]
        /\ InUse(survivor) = {mem[d] : d \in Cell} \ {NULL}
    BY <2>2, RestCells DEF AInv
  <2>4. c \in InUse(survivor)
    BY <1>2, <2>3, Constants
  <2>5. holders = {d \in Cell : Cells(survivor)[d] = c}
    BY <2>3
  <2>6. mem' = mem /\ survivor' = survivor
    BY <2>1 DEF media, survivor
  <2>7. AInv'
    BY <2>2, <2>6, StateFacts DEF AInv
  <2> HIDE DEF holders
  <2>8. Heap!CallFree(c)
    BY <2>1, <2>2, <2>4, <2>5, <2>6 DEF Heap!CallFree, Heap!Holding, Heap!NoCall, NoCall
  <2> QED BY <2>7, <2>8
<1> QED BY <1>1, <1>2 DEF Free

\* A call returns.
LEMMA ReturnHeap ==
    ASSUME AInv, IInv', Return
    PROVE  AInv' /\ (Heap!Return \/ Heap!Start \/ UNCHANGED Heap!vars)
<1>1. /\ call # NoCall /\ todo = <<>> /\ call' = NoCall /\ up' = TRUE
      /\ UNCHANGED <<media, failures>>
  BY DEF Return
<1>2. mem' = mem /\ survivor' = survivor
  BY <1>1 DEF media, survivor
<1>3. AInv'
  BY <1>1, <1>2, StateFacts DEF AInv
<1>4. Seen(call)' = [op |-> "none", block |-> NULL, cells |-> {}]
  BY <1>1 DEF Seen, NoCall
<1>5. PICK m, v, k, a, fl, dr : m = mem /\ v = survivor /\ k = call /\ a = asked /\ fl = filled
                                /\ dr = dropped
  OBVIOUS
<1>6. /\ Typed(m) /\ Sound(m)
      /\ Course(m, v, <<>>, k, a, fl, dr, up, file, durableFile)
  BY <1>1, <1>5, StateFacts DEF AInv, IInv, Agreed
<1>7. CASE k.op = "activate"
  <2>1. InActivate(m, <<>>, k, a, fl, dr) /\ k.block \in Chunk /\ up
    BY <1>6, <1>7 DEF Course, UserCalls
  <2>2. Quiet(m) /\ k.block \in Clumps(m) /\ m[k.block].state = "ACTIVE"
    BY ONLY <1>6, <2>1, ReturnedEffect
  <2>3. k.block \in InUse(v)
    <3>1. Typed(v) /\ Sound(v) /\ Cells(v) = Cells(m)
      BY <1>1, <1>5, StateFacts DEF AInv
    <3>2. InUse(v) = InUse(m)
      BY <1>6, <3>1, SoundLeaks
    <3> QED BY <2>2, <3>2 DEF InUse
  <2> QED BY <1>1, <1>2, <1>3, <1>4, <1>5, <1>7, <2>1, <2>3 DEF Heap!Return, Heap!NoCall, Seen
<1>8. CASE k.op = "free"
  <2>1. InFree(m, <<>>, k, a) /\ k.block \in Chunk /\ up
    BY <1>6, <1>8 DEF Course, UserCalls
  <2>2. Quiet(m) /\ \A d \in Cell : m[d] # k.block
    BY ONLY <1>6, <2>1, ReturnedEffect
  <2>3. k.block \notin InUse(v)
    BY <1>1, <1>5, <2>2, RestCells DEF AInv, Quiet
  <2> QED BY <1>1, <1>2, <1>3, <1>4, <1>5, <1>8, <2>1, <2>3 DEF Heap!Return, Heap!NoCall, Seen
<1>9. CASE k.op \notin {"activate", "free"}
  <2>1. Seen(call)' = Seen(call)
    BY <1>4, <1>5, <1>9 DEF Seen
  <2>2. CASE up
    <3>1. UNCHANGED up
      <4>1. up \in BOOLEAN BY DEF AInv, IInv, Agreed
      <4> QED BY <1>1, <2>2, <4>1
    <3> QED BY <1>1, <1>3, <2>1, <3>1, SilentHeap
  <2>3. CASE ~up
    BY <1>1, <1>2, <1>3, <2>1, <2>3 DEF Heap!Start, Seen
  <2> QED BY <2>2, <2>3
<1> QED BY <1>7, <1>8, <1>9

\* A new pool is an empty heap.
LEMMA HeapInit ==
    ASSUME Init, OneKindFails
    PROVE  AInv /\ Heap!Init
<1>1. IInv
  BY InvInit
<1>2. survivor = mem /\ todo = <<>> /\ call = NoCall /\ up = FALSE
  BY DEF Init, survivor
<1>3. PICK m : m = mem
  OBVIOUS
<1>4. \A c \in Chunk : m[c].size = 0
  BY <1>3, Constants DEF Init, Blank
<1>5. \A d \in Cell : m[d] = NULL
  BY <1>3, Constants DEF Init
<1>6. Typed(m) /\ Sound(m)
  BY <1>1, <1>3, StateFacts
<1>7. Clumps(m) = {}
  <2>1. Clumps(m) \subseteq Chunk
    BY <1>6, TiledFacts DEF Typed, Sound
  <2> QED BY <1>4, <2>1 DEF Clumps
<1>8. Calm(m)
  BY <1>7 DEF Calm, InTransit
<1>9. /\ \A d \in Cell : Cells(survivor)[d] = NULL
      /\ InUse(survivor) = {}
  <2>1. InUse(m) = {}
    BY <1>7 DEF InUse
  <2> QED BY <1>1, <1>2, <1>3, <1>5, <1>8, <2>1, RestCells
<1>10. Cells(survivor) = [d \in Cell |-> NULL]
  <2>1. Cells(survivor) = [d \in Cell |-> Cells(survivor)[d]]
    BY CellsDomain
  <2> QED BY <1>9, <2>1
<1>11. AInv
  BY <1>1, <1>2, StateFacts DEF AInv
<1> QED BY <1>2, <1>9, <1>10, <1>11 DEF Heap!Init, Heap!NoCall, NoCall

\* Every step of the allocator is one of the durable heap, or leaves it alone.
LEMMA HeapNext ==
    ASSUME AInv, [Next]_vars
    PROVE  AInv' /\ (Heap!Next \/ UNCHANGED Heap!vars)
<1>0. IInv'
  BY InvNext DEF AInv
<1>1. CASE InitPool
  BY <1>0, <1>1, OpenHeap
<1>2. ASSUME NEW n \in Request, Reserve(n) PROVE AInv' /\ (Heap!Fail \/ UNCHANGED Heap!vars)
  <2>1. CASE Fatal("no clumps found")
    BY <1>0, <2>1, FatalHeap
  <2>2. ASSUME NEW c \in Chunk, Enter("reserve", c, {}, n, ReserveSteps(c, n))
        PROVE  AInv' /\ UNCHANGED Heap!vars
    BY <1>0, <1>2, <2>2, EnterHeap DEF Reserve
  <2> QED BY <1>2, <2>1, <2>2 DEF Reserve
<1>3. ASSUME NEW c \in Chunk, Fill(c) PROVE AInv' /\ UNCHANGED Heap!vars
  BY <1>0, <1>3, FillHeap
<1>4. ASSUME NEW c \in Chunk, Activate(c)
      PROVE  AInv' /\ \E S \in SUBSET Cell : Heap!CallActivate(c, S)
  BY <1>0, <1>4, ActivateHeap
<1>5. ASSUME NEW c \in Chunk, Free(c) PROVE AInv' /\ (Heap!CallFree(c) \/ UNCHANGED Heap!vars)
  BY <1>0, <1>5, FreeHeap
<1>6. ASSUME NEW c \in Chunk, NEW d \in Cell, OnActive(c, d)
      PROVE  AInv' /\ (Heap!Fail \/ UNCHANGED Heap!vars)
  <2>1. CASE Fatal("exceeded onactive limit")
    BY <1>0, <2>1, FatalHeap
  <2>2. ASSUME NEW i \in Slot, Enter("onactive", c, {d}, 0, AddOn(c, i, d, c))
        PROVE  AInv' /\ UNCHANGED Heap!vars
    BY <1>0, <1>6, <2>2, EnterHeap DEF OnActive
  <2> QED BY <1>6, <2>1, <2>2 DEF OnActive, FreeSlot
<1>7. ASSUME NEW d \in Cell, OnFree(d) PROVE AInv' /\ (Heap!Fail \/ UNCHANGED Heap!vars)
  <2>1. CASE Fatal("exceeded onfree limit")
    BY <1>0, <2>1, FatalHeap
  <2>2. ASSUME NEW i \in Slot, Enter("onfree", mem[d], {d}, 0, AddOn(mem[d], i, d, NULL))
        PROVE  AInv' /\ UNCHANGED Heap!vars
    BY <1>0, <1>7, <2>2, EnterHeap DEF OnFree
  <2> QED BY <1>7, <2>1, <2>2 DEF OnFree, FreeSlot
<1>8. CASE Return
  BY <1>0, <1>8, ReturnHeap DEF Heap!Next
<1>9. CASE Store \/ Flush \/ FileStep
  BY <1>0, <1>9, StoringHeap DEF Heap!Next
<1>10. CASE Scan
  BY <1>0, <1>10, SilentHeap DEF Scan, Seen
<1>11. CASE Evict
  BY <1>0, <1>11, EvictHeap DEF Heap!Next
<1>12. CASE Exit \/ Kill \/ PowerFailure
  BY <1>0, <1>12, EndsHeap DEF Heap!Next
<1>13. CASE UNCHANGED vars
  BY <1>0, <1>13, SilentHeap DEF vars, Seen
<1> QED BY <1>1, <1>2, <1>3, <1>4, <1>5, <1>6, <1>7, <1>8, <1>9, <1>10, <1>11, <1>12, <1>13
        DEF Next, Step, Heap!Next

-----------------------------------------------------------------------------
(* Stores that miss the blocks *)

\* What another clump takes, and a header, is not behind the header of c.
LEMMA Elsewhere ==
    ASSUME NEW m, Typed(m), Tiled(m), NEW c \in Clumps(m), NEW n \in Nat, n <= m[c].size,
           NEW j \in 1..(n - 1)
    PROVE  /\ c + j \in Chunk /\ c \in Chunk /\ c + j \notin Walk(m)
           /\ \A b \in Clumps(m) \ {c}, x \in Chunk : b <= x /\ x < b + m[b].size => x # c + j
<1>1. /\ c \in Walk(m) /\ c \in Chunk /\ m[c].size \in Nat /\ c + m[c].size <= LastClump
      /\ Walk(m) \subseteq Chunk /\ Clumps(m) \subseteq Walk(m)
      /\ \A x, y \in Walk(m) : x < y => x \in Clumps(m) /\ x + m[x].size <= y
      /\ \A b \in Clumps(m) : b \in Chunk /\ m[b].size \in Nat \ {0}
  BY TiledFacts, Constants DEF Typed, Goes
<1>2. j \in Nat /\ 0 < j /\ j < m[c].size /\ LastClump \in Nat /\ Chunk = 0..LastClump
  BY <1>1, Constants
<1>3. c + j \in Chunk
  BY <1>1, <1>2
<1>4. \A x \in Walk(m) : x # c + j
  <2>1. ASSUME NEW x \in Walk(m) PROVE x # c + j
    <3>1. x \in Nat /\ c \in Nat /\ (c < x => c + m[c].size <= x)
      BY <1>1, <1>2
    <3> QED BY <1>1, <1>2, <3>1
  <2> QED BY <2>1
<1>5. ASSUME NEW b \in Clumps(m) \ {c}, NEW x \in Chunk, b <= x, x < b + m[b].size
      PROVE  x # c + j
  <2>1. b \in Nat /\ c \in Nat /\ x \in Nat /\ m[b].size \in Nat /\ b # c
    BY <1>1, <1>2
  <2>2. (c < b => c + m[c].size <= b) /\ (b < c => b + m[b].size <= c)
    BY <1>1
  <2> QED BY <1>1, <1>2, <1>5, <2>1, <2>2
<1> QED BY <1>1, <1>3, <1>4, <1>5

\* Such a store leaves what a clump that is not free holds, and its size.
LEMMA AimedMisses ==
    ASSUME NEW m, Typed(m), Sound(m), NEW o \in Ops, o.do \in Stores, Aimed(m, o),
           NEW w, w = Effect(m, o),
           NEW c \in Clumps(m), m[c].state # "FREE", NEW n \in Nat, n <= m[c].size
    PROVE  w[c].size = m[c].size /\ \A j \in 1..(n - 1) : w[c + j] = m[c + j] /\ c + j # o.at
<1>1. Tiled(m) /\ DOMAIN m = Chunk \union Cell \union {HDR} /\ c \in Chunk
      /\ Clumps(m) \subseteq Walk(m) /\ Walk(m) \subseteq Chunk
  BY MediumFacts, TiledFacts DEF Typed, Sound
<1>2. \A x \in DOMAIN m \ {o.at} : w[x] = m[x]
  BY EffectTyped
<1>3. \A j \in 1..(n - 1) : c + j # o.at
  <2> SUFFICES ASSUME NEW j \in 1..(n - 1) PROVE c + j # o.at
    OBVIOUS
  <2>1. /\ c + j \in Chunk /\ c + j \notin Walk(m)
        /\ \A b \in Clumps(m) \ {c}, x \in Chunk : b <= x /\ x < b + m[b].size => x # c + j
    BY <1>1, Elsewhere
  <2> QED BY <1>1, <2>1 DEF Aimed
<1>4. \A j \in 1..(n - 1) : c + j \in DOMAIN m
  BY <1>1, Elsewhere
<1>5. w[c].size = m[c].size
  <2>1. CASE o.at # c
    BY <1>1, <1>2, <2>1
  <2>2. CASE o.at = c
    <3>1. o.do # "blank" /\ (o.do = "size" => o.size = m[c].size)
      <4>1. ASSUME NEW b \in Clumps(m), m[b].state = "FREE", b <= c, c < b + m[b].size PROVE FALSE
        <5>1. b \in Chunk /\ b # c /\ c \in Walk(m) /\ b \in Walk(m)
          BY <4>1, <1>1
        <5>2. b < c => b + m[b].size <= c
          BY <5>1, <1>1, TiledFacts DEF Typed
        <5>3. m[b].size \in Nat
          BY <4>1, <1>1, TiledFacts DEF Typed
        <5> QED BY <4>1, <5>1, <5>2, <5>3, <1>1, Constants
      <4> QED BY <2>2, <4>1, <1>1 DEF Aimed
    <3>2. o.do # "cell"
      BY <2>2, <1>1, Constants DEF Ops, Persists, SizeOps, OffOps, PtrOps, CellOps, ScanOps, BlankOps,
                                    FileOps, Magic, CellOp
    <3>3. w[c] = WrittenTo(m, o)
      BY <1>1, <2>2 DEF Effect
    <3>4. m[c] \in Line
      BY <1>1, MediumFacts DEF Typed
    <3> QED BY <2>2, <3>1, <3>2, <3>3, <3>4 DEF WrittenTo, Stores, Line
  <2> QED BY <2>1, <2>2
<1> QED BY <1>2, <1>3, <1>4, <1>5

\* Stores to the header of a clump, and steps that store nothing.
LEMMA AimedHeader ==
    ASSUME NEW m, Typed(m), Sound(m), NEW c \in Clumps(m), NEW o,
           o \in Persists \union Resets(c)
    PROVE  o.do \in Stores => Aimed(m, o)
BY DEF Aimed, Persists, Resets, Clears, ClearOp, Stores

LEMMA AimedFinishing ==
    ASSUME NEW m, Typed(m), Sound(m), NEW c, NEW rest \in Flow, NEW s, Finishing(m, s, c, rest)
    PROVE  Head(s).do \in Stores => Aimed(m, Head(s))
<1>0. c \in Clumps(m) /\ c \in Chunk /\ Tiled(m)
  BY TiledFacts DEF Finishing, Executing, Clearing, InTransit, Sound, Typed
<1>1. PICK e : e = Ending(m, c, rest)
  OBVIOUS
<1>2. /\ e \in Seq(Ops) /\ e # <<>>
      /\ Head(e) = [do |-> "size", at |-> c, size |-> m[c].size, state |-> FinalOf(m, c)]
  BY <1>0, <1>1, EndingIs DEF Flow
<1>3. Aimed(m, Head(e))
  BY <1>0, <1>2 DEF Aimed
<1>4. \A o \in Persists \union Clears(c) : o.do \in Stores => Aimed(m, o)
  BY <1>0, AimedHeader DEF Resets
<1>5. CASE Clearing(m, s, c, rest)
  <2>1. PICK q \in Seq(Clears(c) \union Persists) : s = q \o e
    BY <1>1, <1>5 DEF Clearing
  <2>2. s # <<>> /\ Head(s) \in Clears(c) \union Persists \union {Head(e)}
    BY <2>1, <1>2, HeadOf
  <2> QED BY <2>2, <1>3, <1>4
<1>6. CASE Executing(m, s, c, rest)
  <2>1. PICK q \in Seq(Links(m[c], Target(m, c)) \union Persists) : s = q \o (ClearOn(c) \o e)
    BY <1>1, <1>6 DEF Executing
  <2>2. PICK l : l = ClearOn(c)
    OBVIOUS
  <2>3. l \in Seq(Clears(c) \union Persists) /\ l \in Seq(Ops)
    BY <2>2, <1>0, ClearIs DEF Flow
  <2>4. PICK r : r = l \o e
    OBVIOUS
  <2>5. r # <<>> /\ Head(r) \in Clears(c) \union Persists \union {Head(e)}
    BY <2>3, <2>4, <1>2, HeadOf
  <2>6. r \in Seq(Ops)
    BY <2>3, <2>4, <1>2
  <2>7. s # <<>> /\ Head(s) \in Links(m[c], Target(m, c)) \union Persists \union {Head(r)}
    BY <2>1, <2>2, <2>4, <2>5, <2>6, HeadOf
  <2>8. \A o \in Links(m[c], Target(m, c)) : Aimed(m, o)
    <3>1. Named(m[c]) \subseteq Cell
      BY <1>0, NamedCells DEF Typed
    <3>2. \A d \in Cell : d \notin Chunk
      BY Constants
    <3> QED BY <3>1, <3>2 DEF Links, CellOp, Aimed
  <2> QED BY <2>5, <2>7, <2>8, <1>3, <1>4
<1> QED BY <1>5, <1>6 DEF Finishing

LEMMA AimedStarting ==
    ASSUME NEW m, Typed(m), Sound(m), NEW c, NEW st, Ready(m, c, st), NEW rest \in Flow, NEW s,
           Starting(m, s, c, st, rest)
    PROVE  Head(s).do \in Stores => Aimed(m, Head(s))
<1> DEFINE r == PutSize(c, m[c].size, st) \o Way(m[c], c, st, rest)
<1>1. r \in Seq(Ops) /\ Way(m[c], c, st, rest) \in Seq(Ops)
  BY WayIs DEF Flow
<1>2. PICK o : o = [do |-> "size", at |-> c, size |-> m[c].size, state |-> st]
  OBVIOUS
<1>3. PutSize(c, m[c].size, st) = <<o>>
  BY <1>2 DEF PutSize
<1>4. r # <<>> /\ Head(r) = o
  BY <1>1, <1>3, OneStep
<1> HIDE DEF r
<1>5. PICK q \in Seq(Persists) : s = q \o r
  BY DEF Starting, r
<1>6. Head(s) \in Persists \union {Head(r)}
  BY <1>1, <1>4, <1>5, HeadOf
<1>7. c \in Clumps(m) /\ Aimed(m, o)
  BY <1>2 DEF Aimed, Ready
<1> QED BY <1>4, <1>6, <1>7, AimedHeader

LEMMA AimedCoalescing ==
    ASSUME NEW m, Typed(m), Sound(m), NEW s, Coalescing(m, s), s # <<>>, Head(s).do # "coalesce"
    PROVE  Head(s).do \in Stores => Aimed(m, Head(s))
<1>1. ASSUME NEW c \in Chunk, Scanning(m, s, c) PROVE Head(s).do \notin Stores
  <2>1. Head(s) \in Persists \/ Head(s) = [do |-> "coalesce", at |-> c]
    BY <1>1, ScanningStep
  <2>2. Head(s) \in Persists
    BY <2>1
  <2> QED BY <2>2 DEF Persists, Stores
<1>2. ASSUME NEW c \in Chunk, NEW e \in Chunk, Uniting(m, s, c, e) PROVE Aimed(m, Head(s))
  <2> DEFINE o == [do |-> "size", at |-> c, size |-> e - c, state |-> "FREE"]
             r == Persist(c) \o Do("coalesce", e)
  <2>1. r \in Seq(Ops)
    <3>1. Persist(c) \in Seq(Ops) /\ Do("coalesce", e) \in Seq(Ops)
      BY PersistIs, ScanIs DEF Flow
    <3> QED BY <3>1
  <2>2. s = <<o>> \o r
    BY <1>2 DEF Uniting, PutSize
  <2>3. Head(s) = o
    <3> HIDE DEF o, r
    <3> QED BY <2>1, <2>2, OneStep
  <2>4. c \in Walk(m) /\ e \in Walk(m) /\ c < e /\ \A b \in Clumps(m) : c <= b /\ b < e => m[b].state = "FREE"
    BY ONLY <1>2 DEF Uniting
  <2>5. c \in Clumps(m) /\ m[c].size \in Nat \ {0}
    BY <2>4, TiledFacts DEF Typed, Sound
  <2>6. m[c].state = "FREE" /\ c <= c /\ c < c + m[c].size
    BY <2>4, <2>5, Constants
  <2> QED BY <2>3, <2>5, <2>6 DEF Aimed
<1>3. ~Settled(m, s)
  BY DEF Settled
<1> QED BY <1>1, <1>2, <1>3 DEF Coalescing

LEMMA AimedAdding ==
    ASSUME NEW m, Typed(m), Sound(m), NEW c \in Clumps(m), NEW d \in Cell,
           NEW p \in Chunk \union {NULL}, NEW s, s # <<>>, Adding(m, s, c, d, p)
    PROVE  Head(s).do \in Stores => Aimed(m, Head(s))
<1>0. c \in Chunk
  BY TiledFacts DEF Typed, Sound
<1>1. CASE s \in Seq(Persists) /\ d \in Named(m[c])
  <2>1. Head(s) \in Persists
    BY <1>1
  <2> QED BY <2>1, AimedHeader
<1>2. ASSUME NEW i \in Slot,
             \/ s = PutPtr(c, i, p) \o (Persist(c) \o (PutOff(c, i, d) \o Persist(c)))
             \/ \E q \in Seq(Persists) : s = q \o (PutOff(c, i, d) \o Persist(c))
      PROVE  Head(s).do \in Stores => Aimed(m, Head(s))
  <2> DEFINE r == PutOff(c, i, d) \o Persist(c)
  <2>1. r \in Seq(Ops) /\ r # <<>> /\ Head(r) = [do |-> "off", at |-> c, i |-> i, val |-> d]
    BY <1>0, AddingIs
  <2>2. CASE s = PutPtr(c, i, p) \o (Persist(c) \o r)
    <3>1. Head(s) = [do |-> "ptr", at |-> c, i |-> i, val |-> p]
      BY <1>0, <2>2, AddingIs
    <3> QED BY <3>1 DEF Aimed
  <2> HIDE DEF r
  <2>3. ASSUME NEW q \in Seq(Persists), s = q \o r PROVE Head(s).do \in Stores => Aimed(m, Head(s))
    <3>1. Head(s) \in Persists \union {Head(r)}
      BY <2>1, <2>3, HeadOf
    <3>2. Aimed(m, Head(r))
      BY <2>1 DEF Aimed
    <3> QED BY <3>1, <3>2, AimedHeader
  <2> QED BY <1>2, <2>2, <2>3 DEF r
<1> QED BY <1>1, <1>2 DEF Adding

LEMMA AimedReserving ==
    ASSUME NEW m, Typed(m), Sound(m), NEW c, NEW n \in Nat, 0 < n, NEW s, s # <<>>,
           Reserving(m, s, c, n)
    PROVE  Head(s).do \in Stores => Aimed(m, Head(s))
<1>0. c \in Clumps(m) /\ n <= m[c].size /\ Tiled(m) /\ c \in Chunk /\ m[c].size \in Nat \ {0}
  BY TiledFacts DEF Reserving, Sound, Typed
<1>1. /\ Taking(m, c, n) \in Seq(Ops) /\ Taking(m, c, n) # <<>>
      /\ Head(Taking(m, c, n)) =
            [do |-> "size", at |-> c, size |-> Portion(m, c, n), state |-> "RESERVED"]
  <2>1. /\ Taking(m, c, n) \in Flow /\ Taking(m, c, n) # <<>>
        /\ Head(Taking(m, c, n)) =
              [do |-> "size", at |-> c, size |-> Portion(m, c, n), state |-> "RESERVED"]
    <3>1. /\ Typed(m) /\ Tiled(m) /\ c \in Clumps(m)
          /\ n \in Nat /\ n <= m[c].size /\ 0 < n
      BY <1>0
    <3> QED BY ONLY <3>1, PlacingIs
  <2>2. Taking(m, c, n) \in Seq(Ops)
    BY ONLY <2>1 DEF Flow
  <2> QED BY <2>1, <2>2
<1>2. CASE /\ m[c].state = "FREE" /\ m[c].size - n >= 2
           /\ s = Do("blank", c + n) \o Placing(m, c, n) \/ s = Placing(m, c, n)
  <2>1. Head(s).at = c + n /\ Head(s).do \in {"size", "blank"}
    <3>1. /\ Head(Placing(m, c, n)) =
                [do |-> "size", at |-> c + n, size |-> m[c].size - n, state |-> "FREE"]
          /\ Head(Do("blank", c + n) \o Placing(m, c, n)) = [do |-> "blank", at |-> c + n]
      BY <1>0, <1>2, PlacingIs
    <3> QED BY <3>1, <1>2
  <2>2. c <= c + n /\ c + n < c + m[c].size
    BY <1>0, <1>2, Constants
  <2> QED BY <1>0, <1>2, <2>1, <2>2 DEF Aimed
<1>3. ASSUME NEW q \in Seq(Resets(c) \union Persists), s = q \o Taking(m, c, n), m[c].state = "FREE"
      PROVE  Head(s).do \in Stores => Aimed(m, Head(s))
  <2>1. Head(s) \in Resets(c) \union Persists \union {Head(Taking(m, c, n))}
    BY <1>1, <1>3, HeadOf
  <2>2. c <= c /\ c < c + m[c].size
    BY <1>0, Constants
  <2>3. Aimed(m, Head(Taking(m, c, n)))
    BY <1>0, <1>1, <1>3, <2>2 DEF Aimed
  <2> QED BY <2>1, <2>3, <1>0, AimedHeader
<1>4. CASE s \in Seq(Persists)
  <2>1. Head(s) \in Persists
    BY <1>4
  <2> QED BY <2>1, <1>0, AimedHeader
<1> QED BY <1>2, <1>3, <1>4 DEF Reserving

LEMMA AimedOpening ==
    ASSUME NEW m, NEW v, NEW s, Medium(m, v, s), s # <<>>, Head(s).do \notin ScanHead,
           NEW k, NEW f, NEW df, Opening(m, v, s, k, f, df)
    PROVE  Head(s).do \in Stores => Aimed(m, Head(s))
<1>0. Typed(m) /\ Sound(m) /\ Tiled(m) /\ MediumOK(m) /\ s \in Seq(Ops)
  BY StoreTyped DEF Sound, Typed
<1>1. ASSUME NEW c \in Chunk, Recovering(m, s, c) PROVE Head(s).do \notin Stores
  <2>1. PICK q \in Seq(Persists) : s = q \o RecoverFrom(c)
    BY ONLY <1>1 DEF Recovering
  <2>2. PICK r : r = RecoverFrom(c)
    OBVIOUS
  <2>3. r \in Seq(Ops) /\ r # <<>> /\ Head(r).do = "recover"
    BY <2>2, RecoverFromIs
  <2>4. Head(q \o r) \in Persists \union {Head(r)}
    BY ONLY <2>1, <2>3, HeadOf
  <2> QED BY ONLY <2>1, <2>2, <2>3, <2>4 DEF Persists, Stores
<1>2. ASSUME NEW c \in Chunk, RecoveringAt(m, s, c) PROVE Head(s).do \in Stores => Aimed(m, Head(s))
  <2>1. PICK rest : rest = RecoverFrom(c + m[c].size)
    OBVIOUS
  <2>2. Finishing(m, s, c, rest) /\ c + m[c].size \in Chunk
    BY <1>0, <1>2, <2>1, TiledFacts DEF RecoveringAt
  <2>3. rest \in Flow
    BY <2>1, <2>2, RecoverFromIs
  <2> QED BY <1>0, <2>2, <2>3, AimedFinishing
<1>3. CASE Coalescing(m, s)
  <2>1. Head(s).do # "coalesce"
    BY DEF ScanHead
  <2> QED BY <1>0, <1>3, <2>1, AimedCoalescing
<1>4. CASE Creating(m, v, s, f)
  <2>1. CASE m[0] = Whole /\ (s = Stamping \/ s = Syncing)
    <3>1. Head(s) = Magic \/ Head(s).do = "fsync"
      BY <2>1, MakingIs
    <3> QED BY <3>1, Constants DEF Magic, CellOp, Aimed, Stores
  <2>2. CASE m[0] = Blank /\ (s = Making \/ s = Allocating \/ s = Sizing)
    <3>1. Head(s).do \in {"creat", "fallocate"} \/ Head(s) = SizeOp0
      BY <2>2, MakingIs
    <3>2. m[0].size = 0 /\ \A d \in Cell : m[d] = NULL
      BY <2>2, <1>4 DEF Blank, Creating
    <3>3. Clumps(m) = {}
      BY <1>0, <3>2, SoundNew
    <3> QED BY <3>1, <3>3 DEF SizeOp0, Aimed, Stores
  <2> QED BY <2>1, <2>2, <1>4 DEF Creating
<1> QED BY <1>1, <1>2, <1>3, <1>4 DEF Opening, Mending

\* Every store of every call.
LEMMA CourseAimed ==
    ASSUME NEW m, NEW v, NEW s, Medium(m, v, s), s # <<>>, Head(s).do \notin ScanHead,
           NEW k, NEW a, NEW fl, NEW dr, NEW r \in BOOLEAN, NEW f, NEW df,
           Promised(m, k, a, fl, dr, r), Course(m, v, s, k, a, fl, dr, r, f, df)
    PROVE  Head(s).do \in Stores => Aimed(m, Head(s))
<1>0. Typed(m) /\ Sound(m) /\ Head(s).do # "coalesce"
  BY StoreTyped DEF ScanHead
<1> DEFINE c == k.block
<1>1. CASE k.op = "init"
  <2>1. Opening(m, v, s, k, f, df)
    BY <1>1 DEF Course
  <2> QED BY <2>1, AimedOpening
<1>2. ASSUME k.op \in UserCalls PROVE r = TRUE /\ c \in Chunk
  BY <1>2 DEF Course
<1>3. CASE k.op = "reserve"
  <2>1. InReserve(m, v, s, k, a)
    BY <1>3 DEF Course
  <2>2. PICK n : n = k.n
    OBVIOUS
  <2>3. n \in Nat /\ 0 < n /\ Reserving(m, s, c, n)
    BY <2>1, <2>2, RequestIs DEF InReserve
  <2> QED BY <1>0, <2>3, AimedReserving
<1>4. CASE k.op = "onactive"
  <2>1. InOnActive(m, s, k, a) /\ c \in Chunk
    BY <1>2, <1>4 DEF Course, UserCalls
  <2>2. a[c] # 0 /\ \E d \in Cell : Adding(m, s, c, d, c)
    BY <2>1 DEF InOnActive
  <2>3. c \in Clumps(m)
    BY <2>1, <2>2, <1>4 DEF Promised, Releasing, Reserved
  <2> QED BY <1>0, <2>1, <2>2, <2>3, AimedAdding
<1>5. CASE k.op = "onfree"
  <2>1. InOnFree(m, s, k) /\ c \in Chunk
    BY <1>2, <1>5 DEF Course, UserCalls
  <2>2. \E d \in Cell : m[d] = c /\ Adding(m, s, c, d, NULL)
    BY <2>1 DEF InOnFree
  <2>3. c \in Clumps(m)
    BY <2>1, <2>2, <1>0, Constants DEF Sound, PointersOK
  <2> QED BY <1>0, <2>2, <2>3, AimedAdding
<1>6. CASE k.op = "activate"
  <2>1. Activating(m, s, k, a)
    BY <1>6 DEF Course, InActivate
  <2>2. CASE Reserved(m, c, a[c]) /\ OnList(m[c]) # {} /\ Starting(m, s, c, "ACTIVATING", <<>>)
    <3>1. Ready(m, c, "ACTIVATING")
      BY <2>2 DEF Ready, Reserved
    <3> QED BY <1>0, <2>2, <3>1, FlowEmpty, AimedStarting
  <2>3. CASE Finishing(m, s, c, <<>>)
    BY <1>0, <2>3, FlowEmpty, AimedFinishing
  <2>4. CASE s \in Seq(Persists)
    <3>1. Head(s) \in Persists
      BY <2>4
    <3> QED BY <3>1 DEF Persists, Stores
  <2> QED BY <2>1, <2>2, <2>3, <2>4 DEF Activating
<1>7. CASE k.op = "free"
  <2>1. InFree(m, s, k, a)
    BY <1>7 DEF Course
  <2>2. CASE Ready(m, c, "FREEING") /\ Starting(m, s, c, "FREEING", Coalesce)
    BY <1>0, <2>2, CoalesceIs, AimedStarting
  <2>3. CASE Finishing(m, s, c, Coalesce)
    BY <1>0, <2>3, CoalesceIs, AimedFinishing
  <2>4. CASE Coalescing(m, s)
    BY <1>0, <2>4, AimedCoalescing
  <2> QED BY <2>1, <2>2, <2>3, <2>4 DEF InFree
<1>8. CASE k.op = "discard"
  <2>1. InDiscard(m, s, k, a)
    BY <1>8 DEF Course
  <2>2. CASE Clearing(m, s, c, Coalesce)
    <3>1. Finishing(m, s, c, Coalesce)
      BY <2>2 DEF Finishing
    <3> QED BY <1>0, <3>1, CoalesceIs, AimedFinishing
  <2>3. CASE Coalescing(m, s)
    BY <1>0, <2>3, AimedCoalescing
  <2> QED BY <2>1, <2>2, <2>3 DEF InDiscard
<1>9. k.op # "none"
  BY DEF Course, Between
<1> QED BY <1>1, <1>3, <1>4, <1>5, <1>6, <1>7, <1>8, <1>9 DEF Course, UserCalls

-----------------------------------------------------------------------------
(* What the blocks hold, in memory and on the medium *)

LEMMA InUseIs ==
    ASSUME NEW m, Typed(m), Sound(m)
    PROVE  \A c \in InUse(m) : c \in Clumps(m) /\ c \in Walk(m) /\ c \in Chunk /\ m[c].state # "FREE"
BY TiledFacts DEF InUse, Typed, Sound

\* Every request is for a header and some lines.
LEMMA HasInside ==
    ASSUME NEW m, Typed(m), Sound(m), NEW c \in Clumps(m), NEW n \in Request, n <= m[c].size
    PROVE  n \in Nat /\ \A j \in 1..(n - 1) : c + j \in Chunk
BY RequestIs, Elsewhere DEF Sound

\* A line is written back: a block in use is one that was, with its header, on
\* the medium or in memory.
LEMMA WrittenUse ==
    ASSUME NEW m, Typed(m), Sound(m), NEW v, Typed(v), Sound(v), NEW x, Dirty(m, v, x),
           NEW a \in DOMAIN m, NEW u, u = [v EXCEPT ![a] = m[a]], Typed(u), Sound(u)
    PROVE  UseFrom(u, v, m)
<1>1. u[a] = m[a] /\ \A b \in DOMAIN m \ {a} : u[b] = v[b]
  BY DEF Typed, MediumOK
<1>2. MediumOK(m) /\ MediumOK(v) /\ MediumOK(u)
  BY DEF Typed
<1>3. CASE x = a
  <2>1. Dirty(m, u, HDR)
    <3>1. \A b \in Relevant(m, v) \ {a} : v[b] = m[b]
      BY <1>3 DEF Dirty
    <3>2. Dirty(m, v, a)
      BY <1>3
    <3>3. \A y : Dirty(m, [v EXCEPT ![a] = m[a]], y)
      BY <3>2, WriteBack
    <3> QED BY <3>3
  <2>2. \A b \in Walk(m) \union Cell : u[b] = m[b]
    <3>1. Typed(m) /\ Sound(m) /\ Typed(u) /\ Sound(u) /\ Dirty(m, u, HDR)
      BY <2>1
    <3> QED BY ONLY <3>1, DirtyNowhere
  <2>3. Walk(u) = Walk(m) /\ Clumps(u) = Clumps(m)
    BY <2>2, <1>2, SoundSame
  <2> QED BY <2>2, <2>3, InUseIs DEF InUse, UseFrom
<1>4. CASE x # a
  <2>1. \A b \in Walk(v) \union Cell : u[b] = v[b]
    <3>1. a \in Relevant(m, v) => v[a] = m[a]
      BY <1>4 DEF Dirty
    <3>2. \A b \in Walk(v) \union Cell : b \in Relevant(m, v) /\ b \in DOMAIN m
      BY RelevantLines DEF Relevant, Typed, MediumOK
    <3> QED BY <3>1, <3>2, <1>1
  <2>2. Walk(u) = Walk(v) /\ Clumps(u) = Clumps(v)
    BY <2>1, <1>2, SoundSame
  <2> QED BY <2>1, <2>2, InUseIs DEF InUse, UseFrom
<1> QED BY <1>3, <1>4

LEMMA StoredBack ==
    ASSUME NEW m, Typed(m), Sound(m), NEW v, Typed(v), Sound(v), NEW x, Dirty(m, v, x),
           NEW a \in DOMAIN m, NEW u, u = [v EXCEPT ![a] = m[a]], Typed(u), Sound(u),
           Stored(m, m, v), Stored(v, m, v)
    PROVE  Stored(m, m, u) /\ Stored(u, m, u)
<1>0. /\ Typed(m) /\ Sound(m) /\ Typed(v) /\ Sound(v) /\ Dirty(m, v, x) /\ a \in DOMAIN m
      /\ u = [v EXCEPT ![a] = m[a]] /\ Typed(u) /\ Sound(u)
  OBVIOUS
<1>1. DOMAIN v = DOMAIN m /\ DOMAIN m = Chunk \union Cell \union {HDR}
      /\ \A y \in DOMAIN m : u[y] = v[y] \/ u[y] = m[y]
  BY MediumFacts DEF Typed
<1>2. ASSUME NEW y, Typed(y), Sound(y), NEW c \in InUse(y), NEW n \in Request, n <= y[c].size,
             Has(m, c, n), Has(v, c, n)
      PROVE  Has(u, c, n)
  <2>1. \A j \in 1..(n - 1) : c + j \in DOMAIN m
    BY <1>1, <1>2, InUseIs, HasInside
  <2> QED BY <2>1, <1>1, <1>2 DEF Has
<1>3. Stored(m, m, u)
  <2> SUFFICES ASSUME NEW c \in InUse(m)
               PROVE  \E n \in Request : n <= m[c].size /\ Has(m, c, n) /\ Has(u, c, n)
    BY DEF Stored
  <2>1. PICK n \in Request : n <= m[c].size /\ Has(m, c, n) /\ Has(v, c, n)
    BY DEF Stored
  <2> QED BY <2>1, <1>2
<1>4. Stored(u, m, u)
  <2> SUFFICES ASSUME NEW c \in InUse(u)
               PROVE  \E n \in Request : n <= u[c].size /\ Has(m, c, n) /\ Has(u, c, n)
    BY DEF Stored
  <2>1. (c \in InUse(v) /\ u[c] = v[c]) \/ (c \in InUse(m) /\ u[c] = m[c])
    <3>1. UseFrom(u, v, m)
      BY ONLY <1>0, WrittenUse
    <3> QED BY <3>1 DEF UseFrom
  <2>2. CASE c \in InUse(v) /\ u[c] = v[c]
    <3>1. PICK n \in Request : n <= v[c].size /\ Has(m, c, n) /\ Has(v, c, n)
      BY <2>2 DEF Stored
    <3>2. Has(u, c, n)
      BY <3>1, <2>2, <1>2
    <3> QED BY <2>2, <3>1, <3>2
  <2>3. CASE c \in InUse(m) /\ u[c] = m[c]
    <3>1. PICK n \in Request : n <= m[c].size /\ Has(m, c, n) /\ Has(v, c, n)
      BY <2>3 DEF Stored
    <3>2. Has(u, c, n)
      BY <3>1, <2>3, <1>2
    <3> QED BY <2>3, <3>1, <3>2
  <2> QED BY <2>1, <2>2, <2>3
<1> QED BY <1>3, <1>4

\* The line that is stored to is not one of a block in use on the medium.
LEMMA MediumMissed ==
    ASSUME NEW m, NEW v, NEW s, Medium(m, v, s), s # <<>>, NEW o, o = Head(s), o.do \in Stores,
           Aimed(m, o), NEW c \in InUse(v), NEW n \in Nat, n <= v[c].size, NEW j \in 1..(n - 1)
    PROVE  c + j # o.at
<1>0. /\ Typed(m) /\ Sound(m) /\ Typed(v) /\ Sound(v) /\ Tiled(v) /\ o \in Ops
      /\ Dirty(m, v, LineOf(o))
  BY StoreTyped DEF Medium, Pending, Sound
<1>1. c \in Clumps(v) /\ c \in Walk(v) /\ c \in Chunk /\ v[c].state # "FREE"
  BY <1>0, InUseIs
<1>2. c + j \in Chunk /\ c + j \notin Walk(v)
  BY <1>0, <1>1, Elsewhere
<1>3. CASE o.do \in {"off", "ptr"}
  <2>1. LineOf(o) = o.at
    BY <1>3 DEF LineOf
  <2>2. o.at \in Chunk => o.at \in Walk(m)
    BY <1>3 DEF Aimed, Clumps
  <2>3. ASSUME o.at \in Chunk, o.at \notin Walk(v) PROVE FALSE
    <3>1. \A a \in Walk(v) : m[a].size = v[a].size
      BY <1>0, <2>1, <2>3 DEF Dirty, Relevant
    <3>2. Walk(m) = Walk(v)
      BY <1>0, <3>1, WalkSame, MediumFacts DEF Typed
    <3> QED BY <2>2, <2>3, <3>2
  <2> QED BY <1>2, <2>3
<1>4. CASE o.do \notin {"off", "ptr"}
  <2>1. CASE o = Magic
    BY <2>1, <1>2, Constants DEF Magic, CellOp
  <2>2. CASE o # Magic
    <3>1. LineOf(o) = HDR
      BY <1>4, <2>2 DEF LineOf, Stores
    <3>2. (\A a \in Walk(m) \union Cell : v[a] = m[a]) /\ Clumps(v) = Clumps(m) /\ Walk(v) = Walk(m)
      BY <1>0, <3>1, DirtyNowhere
    <3>3. c \in Clumps(m) /\ m[c].state # "FREE" /\ n <= m[c].size
      BY <3>2, <1>1
    <3> QED BY <1>0, <3>3, AimedMisses
  <2> QED BY <2>1, <2>2
<1> QED BY <1>3, <1>4

\* A store: what was in use stays as it was.
LEMMA StoredStep ==
    ASSUME NEW m, NEW v, NEW s, Medium(m, v, s), s # <<>>, NEW o, o = Head(s), o.do \in Stores,
           Aimed(m, o), NEW w, w = Effect(m, o), Stored(m, m, v), Stored(v, m, v)
    PROVE  /\ Stored(v, w, v)
           /\ \A c \in InUse(w) : c \in InUse(m) =>
                \E n \in Request : n <= w[c].size /\ Has(w, c, n) /\ Has(v, c, n)
<1>0. /\ Typed(m) /\ Sound(m) /\ Typed(v) /\ Sound(v) /\ o \in Ops
      /\ DOMAIN m = Chunk \union Cell \union {HDR} /\ \A a \in DOMAIN m \ {o.at} : w[a] = m[a]
  <2>1. w = Effect(m, Head(s))
    OBVIOUS
  <2>2. /\ Typed(m) /\ Sound(m) /\ Head(s) \in Ops
        /\ \A a \in DOMAIN m \ {Head(s).at} : w[a] = m[a]
    BY <2>1, StoreTyped
  <2> QED BY <2>2, MediumFacts DEF Medium, Typed
<1>1. Stored(v, w, v)
  <2> SUFFICES ASSUME NEW c \in InUse(v)
               PROVE  \E n \in Request : n <= v[c].size /\ Has(w, c, n) /\ Has(v, c, n)
    BY DEF Stored
  <2>1. PICK n \in Request : n <= v[c].size /\ Has(m, c, n) /\ Has(v, c, n)
    BY DEF Stored
  <2>2. n \in Nat /\ \A j \in 1..(n - 1) : c + j \in DOMAIN m
    BY <1>0, <2>1, InUseIs, HasInside
  <2>3. \A j \in 1..(n - 1) : c + j # o.at
    BY <2>1, <2>2, MediumMissed
  <2>4. Has(w, c, n)
    BY <1>0, <2>1, <2>2, <2>3 DEF Has
  <2> QED BY <2>1, <2>4
<1>2. ASSUME NEW c \in InUse(m)
      PROVE  \E n \in Request : n <= w[c].size /\ Has(w, c, n) /\ Has(v, c, n)
  <2>1. PICK n \in Request : n <= m[c].size /\ Has(m, c, n) /\ Has(v, c, n)
    BY DEF Stored
  <2>2. n \in Nat /\ c \in Clumps(m) /\ m[c].state # "FREE"
    BY <1>0, RequestIs, InUseIs
  <2>3. w[c].size = m[c].size /\ \A j \in 1..(n - 1) : w[c + j] = m[c + j] /\ c + j # o.at
    BY <1>0, <2>1, <2>2, AimedMisses
  <2> QED BY <2>1, <2>3 DEF Has
<1> QED BY <1>1, <1>2

-----------------------------------------------------------------------------
(* What the blocks hold, across a step of a call *)

\* The next step of pmemalloc_activate while its block is RESERVED.
LEMMA FlushingHead ==
    ASSUME NEW m, Typed(m), Sound(m), NEW c, Ready(m, c, "ACTIVATING"), NEW q \in Seq(Persists), NEW s,
           Takes(m, c, s, q)
    PROVE  /\ q = <<>> => Head(s) = [do |-> "size", at |-> c, size |-> m[c].size, state |-> "ACTIVATING"]
           /\ q # <<>> =>
                /\ Head(s) = Head(q) /\ Head(q) \in Persists /\ Tail(q) \in Seq(Persists)
                /\ Takes(m, c, Tail(s), Tail(q))
<1>1. PICK st, rest : st = "ACTIVATING" /\ rest = <<>>
  OBVIOUS
<1>2. PICK r : r = PutSize(c, m[c].size, st) \o Way(m[c], c, st, rest)
  OBVIOUS
<1>3. rest \in Flow /\ Ready(m, c, st)
  BY <1>1, FlowEmpty
<1>4. r \in Seq(Ops) /\ Way(m[c], c, st, rest) \in Seq(Ops)
  BY <1>2, <1>3, WayIs DEF Flow
<1>5. PICK o : o = [do |-> "size", at |-> c, size |-> m[c].size, state |-> st]
  OBVIOUS
<1>6. PutSize(c, m[c].size, st) = <<o>>
  BY <1>5 DEF PutSize
<1>7. Head(r) = o
  BY <1>2, <1>4, <1>6, OneStep
<1>8. s = q \o r
  BY <1>1, <1>2 DEF Takes, Onset
<1>9. /\ q = <<>> => s = r
      /\ q # <<>> => /\ Head(q) \in Persists /\ Tail(q) \in Seq(Persists)
                     /\ Head(s) = Head(q) /\ Tail(s) = Tail(q) \o r
  BY ONLY <1>4, <1>8, q \in Seq(Persists), Peel, SMTT(30)
<1> QED BY <1>1, <1>2, <1>5, <1>7, <1>9 DEF Takes, Onset

\* The block is ACTIVATING or ACTIVE before and after a store, or this is the
\* store that makes it so, and what it holds is durable.
LEMMA ActivatingStore ==
    ASSUME NEW m, NEW v, NEW s, Medium(m, v, s), s # <<>>, Head(s).do \in Stores,
           NEW k, k.op = "activate", k.block \in Chunk,
           NEW a, NEW fl, NEW dr, InActivate(m, s, k, a, fl, dr), Promised(m, k, a, fl, dr, TRUE),
           Flushing(m, v, s, k, a), NEW w, w = Effect(m, Head(s)), Sound(w)
    PROVE  Turned(m, v, w, k.block, a[k.block])
<1> DEFINE c == k.block
<1>0. Typed(m) /\ Sound(m) /\ Typed(v) /\ c \in Chunk /\ a[c] # 0 /\ Activating(m, s, k, a)
  BY StoreTyped DEF InActivate, Medium
<1>1. CASE Calm(m) /\ Reserved(m, c, a[c]) /\ OnList(m[c]) # {}
  <2>1. Ready(m, c, "ACTIVATING") /\ c \in Clumps(m) /\ m[c].state = "RESERVED" /\ a[c] <= m[c].size
    BY <1>1 DEF Ready, Reserved
  <2>2. PICK q \in Seq(Persists) :
            /\ Takes(m, c, s, q)
            /\ \A j \in 1..(a[c] - 1) : Owed(m, v, q, c + j)
    BY <2>1 DEF Flushing
  <2>3. PICK x : x = c
    OBVIOUS
  <2>4. /\ Typed(m) /\ Sound(m) /\ Ready(m, x, "ACTIVATING") /\ q \in Seq(Persists)
        /\ Takes(m, x, s, q)
    BY <1>0, <2>1, <2>2, <2>3
  <2>5. /\ q = <<>> => Head(s) = [do |-> "size", at |-> x, size |-> m[x].size, state |-> "ACTIVATING"]
        /\ q # <<>> => Head(s) = Head(q) /\ Head(q) \in Persists
    BY ONLY <2>4, FlushingHead
  <2>6. q = <<>>
    BY <2>5 DEF Persists, Stores
  <2>7. PICK o : o = Head(s)
    OBVIOUS
  <2>8. o = [do |-> "size", at |-> x, size |-> m[x].size, state |-> "ACTIVATING"]
    BY <2>5, <2>6, <2>7
  <2>9. x \in Chunk /\ x \in DOMAIN m /\ m[x] \in Line
    BY <1>0, <2>3, MediumFacts DEF Typed
  <2>10. w[x] = WrittenTo(m, o)
    BY <2>7, <2>8, <2>9 DEF Effect
  <2>11. w[c].state = "ACTIVATING"
    BY <2>3, <2>8, <2>9, <2>10 DEF WrittenTo, Line
  <2>12. a[c] \in Request
    BY <1>0 DEF Promised
  <2>13. Has(m, c, a[c])
    BY <2>1 DEF Flushing
  <2>14. Has(v, c, a[c])
    <3>1. \A y : y \notin Range(q)
      BY <2>6 DEF Range
    <3> QED BY <2>2, <2>13, <3>1 DEF Owed, Has
  <2> QED BY <2>1, <2>11, <2>12, <2>13, <2>14 DEF Turned
<1>2. CASE m[c].state = "ACTIVATING" /\ Finishing(m, s, c, <<>>)
  <2>1. c \in Clumps(m) /\ Frame(m, w, c)
    BY <1>0, <1>2, FlowEmpty, FinishingStep
  <2>2. w[c].state \in {"ACTIVATING", "ACTIVE"}
    BY <2>1, <1>2 DEF Frame, FinalOf
  <2> QED BY <2>1, <2>2, <1>2 DEF InUse, Turned
<1>3. CASE s \in Seq(Persists)
  <2>1. Head(s) \in Persists
    BY <1>3
  <2> QED BY <2>1 DEF Persists, Stores
<1> QED BY <1>0, <1>1, <1>2, <1>3 DEF Activating

\* A step that stores nothing.
LEMMA FlushingStep ==
    ASSUME NEW m, NEW v, NEW s, Medium(m, v, s), s # <<>>, Head(s).do \notin Stores,
           NEW k, k.block \in Chunk, NEW a, NEW fl, NEW dr,
           k.op = "activate" => InActivate(m, s, k, a, fl, dr) /\ Promised(m, k, a, fl, dr, TRUE),
           Flushing(m, v, s, k, a), NEW u,
           \A x \in Chunk : u[x] = v[x] \/ u[x] = m[x],
           \A x \in Chunk : Head(s) = PersistOp(x) => u[x] = m[x]
    PROVE  Flushing(m, u, Tail(s), k, a)
<1> DEFINE c == k.block
<1> SUFFICES ASSUME k.op = "activate", m[c].state = "RESERVED"
             PROVE  /\ Has(m, c, a[c])
                    /\ \E q \in Seq(Persists) :
                        /\ Takes(m, c, Tail(s), q)
                        /\ \A j \in 1..(a[c] - 1) : Owed(m, u, q, c + j)
  BY DEF Flushing
<1>0. Typed(m) /\ Sound(m) /\ Tiled(m) /\ Activating(m, s, k, a)
  BY StoreTyped DEF InActivate, Sound
<1>1. Reserved(m, c, a[c]) /\ OnList(m[c]) # {}
  BY <1>0, FlowEmpty, FinishingStep DEF Activating
<1>2. Ready(m, c, "ACTIVATING") /\ c \in Clumps(m) /\ a[c] <= m[c].size
  BY <1>1 DEF Ready, Reserved
<1>3. PICK q \in Seq(Persists) :
            /\ Takes(m, c, s, q)
            /\ \A j \in 1..(a[c] - 1) : Owed(m, v, q, c + j)
  BY DEF Flushing
<1>7. /\ q = <<>> => Head(s) = [do |-> "size", at |-> c, size |-> m[c].size, state |-> "ACTIVATING"]
      /\ q # <<>> =>
            /\ Head(s) = Head(q) /\ Head(q) \in Persists /\ Tail(q) \in Seq(Persists)
            /\ Takes(m, c, Tail(s), Tail(q))
  <2>1. PICK x : x = c
    OBVIOUS
  <2>2. /\ Typed(m) /\ Sound(m) /\ Ready(m, x, "ACTIVATING") /\ q \in Seq(Persists)
        /\ Takes(m, x, s, q)
    BY <1>0, <1>2, <1>3, <2>1
  <2>3. /\ q = <<>> => Head(s) = [do |-> "size", at |-> x, size |-> m[x].size, state |-> "ACTIVATING"]
        /\ q # <<>> =>
             /\ Head(s) = Head(q) /\ Head(q) \in Persists /\ Tail(q) \in Seq(Persists)
             /\ Takes(m, x, Tail(s), Tail(q))
    BY ONLY <2>2, FlushingHead
  <2> QED BY <2>1, <2>3
<1>4. q # <<>>
  <2>1. q = <<>> => Head(s).do = "size"
    BY <1>7
  <2> QED BY <2>1 DEF Stores
<1>5. /\ Head(s) = Head(q) /\ Tail(q) \in Seq(Persists)
      /\ Takes(m, c, Tail(s), Tail(q))
  BY <1>4, <1>7
<1>6. ASSUME NEW j \in 1..(a[c] - 1) PROVE Owed(m, u, Tail(q), c + j)
  <2>1. PICK x : x = c + j
    OBVIOUS
  <2>2. x \in Chunk
    <3>1. a[c] \in {0} \union Request
      BY DEF Promised
    <3>2. PICK n : n = a[c]
      OBVIOUS
    <3>3. n \in Nat /\ n <= m[c].size /\ c \in Clumps(m) /\ j \in 1..(n - 1)
      BY <1>2, <3>1, <3>2, Constants
    <3>4. c + j \in Chunk
      BY <1>0, <3>3, Elsewhere
    <3> QED BY <2>1, <3>4
  <2>3. Owed(m, v, q, x) /\ (u[x] = v[x] \/ u[x] = m[x]) /\ (Head(q) = PersistOp(x) => u[x] = m[x])
    BY <1>3, <1>5, <2>1, <2>2
  <2>4. q \in Seq(Ops) /\ q # <<>>
    <3>1. Persists \subseteq Ops
      BY DEF Ops
    <3> QED BY <3>1, <1>4
  <2>5. Owed(m, u, Tail(q), x)
    BY ONLY <2>3, <2>4, OwedStep
  <2> QED BY <2>1, <2>5
<1> QED BY <1>3, <1>5, <1>6 DEF Flushing

\* What is asked for is a request.
LEMMA AskedIs ==
    ASSUME NEW m, NEW k, NEW a, NEW fl, NEW dr, NEW r, Promised(m, k, a, fl, dr, r), NEW c \in Chunk
    PROVE  a[c] \in Nat /\ (a[c] # 0 => a[c] \in Request)
<1>1. a[c] \in {0} \union Request
  BY DEF Promised
<1> QED BY <1>1, RequestIs

LEMMA PreservedStore ==
    ASSUME NEW m, NEW v, NEW s, Medium(m, v, s), s # <<>>, Head(s).do \in Stores,
           NEW k, NEW a, NEW fl, NEW dr, NEW r \in BOOLEAN, NEW f, NEW df,
           Promised(m, k, a, fl, dr, r), Course(m, v, s, k, a, fl, dr, r, f, df),
           Preserved(m, v, s, k, a, fl), NEW w, w = Effect(m, Head(s)), Sound(w)
    PROVE  Preserved(w, v, Tail(s), k, a, fl) /\ Preserved(w, w, Tail(s), k, a, fl)
<1>0. PICK o : o = Head(s)
  OBVIOUS
<1>1. /\ Typed(m) /\ Sound(m) /\ Typed(v) /\ Sound(v) /\ o \in Ops /\ Typed(w) /\ o.do \in Stores
      /\ w = Effect(m, o)
  BY <1>0, StoreTyped DEF Medium
<1>2. Aimed(m, o)
  <2>1. Head(s).do \notin ScanHead
    BY DEF Stores, ScanHead
  <2> QED BY <1>0, <2>1, CourseAimed
<1>3. Stored(m, m, v) /\ Stored(v, m, v) /\ Intact(m, k, a, fl) /\ Flushing(m, v, s, k, a)
  BY DEF Preserved
<1>4. /\ Stored(v, w, v)
      /\ \A c \in InUse(w) : c \in InUse(m) =>
                \E n \in Request : n <= w[c].size /\ Has(w, c, n) /\ Has(v, c, n)
  BY <1>0, <1>1, <1>2, <1>3, StoredStep
<1>5. k.op = "activate" => k.block \in Chunk /\ InActivate(m, s, k, a, fl, dr) /\ r = TRUE
  BY DEF Course, UserCalls
<1>6. k.op = "activate" => Turned(m, v, w, k.block, a[k.block])
  <2> HAVE k.op = "activate"
  <2>1. k.block \in Chunk /\ InActivate(m, s, k, a, fl, dr) /\ Promised(m, k, a, fl, dr, TRUE)
    BY <1>5
  <2>2. PICK c : c = k.block
    OBVIOUS
  <2>3. /\ Medium(m, v, s) /\ s # <<>> /\ Head(s).do \in Stores /\ k.op = "activate"
        /\ k.block \in Chunk /\ InActivate(m, s, k, a, fl, dr) /\ Promised(m, k, a, fl, dr, TRUE)
        /\ Flushing(m, v, s, k, a) /\ w = Effect(m, Head(s)) /\ Sound(w)
    BY <1>3, <2>1
  <2> QED BY ONLY <2>3, ActivatingStore
<1>7. ASSUME NEW c \in InUse(w), c \notin InUse(m)
      PROVE  \E n \in Request : n <= w[c].size /\ Has(w, c, n) /\ Has(v, c, n)
  <2>1. Moves(m, w, k)
    <3>1. Head(s).do \notin ScanHead
      BY DEF Stores, ScanHead
    <3> QED BY <3>1, CourseCells
  <2>2. k.op \in {"activate", "free"} => k.block \in Chunk /\ k.cells \subseteq Cell
    BY DEF Course, UserCalls
  <2>3. k.op = "activate" /\ c = k.block
    BY <1>1, <1>7, <2>1, <2>2, MovesLive
  <2>4. PICK n : n = a[c]
    OBVIOUS
  <2>5. /\ c \in Clumps(m) /\ m[c].state # "FREE" /\ n \in Request /\ n <= m[c].size
        /\ Has(m, c, n) /\ Has(v, c, n)
    BY <1>6, <1>7, <2>3, <2>4 DEF Turned
  <2>6. n \in Nat
    BY <2>5, Constants
  <2>7. w[c].size = m[c].size /\ \A j \in 1..(n - 1) : w[c + j] = m[c + j]
    BY <1>1, <1>2, <2>5, <2>6, AimedMisses
  <2> QED BY <2>5, <2>7 DEF Has
<1>8. Stored(w, w, v)
  BY <1>4, <1>7 DEF Stored
<1>9. Stored(w, w, w)
  BY <1>8 DEF Stored
<1>10. ASSUME NEW c \in fl, ~Releasing(k, c) PROVE Has(w, c, a[c])
  <2>1. c \in Chunk /\ a[c] # 0 /\ Reserved(m, c, a[c])
    BY <1>10 DEF Promised
  <2>2. PICK n : n = a[c]
    OBVIOUS
  <2>3. /\ n \in Nat /\ n <= m[c].size /\ c \in Clumps(m) /\ m[c].state # "FREE" /\ Has(m, c, n)
    BY <1>3, <1>10, <2>1, <2>2, AskedIs DEF Reserved, Intact
  <2>4. \A j \in 1..(n - 1) : w[c + j] = m[c + j]
    BY <1>1, <1>2, <2>3, AimedMisses
  <2> QED BY <2>2, <2>3, <2>4 DEF Has
<1>11. Intact(w, k, a, fl)
  BY <1>10 DEF Intact
<1>12. \A x : Flushing(w, x, Tail(s), k, a)
  BY <1>6 DEF Flushing, Turned
<1> QED BY <1>4, <1>8, <1>9, <1>11, <1>12 DEF Preserved

\* A flush, or a system call on the file.
LEMMA PreservedFlush ==
    ASSUME NEW m, NEW v, NEW s, Medium(m, v, s), s # <<>>, Head(s).do \notin Stores,
           NEW k, NEW a, NEW fl, NEW dr, NEW r \in BOOLEAN, NEW f, NEW df,
           Promised(m, k, a, fl, dr, r), Course(m, v, s, k, a, fl, dr, r, f, df),
           Preserved(m, v, s, k, a, fl), NEW p \in BOOLEAN, ~p => v = m,
           NEW u, u = DurableAfter(m, v, Head(s), p), Typed(u), Sound(u)
    PROVE  Preserved(m, u, Tail(s), k, a, fl)
<1>0. PICK o : o = Head(s)
  OBVIOUS
<1>1. Typed(m) /\ Sound(m) /\ Typed(v) /\ Sound(v) /\ o \in Ops /\ Effect(m, o) = m
  BY <1>0, StoreTyped DEF Medium, Effect
<1>2. \/ u = m \/ u = v
      \/ o.do = "persist" /\ o.at \in DOMAIN m /\ u = [v EXCEPT ![o.at] = m[o.at]]
  <2>1. o.do = "persist" => o.at \in DOMAIN m
    BY <1>1, MediumFacts DEF Typed, Ops, Persists, SizeOps, OffOps, PtrOps, CellOps, ScanOps, BlankOps,
                  FileOps, Magic, CellOp
  <2> QED BY <1>0, <1>1, <2>1 DEF DurableAfter
<1>3. Stored(m, m, v) /\ Stored(v, m, v) /\ Intact(m, k, a, fl) /\ Flushing(m, v, s, k, a)
  BY DEF Preserved
<1>4. Stored(m, m, u) /\ Stored(u, m, u)
  <2>1. CASE u = m
    BY <1>3, <2>1 DEF Stored
  <2>2. CASE u = v
    BY <1>3, <2>2
  <2>3. CASE o.do = "persist" /\ o.at \in DOMAIN m /\ u = [v EXCEPT ![o.at] = m[o.at]]
    <3>1. PICK x : Dirty(m, v, x)
      BY DEF Medium
    <3>2. PICK b : b = o.at
      OBVIOUS
    <3>3. b \in DOMAIN m /\ u = [v EXCEPT ![b] = m[b]]
      BY <2>3, <3>2
    <3>4. /\ Typed(m) /\ Sound(m) /\ Typed(v) /\ Sound(v) /\ Dirty(m, v, x) /\ b \in DOMAIN m
          /\ u = [v EXCEPT ![b] = m[b]] /\ Typed(u) /\ Sound(u) /\ Stored(m, m, v) /\ Stored(v, m, v)
      BY <1>1, <1>3, <3>1, <3>3
    <3> QED BY ONLY <3>4, StoredBack
  <2> QED BY <1>2, <2>1, <2>2, <2>3
<1>5. Flushing(m, u, Tail(s), k, a)
  <2>1. \A x \in Chunk : u[x] = v[x] \/ u[x] = m[x]
    BY <1>1, <1>2, MediumFacts DEF Typed
  <2>2. ASSUME NEW x \in Chunk, Head(s) = PersistOp(x) PROVE u[x] = m[x]
    <3>1. o.do = "persist" /\ o.at = x
      BY <1>0, <2>2 DEF PersistOp
    <3>2. x \in DOMAIN v
      BY <1>1, MediumFacts DEF Typed
    <3> QED BY <1>0, <1>1, <3>1, <3>2 DEF DurableAfter
  <2>3. CASE k.op = "activate"
    <3>1. k.block \in Chunk /\ InActivate(m, s, k, a, fl, dr) /\ Promised(m, k, a, fl, dr, TRUE)
      <4>1. k.block \in Chunk /\ InActivate(m, s, k, a, fl, dr) /\ r = TRUE
        BY <2>3 DEF Course, UserCalls
      <4> QED BY <4>1
    <3>2. Head(s).do \notin Stores
      OBVIOUS
    <3> QED BY <1>3, <2>1, <2>2, <3>1, <3>2, FlushingStep
  <2>4. CASE k.op # "activate"
    BY <2>4 DEF Flushing
  <2> QED BY <2>3, <2>4
<1> QED BY <1>3, <1>4, <1>5 DEF Preserved

\* A step of a call, in memory and on the medium.
LEMMA PreservedStep ==
    ASSUME NEW m, NEW v, NEW s, NEW k, NEW a, NEW fl, NEW dr, NEW r, NEW f, NEW df,
           Agreed(m, v, s, k, a, fl, dr, r, f, df), s # <<>>, Head(s).do \notin ScanHead,
           Preserved(m, v, s, k, a, fl), NEW p \in BOOLEAN, ~p => v = m,
           NEW w, w = Effect(m, Head(s)), NEW u, u = DurableAfter(m, v, Head(s), p),
           Typed(w), Sound(w), Typed(u), Sound(u)
    PROVE  Preserved(w, u, Tail(s), k, a, fl)
<1>1. /\ Medium(m, v, s) /\ r \in BOOLEAN /\ Promised(m, k, a, fl, dr, r)
      /\ Course(m, v, s, k, a, fl, dr, r, f, df)
  BY DEF Agreed
<1>2. CASE Head(s).do \in Stores
  <2>1. Preserved(w, v, Tail(s), k, a, fl) /\ Preserved(w, w, Tail(s), k, a, fl)
    BY <1>1, <1>2, PreservedStore
  <2>2. u = v \/ u = w
    BY <1>2 DEF DurableAfter, Stores
  <2> QED BY <2>1, <2>2
<1>3. CASE Head(s).do \notin Stores
  <2>1. Preserved(m, u, Tail(s), k, a, fl)
    BY <1>1, <1>3, PreservedFlush
  <2> QED BY <1>3, <2>1 DEF Effect
<1> QED BY <1>2, <1>3

-----------------------------------------------------------------------------
(* What the blocks hold, across the other steps *)

\* The block that pmemalloc_activate has found RESERVED.
LEMMA ActivatingLines ==
    ASSUME NEW m, Typed(m), Sound(m), NEW s, NEW k, k.block \in Chunk, NEW a, NEW fl, NEW dr,
           InActivate(m, s, k, a, fl, dr), Promised(m, k, a, fl, dr, TRUE),
           NEW c, c = k.block, m[c].state = "RESERVED"
    PROVE  Ready(m, c, "ACTIVATING") /\ \A j \in 1..(a[c] - 1) : c + j \in Chunk
<1>1. Activating(m, s, k, a) /\ c \in Chunk
  BY DEF InActivate
<1>2. Reserved(m, c, a[c]) /\ OnList(m[c]) # {}
  BY <1>1, FlowEmpty, FinishingStep DEF Activating
<1>3. Ready(m, c, "ACTIVATING") /\ c \in Clumps(m) /\ a[c] <= m[c].size
  BY <1>2 DEF Ready, Reserved
<1>4. PICK n : n = a[c]
  OBVIOUS
<1>5. n \in Nat /\ n <= m[c].size /\ Tiled(m)
  BY <1>1, <1>3, <1>4, AskedIs DEF Sound
<1>6. \A j \in 1..(n - 1) : c + j \in Chunk
  BY <1>3, <1>5, Elsewhere
<1> QED BY <1>3, <1>4, <1>6

\* A scan takes its next clump.
LEMMA PreservedScan ==
    ASSUME NEW m, NEW v, NEW s, Medium(m, v, s), s # <<>>, Head(s).do \in ScanHead,
           NEW k, NEW a, NEW fl, NEW dr, NEW r \in BOOLEAN, NEW f, NEW df,
           Promised(m, k, a, fl, dr, r), Course(m, v, s, k, a, fl, dr, r, f, df),
           Preserved(m, v, s, k, a, fl), NEW t
    PROVE  Preserved(m, v, t, k, a, fl)
<1>1. k.op = "activate" => m[k.block].state # "RESERVED"
  <2> SUFFICES ASSUME k.op = "activate", m[k.block].state = "RESERVED" PROVE FALSE
    OBVIOUS
  <2>1. k.block \in Chunk /\ InActivate(m, s, k, a, fl, dr) /\ r = TRUE
    BY DEF Course, UserCalls
  <2>2. Typed(m) /\ Sound(m) /\ Promised(m, k, a, fl, dr, TRUE)
    BY <2>1 DEF Medium
  <2>3. PICK c : c = k.block
    OBVIOUS
  <2>4. Ready(m, c, "ACTIVATING")
    BY <2>1, <2>2, <2>3, ActivatingLines
  <2>5. PICK q \in Seq(Persists) : Takes(m, c, s, q)
    BY <2>3 DEF Preserved, Flushing
  <2>6. Typed(m) /\ Sound(m) /\ Ready(m, c, "ACTIVATING") /\ q \in Seq(Persists) /\ Takes(m, c, s, q)
    BY <2>2, <2>4, <2>5
  <2>7. /\ q = <<>> => Head(s) = [do |-> "size", at |-> c, size |-> m[c].size, state |-> "ACTIVATING"]
        /\ q # <<>> => Head(s) = Head(q) /\ Head(q) \in Persists
    BY ONLY <2>6, FlushingHead
  <2> QED BY <2>7 DEF Persists, ScanHead
<1> QED BY <1>1 DEF Preserved, Flushing

\* A line is written back by itself.
LEMMA PreservedBack ==
    ASSUME NEW m, NEW v, NEW s, Medium(m, v, s),
           NEW k, NEW a, NEW fl, NEW dr, NEW r \in BOOLEAN, NEW f, NEW df,
           Promised(m, k, a, fl, dr, r), Course(m, v, s, k, a, fl, dr, r, f, df),
           Preserved(m, v, s, k, a, fl), NEW x \in DOMAIN m, NEW u, u = [v EXCEPT ![x] = m[x]]
    PROVE  Preserved(m, u, s, k, a, fl)
<1>1. Typed(m) /\ Sound(m) /\ Typed(v) /\ Sound(v) /\ Stored(m, m, v) /\ Stored(v, m, v)
  BY DEF Medium, Preserved
<1>2. PICK y : Dirty(m, v, y)
  BY DEF Medium
<1>3. Typed(u) /\ Sound(u)
  <2>1. /\ Typed(m) /\ Sound(m) /\ Typed(v) /\ Sound(v) /\ Dirty(m, v, y)
        /\ x \in DOMAIN m /\ u = [v EXCEPT ![x] = m[x]]
    BY <1>1, <1>2
  <2> QED BY ONLY <2>1, WriteBack, ZenonT(60)
<1>4. Stored(m, m, u) /\ Stored(u, m, u)
  BY <1>1, <1>2, <1>3, StoredBack
<1>5. Flushing(m, u, s, k, a)
  <2> DEFINE c == k.block
  <2> SUFFICES ASSUME k.op = "activate", m[c].state = "RESERVED"
               PROVE  /\ Has(m, c, a[c])
                      /\ \E q \in Seq(Persists) :
                            Takes(m, c, s, q) /\ \A j \in 1..(a[c] - 1) : Owed(m, u, q, c + j)
    BY DEF Flushing
  <2>1. k.block \in Chunk /\ InActivate(m, s, k, a, fl, dr) /\ r = TRUE
    BY DEF Course, UserCalls
  <2>2. Promised(m, k, a, fl, dr, TRUE)
    BY <2>1
  <2>3. \A j \in 1..(a[c] - 1) : c + j \in Chunk
    BY <1>1, <2>1, <2>2, ActivatingLines
  <2>4. Has(m, c, a[c])
    BY DEF Preserved, Flushing
  <2>5. PICK q \in Seq(Persists) :
            Takes(m, c, s, q) /\ \A j \in 1..(a[c] - 1) : Owed(m, v, q, c + j)
    BY DEF Preserved, Flushing
  <2>6. \A z \in Chunk : u[z] = v[z] \/ u[z] = m[z]
    BY <1>1, MediumFacts DEF Typed
  <2>7. \A j \in 1..(a[c] - 1) : Owed(m, u, q, c + j)
    BY <2>3, <2>5, <2>6 DEF Owed
  <2> QED BY <2>4, <2>5, <2>7
<1> QED BY <1>4, <1>5 DEF Preserved

\* The program enters a call other than pmemalloc_activate.
LEMMA PreservedEnter ==
    ASSUME NEW m, NEW v, NEW s, NEW a, NEW fl, Preserved(m, v, s, NoCall, a, fl),
           NEW k, k.op # "activate", NEW t
    PROVE  Preserved(m, v, t, k, a, fl)
  BY DEF Preserved, Intact, Flushing, Releasing, NoCall

\* It enters pmemalloc_activate, which flushes the whole block first.
LEMMA PreservedActivate ==
    ASSUME NEW m, NEW v, NEW s, NEW a, NEW fl, Preserved(m, v, s, NoCall, a, fl),
           NEW k, k.op = "activate", k.block \in fl, a[k.block] \in Nat, a[k.block] <= m[k.block].size,
           m[k.block].size \in Nat,
           NEW t, NEW q \in Seq(Persists), Takes(m, k.block, t, q),
           \A j \in 1..m[k.block].size : PersistOp(k.block + j) \in Range(q)
    PROVE  Preserved(m, v, t, k, a, fl)
<1>1. Intact(m, k, a, fl) /\ Has(m, k.block, a[k.block])
  BY DEF Preserved, Intact, Releasing, NoCall
<1>2. \A j \in 1..(a[k.block] - 1) : Owed(m, v, q, k.block + j)
  BY DEF Owed
<1>3. Flushing(m, v, t, k, a)
  BY <1>1, <1>2 DEF Flushing
<1> QED BY <1>1, <1>3 DEF Preserved

\* The process is gone, and memory is what it was or what is durable of it.
LEMMA PreservedGone ==
    ASSUME NEW m, NEW v, NEW s, NEW k, NEW a, NEW fl, Preserved(m, v, s, k, a, fl), NEW b
    PROVE  Preserved(m, v, <<>>, NoCall, b, {}) /\ Preserved(v, v, <<>>, NoCall, b, {})
<1>1. Stored(v, v, v)
  BY DEF Preserved, Stored
<1> QED BY <1>1 DEF Preserved, Intact, Flushing, NoCall

\* A call is over.
LEMMA PreservedReturn ==
    ASSUME NEW m, NEW v, NEW k, NEW a, NEW fl, NEW dr, NEW r \in BOOLEAN, NEW f, NEW df,
           Promised(m, k, a, fl, dr, r), Course(m, v, <<>>, k, a, fl, dr, r, f, df),
           Preserved(m, v, <<>>, k, a, fl)
    PROVE  Preserved(m, v, <<>>, NoCall, NowAsked(k, a), NowFilled(k, a, fl))
<1>1. ASSUME NEW c \in NowFilled(k, a, fl) PROVE Has(m, c, NowAsked(k, a)[c])
  <2>1. c \in fl /\ NowAsked(k, a)[c] # 0 /\ c \in Chunk /\ a[c] # 0 /\ DOMAIN a = Chunk
    BY <1>1 DEF NowFilled, Promised
  <2>2. ~Releasing(k, c)
    BY <2>1 DEF Releasing, NowAsked
  <2>3. k.op = "reserve" => k.block # c
    BY <2>1 DEF Course, InReserve
  <2>4. NowAsked(k, a)[c] = a[c]
    BY <2>1, <2>2, <2>3 DEF NowAsked, Releasing
  <2> QED BY <2>1, <2>2, <2>4 DEF Preserved, Intact
<1> QED BY <1>1 DEF Preserved, Intact, Flushing, NoCall

\* The program writes to its block c and to no other.
LEMMA FilledMisses ==
    ASSUME NEW m, Typed(m), Sound(m), NEW c \in Clumps(m), NEW n \in Nat, n <= m[c].size,
           NEW w, w = FilledWith(m, c, n),
           NEW b \in Clumps(m), b # c, NEW h \in Nat, h <= m[b].size
    PROVE  \A j \in 1..(h - 1) : w[b + j] = m[b + j]
<1>1. Tiled(m) /\ DOMAIN m = Chunk \union Cell \union {HDR} /\ c \in Chunk /\ m[c].size \in Nat
  BY MediumFacts, TiledFacts DEF Typed, Sound
<1> TAKE j \in 1..(h - 1)
<1>2. /\ b + j \in Chunk
      /\ \A e \in Clumps(m) \ {b}, x \in Chunk : e <= x /\ x < e + m[e].size => x # b + j
  BY <1>1, Elsewhere
<1>3. b + j \notin (c + 1)..(c + n - 1)
  <2>1. ~(c <= b + j /\ b + j < c + m[c].size)
    BY <1>2
  <2> QED BY <1>1, <1>2, <2>1, Constants
<1> QED BY <1>1, <1>2, <1>3 DEF FilledWith

LEMMA PreservedFill ==
    ASSUME NEW m, Typed(m), Sound(m), Quiet(m), NEW v, Medium(m, v, <<>>),
           NEW a, NEW fl, NEW dr, Promised(m, NoCall, a, fl, dr, TRUE),
           NEW c \in Chunk, NEW n, n = a[c], n # 0, NEW w, w = FilledWith(m, c, n),
           Preserved(m, v, <<>>, NoCall, a, fl)
    PROVE  /\ Preserved(w, v, <<>>, NoCall, a, fl \union {c})
           /\ Preserved(w, w, <<>>, NoCall, a, fl \union {c})
<1>1. n \in Request /\ n \in Nat
  BY AskedIs
<1>2. c \in Clumps(m) /\ n <= m[c].size /\ m[c].state = "RESERVED"
  BY PromisedEnter DEF Reserved
<1>3. Stored(m, m, v) /\ Stored(v, m, v) /\ Intact(m, NoCall, a, fl)
  BY DEF Preserved
<1>4. Typed(v) /\ Sound(v) /\ Typed(w) /\ Sound(w) /\ Medium(w, v, <<>>)
  BY FilledIs DEF Medium
<1>5. Clumps(v) = Clumps(m) /\ Clumps(w) = Clumps(v) /\ \A x \in Clumps(m) : v[x] = m[x] /\ w[x] = m[x]
  <2>1. Dirty(m, v, HDR) /\ Dirty(w, v, HDR)
    BY <1>4 DEF Medium, Pending
  <2>2. Clumps(v) = Clumps(m) /\ \A x \in Walk(m) : v[x] = m[x]
    BY <1>4, <2>1, DirtyNowhere
  <2>3. Clumps(v) = Clumps(w) /\ \A x \in Walk(w) : v[x] = w[x]
    BY <1>4, <2>1, DirtyNowhere
  <2> QED BY <2>2, <2>3 DEF Clumps
<1>6. InUse(v) = InUse(m) /\ InUse(w) = InUse(m)
  BY <1>5 DEF InUse
<1>7. ASSUME NEW b \in InUse(m)
      PROVE  \E h \in Request : h <= m[b].size /\ Has(w, b, h) /\ Has(v, b, h)
  <2>1. PICK h \in Request : h <= m[b].size /\ Has(m, b, h) /\ Has(v, b, h)
    BY <1>3, <1>7 DEF Stored
  <2>2. b \in Clumps(m) /\ b # c /\ h \in Nat
    BY <1>2, <1>7, <2>1, RequestIs DEF InUse
  <2>3. \A j \in 1..(h - 1) : w[b + j] = m[b + j]
    BY <1>1, <1>2, <2>1, <2>2, FilledMisses
  <2> QED BY <2>1, <2>3 DEF Has
<1>8. Stored(w, w, v) /\ Stored(v, w, v) /\ Stored(w, w, w)
  <2>1. \A b \in InUse(m) : v[b].size = m[b].size /\ w[b].size = m[b].size
    BY <1>5 DEF InUse
  <2> QED BY <1>6, <1>7, <2>1 DEF Stored
<1>9. ASSUME NEW b \in fl \union {c} PROVE Has(w, b, a[b])
  <2>1. CASE b = c
    <3>1. Tiled(m) /\ DOMAIN m = Chunk \union Cell \union {HDR} /\ c \in Nat
      BY MediumFacts, Constants DEF Typed, Sound
    <3>2. ASSUME NEW j \in 1..(n - 1) PROVE w[c + j] = Data(n)
      <4>1. c + j \in Chunk
        BY <1>1, <1>2, <3>1, Elsewhere
      <4>2. c + j \in (c + 1)..(c + n - 1)
        BY <1>1, <3>1
      <4> QED BY <3>1, <4>1, <4>2 DEF FilledWith
    <3> QED BY <2>1, <3>2 DEF Has
  <2>2. CASE b \in fl /\ b # c
    <3>1. b \in Chunk /\ a[b] # 0
      BY <2>2 DEF Promised
    <3>2. Reserved(m, b, a[b])
      BY <3>1, PromisedEnter
    <3>3. PICK h : h = a[b]
      OBVIOUS
    <3>4. b \in Clumps(m) /\ h \in Nat /\ h <= m[b].size
      BY <3>1, <3>2, <3>3, AskedIs DEF Reserved
    <3>5. \A j \in 1..(h - 1) : w[b + j] = m[b + j]
      BY <1>1, <1>2, <2>2, <3>4, FilledMisses
    <3>6. Has(m, b, h)
      BY <1>3, <2>2, <3>3 DEF Intact, Releasing, NoCall
    <3> QED BY <3>3, <3>5, <3>6 DEF Has
  <2> QED BY <1>9, <2>1, <2>2
<1>10. Intact(w, NoCall, a, fl \union {c})
  BY <1>9 DEF Intact
<1>11. \A x, s : Flushing(w, x, s, NoCall, a)
  BY DEF Flushing, NoCall
<1> QED BY <1>8, <1>10, <1>11 DEF Preserved

-----------------------------------------------------------------------------
(* The data survives *)

\* The parts of the state that the blocks' contents depend on.
LEMMA DataFacts ==
    ASSUME DInv
    PROVE  \E m, v, s, k, a, fl, dr, r, f, df :
            /\ m = mem /\ v = survivor /\ s = todo /\ k = call /\ a = asked /\ fl = filled
            /\ dr = dropped /\ r = up /\ f = file /\ df = durableFile
            /\ Agreed(m, v, s, k, a, fl, dr, r, f, df) /\ Preserved(m, v, s, k, a, fl)
            /\ Medium(m, v, s) /\ r \in BOOLEAN /\ Promised(m, k, a, fl, dr, r)
            /\ Course(m, v, s, k, a, fl, dr, r, f, df) /\ ("power" \notin failures => v = m)
<1>1. PICK m, v, s, k, a, fl, dr, r, f, df :
        /\ m = mem /\ v = survivor /\ s = todo /\ k = call /\ a = asked /\ fl = filled
        /\ dr = dropped /\ r = up /\ f = file /\ df = durableFile
  OBVIOUS
<1>2. Agreed(m, v, s, k, a, fl, dr, r, f, df) /\ Preserved(m, v, s, k, a, fl)
  BY <1>1 DEF DInv, IInv
<1>3. "power" \notin failures => v = m
  BY <1>1 DEF survivor
<1> QED BY <1>1, <1>2, <1>3 DEF Agreed

\* A store or a flush.
LEMMA StoringData ==
    ASSUME DInv, IInv', Store \/ Flush \/ FileStep
    PROVE  DInv'
<1>1. PICK m, v, s, k, a, fl, dr, r, f, df :
        /\ m = mem /\ v = survivor /\ s = todo /\ k = call /\ a = asked /\ fl = filled
        /\ Agreed(m, v, s, k, a, fl, dr, r, f, df) /\ Preserved(m, v, s, k, a, fl)
        /\ "power" \notin failures => v = m
  BY DataFacts
<1>2. PICK p, w, u : p = ("power" \in failures) /\ w = mem' /\ u = survivor'
  OBVIOUS
<1>3. /\ todo # <<>> /\ Head(todo).do \notin ScanHead
      /\ mem' = Effect(mem, Head(todo))
      /\ survivor' = DurableAfter(mem, survivor, Head(todo), "power" \in failures)
      /\ UNCHANGED <<call, up>>
  BY StepFacts
<1>4. todo' = Tail(todo) /\ UNCHANGED <<asked, filled>>
  BY DEF Store, Flush, FileStep, program
<1>5. Typed(w) /\ Sound(w) /\ Typed(u) /\ Sound(u)
  <2>1. Medium(mem', survivor', todo')
    BY DEF IInv, Agreed
  <2> QED BY <1>2, <2>1 DEF Medium
<1>6. /\ Agreed(m, v, s, k, a, fl, dr, r, f, df) /\ s # <<>> /\ Head(s).do \notin ScanHead
      /\ Preserved(m, v, s, k, a, fl) /\ p \in BOOLEAN /\ (~p => v = m)
      /\ w = Effect(m, Head(s)) /\ u = DurableAfter(m, v, Head(s), p)
      /\ Typed(w) /\ Sound(w) /\ Typed(u) /\ Sound(u)
  <2>1. p \in BOOLEAN
    BY <1>2
  <2>2. ~p => v = m
    BY <1>1, <1>2
  <2>3. s # <<>> /\ Head(s).do \notin ScanHead /\ w = Effect(m, Head(s))
    BY <1>1, <1>2, <1>3
  <2>4. u = DurableAfter(m, v, Head(s), p)
    BY <1>1, <1>2, <1>3
  <2> QED BY <1>1, <1>5, <2>1, <2>2, <2>3, <2>4
<1>7. Preserved(w, u, Tail(s), k, a, fl)
  BY ONLY <1>6, PreservedStep
<1> QED BY <1>1, <1>2, <1>3, <1>4, <1>7 DEF DInv

LEMMA ScanData ==
    ASSUME DInv, IInv', Scan
    PROVE  DInv'
<1>1. PICK m, v, s, k, a, fl, dr, r, f, df :
        /\ m = mem /\ v = survivor /\ s = todo /\ k = call /\ a = asked /\ fl = filled
        /\ Preserved(m, v, s, k, a, fl)
        /\ Medium(m, v, s) /\ r \in BOOLEAN /\ Promised(m, k, a, fl, dr, r)
        /\ Course(m, v, s, k, a, fl, dr, r, f, df)
  BY DataFacts
<1>2. PICK t : t = todo'
  OBVIOUS
<1>3. /\ todo # <<>> /\ Head(todo).do \in ScanHead
      /\ UNCHANGED <<mem, pm, failures, call, asked, filled>>
  BY DEF Scan, ScanHead, media, program
<1>4. /\ Medium(m, v, s) /\ s # <<>> /\ Head(s).do \in ScanHead /\ r \in BOOLEAN
      /\ Promised(m, k, a, fl, dr, r) /\ Course(m, v, s, k, a, fl, dr, r, f, df)
      /\ Preserved(m, v, s, k, a, fl)
  BY <1>1, <1>3
<1>5. Preserved(m, v, t, k, a, fl)
  BY ONLY <1>4, PreservedScan
<1>6. survivor' = survivor
  BY <1>3 DEF survivor
<1> QED BY <1>1, <1>2, <1>3, <1>5, <1>6 DEF DInv

LEMMA EvictData ==
    ASSUME DInv, IInv', Evict
    PROVE  DInv'
<1>1. PICK m, v, s, k, a, fl, dr, r, f, df :
        /\ m = mem /\ v = survivor /\ s = todo /\ k = call /\ a = asked /\ fl = filled
        /\ Preserved(m, v, s, k, a, fl)
        /\ Medium(m, v, s) /\ r \in BOOLEAN /\ Promised(m, k, a, fl, dr, r)
        /\ Course(m, v, s, k, a, fl, dr, r, f, df)
  BY DataFacts
<1>2. /\ "power" \in failures /\ UNCHANGED <<mem, failures, call, todo, asked, filled>>
      /\ survivor = pm /\ survivor' = pm'
  BY DEF Evict, program, survivor
<1>3. CASE pm' = pm
  BY <1>1, <1>2, <1>3 DEF DInv
<1>4. CASE \E x \in DOMAIN mem : pm' = [pm EXCEPT ![x] = mem[x]]
  <2>1. PICK x \in DOMAIN mem : pm' = [pm EXCEPT ![x] = mem[x]]
    BY <1>4
  <2>2. PICK u : u = [v EXCEPT ![x] = m[x]]
    OBVIOUS
  <2>3. /\ Medium(m, v, s) /\ r \in BOOLEAN /\ Promised(m, k, a, fl, dr, r)
        /\ Course(m, v, s, k, a, fl, dr, r, f, df) /\ Preserved(m, v, s, k, a, fl)
        /\ x \in DOMAIN m /\ u = [v EXCEPT ![x] = m[x]]
    BY <1>1, <2>1, <2>2
  <2>4. Preserved(m, u, s, k, a, fl)
    BY ONLY <2>3, PreservedBack
  <2>5. u = survivor'
    BY <1>1, <1>2, <2>1, <2>2
  <2> QED BY <1>1, <1>2, <2>4, <2>5 DEF DInv
<1> QED BY <1>3, <1>4 DEF Evict

\* The program enters a call other than pmemalloc_activate, or opens the pool.
LEMMA EnterData ==
    ASSUME DInv, IInv', call = NoCall, UNCHANGED <<media, failures, asked, filled>>,
           call'.op # "activate"
    PROVE  DInv'
<1>1. mem' = mem /\ survivor' = survivor
  BY DEF media, survivor
<1>2. Preserved(mem, survivor, todo, NoCall, asked, filled)
  BY DEF DInv
<1>3. PICK m, v, s, a, fl, k, t :
        /\ m = mem /\ v = survivor /\ s = todo /\ a = asked /\ fl = filled
        /\ k = call' /\ t = todo'
  OBVIOUS
<1>4. Preserved(m, v, s, NoCall, a, fl) /\ k.op # "activate"
  BY <1>2, <1>3
<1>5. Preserved(m, v, t, k, a, fl)
  BY ONLY <1>4, PreservedEnter
<1> QED BY <1>1, <1>3, <1>5 DEF DInv

\* The process ends.
LEMMA GoneData ==
    ASSUME DInv, IInv', call' = NoCall, todo' = <<>>, filled' = {}, survivor' = survivor,
           mem' \in {mem, survivor}
    PROVE  DInv'
<1>1. PICK m, v, s, k, a, fl, b :
        /\ m = mem /\ v = survivor /\ s = todo /\ k = call /\ a = asked /\ fl = filled
        /\ b = asked'
  OBVIOUS
<1>2. Preserved(m, v, s, k, a, fl)
  BY <1>1 DEF DInv
<1>3. Preserved(m, v, <<>>, NoCall, b, {}) /\ Preserved(v, v, <<>>, NoCall, b, {})
  BY ONLY <1>2, PreservedGone
<1> QED BY <1>1, <1>3 DEF DInv

LEMMA FatalData ==
    ASSUME DInv, IInv', NEW why, Fatal(why)
    PROVE  DInv'
<1>1. survivor' = survivor /\ mem' = mem
  BY DEF Fatal, media, survivor
<1> QED BY <1>1, GoneData DEF Fatal

LEMMA EndsData ==
    ASSUME DInv, IInv', Exit \/ Kill \/ PowerFailure
    PROVE  DInv'
<1>1. ProcessEnds
  BY DEF Exit, Kill, PowerFailure
<1>2. survivor' = survivor
  BY <1>1 DEF Exit, Kill, PowerFailure, ProcessEnds, media, survivor
<1>3. mem' \in {mem, survivor}
  BY DEF Exit, Kill, PowerFailure, media, survivor
<1> QED BY <1>1, <1>2, <1>3, GoneData DEF ProcessEnds

LEMMA ReturnData ==
    ASSUME DInv, IInv', Return
    PROVE  DInv'
<1>1. PICK m, v, s, k, a, fl, dr, r, f, df :
        /\ m = mem /\ v = survivor /\ s = todo /\ k = call /\ a = asked /\ fl = filled
        /\ Preserved(m, v, s, k, a, fl)
        /\ r \in BOOLEAN /\ Promised(m, k, a, fl, dr, r)
        /\ Course(m, v, s, k, a, fl, dr, r, f, df)
  BY DataFacts
<1>2. /\ todo = <<>> /\ call' = NoCall /\ todo' = <<>> /\ UNCHANGED <<media, failures>>
      /\ asked' = NowAsked(call, asked) /\ filled' = {c \in filled : asked'[c] # 0}
  BY DEF Return, NowAsked
<1>3. s = <<>>
  BY <1>1, <1>2
<1>4. /\ Promised(m, k, a, fl, dr, r) /\ Course(m, v, <<>>, k, a, fl, dr, r, f, df)
      /\ r \in BOOLEAN /\ Preserved(m, v, <<>>, k, a, fl)
  BY <1>1, <1>3
<1>5. Preserved(m, v, <<>>, NoCall, NowAsked(k, a), NowFilled(k, a, fl))
  BY ONLY <1>4, PreservedReturn
<1>6. mem' = mem /\ survivor' = survivor
  BY <1>2 DEF media, survivor
<1>7. filled' = NowFilled(k, a, fl)
  BY <1>1, <1>2 DEF NowFilled
<1> QED BY <1>1, <1>2, <1>5, <1>6, <1>7 DEF DInv

LEMMA FillData ==
    ASSUME DInv, IInv', NEW c \in Chunk, Fill(c)
    PROVE  DInv'
<1>1. /\ Idle /\ asked[c] # 0 /\ filled' = filled \union {c}
      /\ UNCHANGED <<pm, failures, call, todo, asked>>
      /\ mem' = FilledWith(mem, c, asked[c])
  BY DEF Fill, FilledWith
<1>2. /\ todo = <<>> /\ call = NoCall /\ Calm(mem) /\ Apart(mem, LastClump)
      /\ Medium(mem, survivor, <<>>) /\ Promised(mem, NoCall, asked, filled, dropped, TRUE)
      /\ Typed(mem) /\ Sound(mem)
  BY <1>1, IdleFacts DEF DInv
<1>3. PICK m, v, a, fl, dr, n, w, u, g :
        /\ m = mem /\ v = survivor /\ a = asked /\ fl = filled /\ dr = dropped
        /\ n = asked[c] /\ w = mem' /\ u = survivor' /\ g = filled'
  OBVIOUS
<1>4. /\ Typed(m) /\ Sound(m) /\ Quiet(m) /\ Medium(m, v, <<>>)
      /\ Promised(m, NoCall, a, fl, dr, TRUE)
      /\ c \in Chunk /\ n = a[c] /\ n # 0 /\ w = FilledWith(m, c, n)
      /\ Preserved(m, v, <<>>, NoCall, a, fl)
  BY <1>1, <1>2, <1>3 DEF DInv, Quiet
<1>5. /\ Preserved(w, v, <<>>, NoCall, a, fl \union {c})
      /\ Preserved(w, w, <<>>, NoCall, a, fl \union {c})
  BY ONLY <1>4, PreservedFill
<1>6. u = v \/ u = w
  BY <1>1, <1>3 DEF survivor
<1>7. Preserved(w, u, <<>>, NoCall, a, g)
  BY <1>1, <1>3, <1>5, <1>6
<1> QED BY <1>1, <1>2, <1>3, <1>7 DEF DInv

LEMMA ActivateData ==
    ASSUME DInv, IInv', NEW c \in Chunk, Activate(c)
    PROVE  DInv'
<1>1. /\ Idle /\ c \in filled /\ OnList(mem[c]) # {} /\ UNCHANGED <<media, failures, asked, filled>>
      /\ call' = [op |-> "activate", block |-> c, cells |-> Named(mem[c]), n |-> 0]
      /\ todo' = ActivateSteps(c)
  BY DEF Activate, Enter, program
<1>2. Typed(mem) /\ Sound(mem) /\ call = NoCall
  BY <1>1, IdleFacts DEF DInv
<1>3. Reserved(mem, c, asked[c]) /\ c \in Clumps(mem)
  BY <1>1, HoldingFacts DEF DInv
<1>4. Ready(mem, c, "ACTIVATING")
  BY <1>1, <1>3 DEF Ready, Reserved
<1>5. PICK q \in Seq(Persists) :
        /\ ActivateSteps(c) = q \o Onset(mem, c, "ACTIVATING", <<>>)
        /\ \A j \in 1..mem[c].size : PersistOp(c + j) \in Range(q)
  BY <1>2, <1>4, ActivateIs
<1>6. mem[c].size \in Nat
  BY <1>2, <1>3, TiledFacts DEF Typed, Sound
<1>7. PICK m, v, s, k, a, fl, t :
        /\ m = mem /\ v = survivor /\ s = todo /\ k = call' /\ a = asked /\ fl = filled
        /\ t = todo'
  OBVIOUS
<1>8. a[c] \in Nat
  <2>1. Promised(mem, NoCall, asked, filled, dropped, TRUE)
    BY <1>1, IdleFacts DEF DInv
  <2> QED BY <1>7, <2>1, AskedIs
<1>9. k.op = "activate" /\ k.block = c
  BY <1>1, <1>7
<1>10. /\ Preserved(m, v, s, NoCall, a, fl) /\ k.op = "activate" /\ k.block \in fl
       /\ a[k.block] \in Nat /\ a[k.block] <= m[k.block].size /\ m[k.block].size \in Nat
       /\ q \in Seq(Persists) /\ Takes(m, k.block, t, q)
       /\ \A j \in 1..m[k.block].size : PersistOp(k.block + j) \in Range(q)
  BY <1>1, <1>2, <1>3, <1>5, <1>6, <1>7, <1>8, <1>9 DEF DInv, Reserved, Takes
<1>11. Preserved(m, v, t, k, a, fl)
  BY ONLY <1>10, PreservedActivate
<1>12. mem' = mem /\ survivor' = survivor
  BY <1>1 DEF media, survivor
<1> QED BY <1>1, <1>7, <1>11, <1>12 DEF DInv

\* A new pool has no block.
LEMMA DataInit ==
    ASSUME Init, OneKindFails
    PROVE  DInv
<1>1. IInv
  BY InvInit
<1>2. survivor = mem /\ call = NoCall /\ filled = {}
  BY DEF Init, survivor
<1>3. PICK m : m = mem
  OBVIOUS
<1>4. InUse(m) = {}
  <2>1. \A c \in Chunk : m[c].size = 0
    BY <1>3, Constants DEF Init, Blank
  <2>2. Clumps(m) \subseteq Chunk
    BY <1>1, <1>3, StateFacts, TiledFacts DEF Typed, Sound
  <2> QED BY <2>1, <2>2 DEF Clumps, InUse
<1>5. Stored(m, m, m)
  BY <1>4 DEF Stored
<1> QED BY <1>1, <1>2, <1>3, <1>5 DEF DInv, Preserved, Intact, Flushing, NoCall

\* Every step keeps what the blocks hold.
LEMMA DataNext ==
    ASSUME DInv, [Next]_vars
    PROVE  DInv'
<1>0. IInv'
  BY InvNext DEF DInv
<1>1. CASE InitPool
  BY <1>0, <1>1, EnterData DEF InitPool, NoCall, program
<1>2. ASSUME NEW n \in Request, Reserve(n) PROVE DInv'
  <2>1. CASE Fatal("no clumps found")
    BY <1>0, <2>1, FatalData
  <2>2. ASSUME NEW c \in Chunk, Enter("reserve", c, {}, n, ReserveSteps(c, n)), UNCHANGED program
        PROVE  DInv'
    BY <1>0, <1>2, <2>2, EnterData DEF Reserve, Enter, Idle, program
  <2> QED BY <1>2, <2>1, <2>2 DEF Reserve
<1>3. ASSUME NEW c \in Chunk, Fill(c) PROVE DInv'
  BY <1>0, <1>3, FillData
<1>4. ASSUME NEW c \in Chunk, Activate(c) PROVE DInv'
  BY <1>0, <1>4, ActivateData
<1>5. ASSUME NEW c \in Chunk, Free(c) PROVE DInv'
  <2>1. /\ call = NoCall /\ UNCHANGED <<media, failures, asked, filled>>
        /\ call'.op \in {"free", "discard"}
    <3>1. PICK S : S = {d \in Cell : mem[d] = c}
      OBVIOUS
    <3>2. \/ Enter("discard", c, {}, 0, FreeSteps(c))
          \/ Enter("free", c, S, 0, FreeSteps(c))
      BY <1>5, <3>1 DEF Free
    <3>3. call = NoCall /\ UNCHANGED <<asked, filled>>
      BY <1>5 DEF Free, Idle, program
    <3> QED BY <3>2, <3>3 DEF Enter
  <2> QED BY <1>0, <2>1, EnterData
<1>6. ASSUME NEW c \in Chunk, NEW d \in Cell, OnActive(c, d) PROVE DInv'
  <2>1. CASE Fatal("exceeded onactive limit")
    BY <1>0, <2>1, FatalData
  <2>2. ASSUME NEW i \in Slot, Enter("onactive", c, {d}, 0, AddOn(c, i, d, c)), UNCHANGED program
        PROVE  DInv'
    BY <1>0, <1>6, <2>2, EnterData DEF OnActive, Enter, Idle, program
  <2> QED BY <1>6, <2>1, <2>2 DEF OnActive, FreeSlot
<1>7. ASSUME NEW d \in Cell, OnFree(d) PROVE DInv'
  <2>1. CASE Fatal("exceeded onfree limit")
    BY <1>0, <2>1, FatalData
  <2>2. ASSUME NEW i \in Slot, Enter("onfree", mem[d], {d}, 0, AddOn(mem[d], i, d, NULL)),
               UNCHANGED <<asked, filled>>
        PROVE  DInv'
    BY <1>0, <1>7, <2>2, EnterData DEF OnFree, Enter, Idle
  <2> QED BY <1>7, <2>1, <2>2 DEF OnFree, FreeSlot
<1>8. CASE Return
  BY <1>0, <1>8, ReturnData
<1>9. CASE Store \/ Flush \/ FileStep
  BY <1>0, <1>9, StoringData
<1>10. CASE Scan
  BY <1>0, <1>10, ScanData
<1>11. CASE Evict
  BY <1>0, <1>11, EvictData
<1>12. CASE Exit \/ Kill \/ PowerFailure
  BY <1>0, <1>12, EndsData
<1>13. CASE UNCHANGED vars
  BY <1>0, <1>13 DEF vars, media, program, DInv, survivor
<1> QED BY <1>1, <1>2, <1>3, <1>4, <1>5, <1>6, <1>7, <1>8, <1>9, <1>10, <1>11, <1>12, <1>13
        DEF Next, Step

\* So the blocks in use hold whole objects.
LEMMA DataKeptIs == DInv => DataSurvives
<1> SUFFICES ASSUME DInv, NEW c \in InUse(survivor)
             PROVE  /\ survivor[c + 1].state = "DATA" /\ survivor[c + 1].size <= survivor[c].size
                    /\ \A k \in 1..(survivor[c + 1].size - 1) :
                            survivor[c + k] = Data(survivor[c + 1].size)
  BY DEF DataSurvives
<1>1. PICK v : v = survivor
  OBVIOUS
<1>2. PICK n \in Request : n <= v[c].size /\ Has(v, c, n)
  BY <1>1 DEF DInv, Preserved, Stored
<1>3. n \in Nat /\ 2 <= n
  BY <1>2, RequestIs
<1>4. v[c + 1] = Data(n)
  BY <1>2, <1>3 DEF Has
<1>5. v[c + 1].state = "DATA" /\ v[c + 1].size = n
  BY <1>4 DEF Data, Blank
<1> QED BY <1>1, <1>2, <1>5 DEF Has

-----------------------------------------------------------------------------
(* The theorems *)

\* Memory and medium have headers and pointers in their places, and the call,
\* its steps and the program's notes are what pmemalloc.c and its caller make
\* of them, in every behaviour in which processes or the power fail, not both.
THEOREM Typing == Spec /\ OneKindFails => []TypeOK
  BY Invariance, InvTypeOK, PTL

\* A walk from the first clump over the sizes, as pmemalloc_init's recovery
\* takes it after a failure at any point, ends at the marker and meets only
\* headers that the library wrote.
THEOREM Tiling == Spec /\ OneKindFails => []PoolTiled
  BY Invariance, InvTiled, PTL

\* Of what the recovery finds in use, the program has a pointer to each block,
\* and each of its pointers is to such a block: pmemalloc_activate and
\* pmemalloc_free leak nothing and leave nothing dangling, wherever they stop.
THEOREM NothingLeaks == Spec /\ OneKindFails => []NoLeak
  BY Invariance, InvNoLeak, PTL

\* A call that returns leaves no clump in transit, no two free clumps side by
\* side and nothing that is not durable, and the reservations as asked for.
THEOREM Settling == Spec /\ OneKindFails => []CallsSettle
  BY Invariance, InvSettle, PTL

\* A block that a failure leaves in use holds, durably and to the last line, the
\* object that the program wrote to it before it called pmemalloc_activate.
THEOREM DataKept == Spec /\ OneKindFails => []DataSurvives
<1>1. Init /\ OneKindFails => DInv
  BY DataInit
<1>2. DInv /\ [Next]_vars => DInv'
  BY DataNext
<1> QED BY <1>1, <1>2, DataKeptIs, PTL DEF Spec

\* pmemalloc_activate and pmemalloc_free, of many stores and flushes each, are
\* atomic: what recovery would find changes in one instant of the call, from
\* what it was before it to all that the call promises.
THEOREM Atomicity == Spec /\ OneKindFails => FailureAtomic
<1>1. Init /\ OneKindFails => AInv /\ Heap!Init
  BY HeapInit
<1>2. AInv /\ [Next]_vars => AInv' /\ [Heap!Next]_(Heap!vars)
  BY HeapNext
<1> QED BY <1>1, <1>2, PTL DEF Spec, FailureAtomic, Heap!Spec
=============================================================================
