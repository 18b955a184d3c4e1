----------------------------- MODULE PmemSteps -----------------------------
(***************************************************************************)
(* Lemmas about single steps of the persistent memory allocator, for any   *)
(* pool, length of the on lists, set of requests and cells of the program. *)
(*                                                                         *)
(* The order is that of the argument: what a walk over the sizes meets,    *)
(* sequences of stores and flushes, what one store does to a sound memory, *)
(* and, call by call, that the step which is next in the call leaves       *)
(* memory sound and the rest of the steps a course of the call again.      *)
(***************************************************************************)
EXTENDS PmemInvariant, FiniteSetTheorems, SequenceTheorems, TLAPS

-----------------------------------------------------------------------------
(* A non-empty set of numbers has a least element *)

LEMMA LeastElement ==
    ASSUME NEW S \in SUBSET Nat, S # {}
    PROVE  \E n \in S : \A y \in S : n <= y
<1> DEFINE T == {0..n : n \in S}
<1>1. T \subseteq FiniteSubsetsOf(Nat) /\ T # {}
  <2>1. ASSUME NEW n \in S
        PROVE  0..n \in FiniteSubsetsOf(Nat)
    <3>1. IsFiniteSet(0..n) /\ 0..n \subseteq Nat
      BY FS_Interval
    <3> QED
      BY <3>1 DEF FiniteSubsetsOf
  <2> QED
    BY <2>1
<1>2. PICK X \in T : \A Y \in T : <<Y, X>> \notin StrictSubsetOrdering(Nat)
  BY <1>1, WFMin, FS_StrictSubsetOrderingWellFounded
<1>3. PICK n \in S : X = 0..n
  BY <1>2
<1>4. ASSUME NEW y \in S
      PROVE  n <= y
  <2> SUFFICES ASSUME y < n
               PROVE  FALSE
    OBVIOUS
  <2>1. 0..y \subseteq 0..n /\ n \in 0..n /\ n \notin 0..y
    OBVIOUS
  <2>2. 0..y \in T /\ 0..y \subseteq Nat /\ 0..n \subseteq Nat
    OBVIOUS
  <2>3. <<0..y, 0..n>> \in StrictSubsetOrdering(Nat)
    BY <2>1, <2>2 DEF StrictSubsetOrdering
  <2> QED
    BY <1>2, <1>3, <2>2, <2>3
<1> QED
  BY <1>4

LEMMA Constants ==
    /\ LastClump \in Nat \ {0} /\ PMEM_NUM_ON \in Nat \ {0}
    /\ Chunk = 0..LastClump /\ Chunk \subseteq Nat
    /\ 0 \in Chunk /\ LastClump \in Chunk
    /\ Slot = 1..PMEM_NUM_ON /\ Slot \subseteq Nat
    /\ Request \subseteq 2..LastClump /\ Request \subseteq Chunk
    /\ Cell \cap Chunk = {} /\ HDR \notin Chunk /\ HDR \notin Cell
    /\ NULL \notin Chunk /\ NULL \notin Cell
  BY PoolAssumption DEF Chunk, Slot

-----------------------------------------------------------------------------
(* The walk over the clumps *)

\* What is reached from c is c and what is reached from the next one.
LEMMA ReachStep ==
    ASSUME NEW m, Sized(m), NEW c \in Chunk
    PROVE  /\ Goes(m, c) => c + m[c].size \in Chunk
           /\ Reach(m, c) = {c} \union IF Goes(m, c) THEN Reach(m, c + m[c].size) ELSE {}
<1>1. \A x \in Chunk : Goes(m, x) => x + m[x].size \in Chunk
  BY Constants DEF Sized, Goes
<1>2. CASE ~Goes(m, c)
  <2>1. {c} \in SUBSET Chunk /\ Closed(m, {c})
    BY <1>2 DEF Closed
  <2> QED BY <2>1, <1>2 DEF Reach
<1>3. CASE Goes(m, c)
  <2> DEFINE n == c + m[c].size
  <2>0. n \in Chunk
    BY <1>1, <1>3
  <2> HIDE DEF n
  <2>1. ASSUME NEW b \in Reach(m, c), b # c PROVE b \in Reach(m, n)
    <3> SUFFICES ASSUME NEW V \in SUBSET Chunk, n \in V, Closed(m, V) PROVE b \in V
      BY <2>1 DEF Reach
    <3>1. V \union {c} \in SUBSET Chunk /\ Closed(m, V \union {c})
      BY DEF Closed, n
    <3> QED BY <3>1, <2>1 DEF Reach
  <2>2. ASSUME NEW b \in Reach(m, n) PROVE b \in Reach(m, c)
    <3> SUFFICES ASSUME NEW V \in SUBSET Chunk, c \in V, Closed(m, V) PROVE b \in V
      BY DEF Reach
    <3>1. n \in V
      BY <1>3 DEF Closed, n
    <3> QED BY <3>1 DEF Reach
  <2>3. c \in Reach(m, c)
    BY DEF Reach
  <2>4. Reach(m, c) = {c} \union Reach(m, n)
    BY <2>1, <2>2, <2>3
  <2> QED BY <2>4, <2>0, <1>3 DEF n
<1> QED BY <1>1, <1>2, <1>3

LEMMA WalkReach ==
    ASSUME NEW m, Sized(m)
    PROVE  Walk(m) = Reach(m, 0)
<1> DEFINE Next1(f, c) == {c} \union IF m[c].size = 0 \/ c + m[c].size > LastClump THEN {} ELSE f[c + m[c].size]
           IsWalk(f) == f = [c \in Chunk |-> Next1(f, c)]
           r == [c \in Chunk |-> Reach(m, c)]
<1>1. Walk(m) = (CHOOSE f : IsWalk(f))[0]
  BY DEF Walk
<1>2. IsWalk(r)
  <2>1. ASSUME NEW c \in Chunk PROVE Reach(m, c) = Next1(r, c)
    <3>1. m[c].size \in Nat /\ c \in Nat /\ LastClump \in Nat
      BY Constants DEF Sized
    <3>2. (m[c].size = 0 \/ c + m[c].size > LastClump) <=> ~Goes(m, c)
      BY <3>1 DEF Goes
    <3> QED BY <3>2, ReachStep
  <2> QED BY <2>1
<1>3. PICK f : IsWalk(f) /\ Walk(m) = f[0]
  <2>1. IsWalk(CHOOSE f : IsWalk(f))
    <3> HIDE DEF IsWalk, r
    <3> QED BY <1>2
  <2> QED BY <1>1, <2>1
<1>4. \A c \in Chunk : f[c] = Reach(m, c)
  <2> DEFINE Bad == {LastClump - c : c \in {b \in Chunk : f[b] # Reach(m, b)}}
  <2> SUFFICES ASSUME Bad # {} PROVE FALSE
    OBVIOUS
  <2>1. Bad \in SUBSET Nat
    BY Constants
  <2>2. PICK n \in Bad : \A y \in Bad : n <= y
    BY <2>1, LeastElement
  <2>3. PICK c \in Chunk : f[c] # Reach(m, c) /\ n = LastClump - c
    BY <2>2
  <2>4. m[c].size \in Nat /\ c \in Nat /\ LastClump \in Nat
    BY Constants DEF Sized
  <2>5. f[c] = Next1(f, c)
    BY <1>3
  <2>6. CASE ~Goes(m, c)
    BY <2>3, <2>4, <2>5, <2>6, ReachStep DEF Goes
  <2>7. CASE Goes(m, c)
    <3>1. PICK d \in Chunk : d = c + m[c].size /\ d > c
      BY <2>7, <2>4, ReachStep DEF Goes
    <3>2. f[d] = Reach(m, d)
      <4> SUFFICES ASSUME f[d] # Reach(m, d) PROVE FALSE
        OBVIOUS
      <4>1. LastClump - d \in Bad
        OBVIOUS
      <4>2. LastClump - d < LastClump - c
        BY <2>4, <3>1, Constants
      <4>3. n <= LastClump - d
        BY <4>1, <2>2
      <4> QED BY <4>2, <4>3, <2>3, <2>4, <3>1, Constants
    <3>3. f[c] = {c} \union f[d]
      BY <2>4, <2>5, <2>7, <3>1 DEF Goes
    <3>4. Reach(m, c) = {c} \union Reach(m, d)
      BY <2>7, <3>1, ReachStep
    <3> QED BY <2>3, <3>2, <3>3, <3>4
  <2> QED BY <2>6, <2>7
<1> QED BY <1>3, <1>4, Constants

\* The walk is the least set that a walk cannot leave.
LEMMA WalkLeast ==
    ASSUME NEW m, Sized(m)
    PROVE  /\ Walk(m) \subseteq Chunk /\ 0 \in Walk(m)
           /\ Closed(m, Walk(m))
           /\ \A V \in SUBSET Chunk : 0 \in V /\ Closed(m, V) => Walk(m) \subseteq V
<1>1. Walk(m) = Reach(m, 0)
  BY WalkReach
<1>2. Closed(m, Reach(m, 0))
  <2> SUFFICES ASSUME NEW c \in Reach(m, 0), Goes(m, c) PROVE c + m[c].size \in Reach(m, 0)
    BY DEF Closed
  <2>1. c + m[c].size \in Chunk
    BY ReachStep DEF Reach
  <2> QED BY <2>1 DEF Reach, Closed
<1> QED BY <1>1, <1>2, Constants DEF Reach

\* The walk does not jump over one of its clumps.
LEMMA WalkDense ==
    ASSUME NEW m, Sized(m), NEW c \in Walk(m), NEW b \in Walk(m), c < b
    PROVE  Goes(m, c) /\ c + m[c].size <= b
<1> DEFINE Ok(x) == \A y \in Walk(m) : x < y => Goes(m, x) /\ x + m[x].size <= y
           Bad == {x \in Walk(m) : ~Ok(x)}
<1>0. Walk(m) \subseteq Chunk /\ 0 \in Walk(m) /\ Closed(m, Walk(m))
  BY WalkLeast
<1> SUFFICES ASSUME Bad # {} PROVE FALSE
  OBVIOUS
<1>1. Bad \in SUBSET Nat
  BY <1>0, Constants
<1>2. PICK x \in Bad : \A y \in Bad : x <= y
  BY <1>1, LeastElement
<1>3. x \in Walk(m) /\ x \in Nat /\ m[x].size \in Nat /\ LastClump \in Nat
  BY <1>0, <1>1, Constants DEF Sized
<1> DEFINE V == {y \in Walk(m) : y <= x \/ (Goes(m, x) /\ x + m[x].size <= y)}
<1>4. V \in SUBSET Chunk /\ 0 \in V
  BY <1>0, <1>3
<1>5. ASSUME NEW y \in V, Goes(m, y) PROVE y + m[y].size \in V
  <2>1. y + m[y].size \in Walk(m) /\ y \in Nat /\ m[y].size \in Nat /\ m[y].size # 0
    BY <1>0, <1>5, Constants DEF Closed, Sized, Goes
  <2>2. CASE y < x
    <3>1. y \notin Bad
      BY <1>2, <1>3, <2>1, <2>2
    <3>2. y + m[y].size <= x
      BY <3>1, <1>3, <2>2
    <3> QED BY <3>2, <2>1
  <2>3. CASE y = x
    BY <2>1, <2>3, <1>5, <1>3
  <2>4. CASE x < y
    BY <2>1, <2>4, <1>3
  <2> QED BY <2>1, <2>2, <2>3, <2>4, <1>3
<1>6. Walk(m) \subseteq V
  <2>1. Closed(m, V)
    BY <1>5 DEF Closed
  <2> HIDE DEF V
  <2> QED BY <2>1, <1>4, WalkLeast
<1>7. Ok(x)
  BY <1>6, <1>3, <1>0, Constants
<1> QED BY <1>7

\* The walk depends on the sizes it finds.
LEMMA WalkSame ==
    ASSUME NEW m, Sized(m), NEW w, Sized(w), \A c \in Walk(m) : w[c].size = m[c].size
    PROVE  Walk(w) = Walk(m)
<1>1. Closed(w, Walk(m))
  BY WalkLeast DEF Closed, Goes
<1>2. Walk(w) \subseteq Walk(m)
  BY <1>1, WalkLeast
<1>3. Closed(m, Walk(w))
  BY <1>2, WalkLeast DEF Closed, Goes
<1> QED BY <1>2, <1>3, WalkLeast

\* Clumps from c up to e become one.
LEMMA WalkUnite ==
    ASSUME NEW m, Sized(m), NEW w, Sized(w), NEW c \in Walk(m), NEW e \in Walk(m), c < e,
           \A b \in Walk(m) \ {c} : w[b].size = m[b].size,
           w[c].size = e - c
    PROVE  Walk(w) = {b \in Walk(m) : b <= c \/ e <= b}
<1> DEFINE V == {b \in Walk(m) : b <= c \/ e <= b}
<1>0. /\ Walk(m) \subseteq Chunk /\ Walk(m) \subseteq Nat /\ 0 \in Walk(m)
      /\ c \in Nat /\ e \in Nat /\ LastClump \in Nat /\ e <= LastClump
      /\ \A b \in Walk(m) : m[b].size \in Nat /\ w[b].size \in Nat
  BY WalkLeast, Constants DEF Sized
<1>1. ASSUME NEW b \in V, Goes(w, b) PROVE b + w[b].size \in V
  <2>1. CASE b = c
    BY <2>1, <1>0
  <2>2. CASE b # c
    <3>1. w[b].size = m[b].size /\ Goes(m, b)
      BY <1>1, <2>2 DEF Goes
    <3>2. b + m[b].size \in Walk(m)
      BY <3>1, WalkLeast DEF Closed
    <3>3. b < c => b + m[b].size <= c
      BY WalkDense
    <3> QED BY <3>1, <3>2, <3>3, <2>2, <1>0
  <2> QED BY <2>1, <2>2
<1>2. Walk(w) \subseteq V
  <2>1. Closed(w, V) /\ V \in SUBSET Chunk /\ 0 \in V
    BY <1>0, <1>1 DEF Closed
  <2> HIDE DEF V
  <2> QED BY <2>1, WalkLeast
<1>3. c \in Walk(w)
  <2> SUFFICES ASSUME c \notin Walk(w) PROVE FALSE
    OBVIOUS
  <2>1. Closed(m, Walk(w))
    BY <1>2, WalkLeast DEF Closed, Goes
  <2>2. Walk(m) \subseteq Walk(w)
    BY <2>1, WalkLeast
  <2> QED BY <2>2
<1>4. e \in Walk(w)
  <2>1. Goes(w, c) /\ c + w[c].size = e
    BY <1>0 DEF Goes
  <2> QED BY <2>1, <1>3, WalkLeast DEF Closed
<1> DEFINE U == Walk(w) \union {b \in Walk(m) : c < b /\ b < e}
<1>5. ASSUME NEW b \in U, Goes(m, b) PROVE b + m[b].size \in U
  <2>0. b \in Walk(m) /\ b + m[b].size \in Walk(m)
    BY <1>2, <1>5, WalkLeast DEF Closed
  <2>1. CASE c <= b /\ b < e
    <3>1. b + m[b].size <= e
      BY <2>0, <2>1, WalkDense
    <3>2. c < b + m[b].size
      BY <2>0, <2>1, <1>0, <1>5 DEF Goes
    <3> QED BY <3>1, <3>2, <2>0, <1>0, <1>4
  <2>2. CASE ~(c <= b /\ b < e)
    <3>1. b \in Walk(w) /\ b # c
      BY <2>0, <2>2, <1>0, <1>5
    <3>2. w[b].size = m[b].size /\ Goes(w, b)
      BY <2>0, <3>1, <1>5 DEF Goes
    <3> QED BY <3>1, <3>2, WalkLeast DEF Closed
  <2> QED BY <2>1, <2>2
<1>6. Walk(m) \subseteq U
  <2>1. Closed(m, U) /\ U \in SUBSET Chunk /\ 0 \in U
    BY <1>0, <1>5, WalkLeast DEF Closed
  <2> HIDE DEF U
  <2> QED BY <2>1, WalkLeast
<1>7. V \subseteq Walk(w)
  BY <1>6, <1>0
<1> QED BY <1>2, <1>7

\* The clump c is cut after k chunks.
LEMMA WalkCut ==
    ASSUME NEW m, Sized(m), NEW w, Sized(w), NEW c \in Walk(m), Goes(m, c),
           NEW k \in Nat, 0 < k, k < m[c].size,
           \A b \in Walk(m) \ {c} : w[b].size = m[b].size,
           w[c].size = k, w[c + k].size = m[c].size - k
    PROVE  Walk(w) = Walk(m) \union {c + k}
<1> DEFINE V == Walk(m) \union {c + k}
           e == c + m[c].size
<1>0. /\ Walk(m) \subseteq Chunk /\ Walk(m) \subseteq Nat /\ 0 \in Walk(m)
      /\ c \in Nat /\ e \in Nat /\ LastClump \in Nat /\ e <= LastClump
      /\ c + k \in Chunk /\ c + k \in Nat
      /\ \A b \in Walk(m) : m[b].size \in Nat /\ w[b].size \in Nat
  BY WalkLeast, Constants, SMTT(30) DEF Sized, Goes
<1>1. c + k \notin Walk(m) /\ e \in Walk(m)
  <2>1. c < c + k /\ c + k < c + m[c].size
    BY <1>0
  <2>2. c + k \in Walk(m) => c + m[c].size <= c + k
    BY <2>1, WalkDense
  <2> QED BY <2>1, <2>2, <1>0, WalkLeast DEF Closed
<1>2. (c + k) + w[c + k].size = e /\ Goes(w, c + k)
  BY <1>0 DEF Goes
<1>2a. c + w[c].size = c + k /\ Goes(w, c)
  BY <1>0 DEF Goes
<1>3. ASSUME NEW b \in V, Goes(w, b) PROVE b + w[b].size \in V
  <2>1. CASE b = c
    BY <2>1, <1>2a
  <2>2. CASE b = c + k
    BY <2>2, <1>2, <1>1
  <2>3. CASE b # c /\ b # c + k
    <3>1. w[b].size = m[b].size /\ Goes(m, b)
      BY <1>3, <2>3 DEF Goes
    <3> QED BY <3>1, <2>3, WalkLeast DEF Closed
  <2> QED BY <2>1, <2>2, <2>3
<1>4. Walk(w) \subseteq V
  <2>1. Closed(w, V) /\ V \in SUBSET Chunk /\ 0 \in V
    BY <1>0, <1>3 DEF Closed
  <2> HIDE DEF V
  <2> QED BY <2>1, WalkLeast
<1> DEFINE U == Walk(w) \ {c + k}
<1>5. ASSUME NEW b \in U, Goes(m, b) PROVE b + m[b].size \in U
  <2>0. b \in Walk(m) /\ b + m[b].size \in Walk(m) /\ b + m[b].size # c + k
    BY <1>4, <1>5, <1>1, WalkLeast DEF Closed
  <2>1. CASE b = c
    <3>1. c + k \in Walk(w)
      BY <2>1, <1>2a, WalkLeast DEF Closed
    <3>2. e \in Walk(w)
      BY <3>1, <1>2, WalkLeast DEF Closed
    <3> QED BY <3>2, <2>0, <2>1
  <2>2. CASE b # c
    <3>1. w[b].size = m[b].size /\ Goes(w, b)
      BY <2>0, <2>2, <1>5 DEF Goes
    <3> QED BY <3>1, <2>0, WalkLeast DEF Closed
  <2> QED BY <2>1, <2>2
<1>6. Walk(m) \subseteq U
  <2>1. Closed(m, U) /\ U \in SUBSET Chunk /\ 0 \in U
    BY <1>0, <1>1, <1>5, WalkLeast DEF Closed
  <2> HIDE DEF U
  <2> QED BY <2>1, WalkLeast
<1>7. c + k \in Walk(w)
  BY <1>6, <1>2a, WalkLeast DEF Closed
<1> QED BY <1>4, <1>6, <1>7

-----------------------------------------------------------------------------
(* Memories *)

LEMMA MediumFacts ==
    ASSUME NEW m, MediumOK(m)
    PROVE  /\ Sized(m) /\ DOMAIN m = Chunk \union Cell \union {HDR}
           /\ \A c \in Chunk : 
                /\ m[c] \in Line /\ m[c].size \in 0..LastClump
                /\ m[c].state \in States \union {"DATA"}
                /\ m[c].off \in [Slot -> Cell \union {NULL}]
                /\ m[c].ptr \in [Slot -> Chunk \union {NULL}]
           /\ \A d \in Cell : m[d] \in Chunk \union {NULL}
  BY Constants DEF MediumOK, Line, Sized

LEMMA BlankLine == Blank \in Line /\ Blank.size = 0 /\ Blank.state = "FREE" /\ EmptyList(Blank)
  BY Constants DEF Blank, Line, States, EmptyList

LEMMA OnListIs ==
    ASSUME NEW l
    PROVE  /\ Cardinality(OnList(l)) \in 0..PMEM_NUM_ON
           /\ OnList(l) = 1..Cardinality(OnList(l))
           /\ OnList(l) \subseteq Slot
           /\ \A i \in OnList(l) : l.off[i] # NULL
<1> DEFINE K == {i \in Slot : l.off[i] = NULL}
<1>1. \E n \in 0..PMEM_NUM_ON : OnList(l) = 1..n
  <2>1. CASE K = {}
    <3>1. OnList(l) = 1..PMEM_NUM_ON
      BY <2>1, Constants DEF OnList
    <3> QED BY <3>1, Constants
  <2>2. CASE K # {}
    <3>0. K \in SUBSET Nat
      BY Constants
    <3>1. PICK n \in K : \A y \in K : n <= y
      BY <2>2, <3>0, LeastElement
    <3>2. n \in 1..PMEM_NUM_ON
      BY Constants
    <3>3. \A i \in Slot : i < n <=> \A j \in 1..i : l.off[j] # NULL
      <4>1. ASSUME NEW i \in Slot, i < n, NEW j \in 1..i PROVE l.off[j] # NULL
        BY <3>1, <3>2, <4>1, Constants
      <4>2. ASSUME NEW i \in Slot, \A j \in 1..i : l.off[j] # NULL PROVE i < n
        BY <3>1, <3>2, <4>2, Constants
      <4> QED BY <4>1, <4>2
    <3>4. OnList(l) = {i \in Slot : i < n}
      BY <3>3 DEF OnList
    <3>5. OnList(l) = 1..(n - 1) /\ n - 1 \in 0..PMEM_NUM_ON
      BY <3>4, <3>2, Constants
    <3> QED BY <3>5
  <2> QED BY <2>1, <2>2
<1>2. PICK n \in 0..PMEM_NUM_ON : OnList(l) = 1..n
  BY <1>1
<1>3. Cardinality(1..n) = n
  BY FS_Interval, Constants
<1>4. \A i \in OnList(l) : i \in Slot /\ l.off[i] # NULL
  BY Constants DEF OnList
<1> QED BY <1>2, <1>3, <1>4

\* The names on a list are cells.
LEMMA NamedCells ==
    ASSUME NEW m, MediumOK(m), NEW c \in Chunk
    PROVE  /\ Named(m[c]) \subseteq Cell
           /\ \A d \in Named(m[c]) : \E i \in OnList(m[c]) : m[c].off[i] = d
           /\ \A i \in OnList(m[c]) : m[c].off[i] \in Cell /\ i \in Slot
<1>1. \A i \in OnList(m[c]) : i \in Slot /\ m[c].off[i] # NULL
  BY OnListIs
<1>2. m[c].off \in [Slot -> Cell \union {NULL}]
  BY MediumFacts
<1> QED BY <1>1, <1>2 DEF Named

\* The clumps of a tiled pool.
LEMMA TiledFacts ==
    ASSUME NEW m, MediumOK(m), Tiled(m)
    PROVE  /\ Clumps(m) \subseteq Walk(m) /\ Walk(m) \subseteq Chunk /\ 0 \in Walk(m)
           /\ \A c \in Clumps(m) :
                /\ c \in Chunk /\ m[c].size \in Nat \ {0} /\ m[c].state \in States
                /\ Goes(m, c) /\ c + m[c].size \in Walk(m) /\ c # LastClump
           /\ \A c, b \in Walk(m) : c < b => c \in Clumps(m) /\ c + m[c].size <= b
           /\ \A c \in Walk(m) : c \in Clumps(m) \/ m[c].size = 0
<1>1. Sized(m) /\ Walk(m) \subseteq Chunk /\ 0 \in Walk(m)
  BY MediumFacts, WalkLeast
<1>2. \A c \in Clumps(m) : c + m[c].size \in Chunk
  BY <1>1 DEF Tiled
<1>3. \A c \in Clumps(m) : c \in Walk(m) /\ m[c].size # 0
  BY DEF Clumps
<1>4. ASSUME NEW c \in Clumps(m)
      PROVE  /\ c \in Chunk /\ m[c].size \in Nat \ {0} /\ m[c].state \in States
             /\ Goes(m, c) /\ c + m[c].size \in Walk(m) /\ c # LastClump
  BY <1>1, <1>2, <1>3, Constants DEF Sized, Goes, Tiled
<1>5. ASSUME NEW c \in Walk(m), NEW b \in Walk(m), c < b
      PROVE  c \in Clumps(m) /\ c + m[c].size <= b
  BY <1>1, <1>5, WalkDense DEF Goes, Clumps
<1> QED BY <1>1, <1>3, <1>4, <1>5 DEF Clumps

\* The walk of a tiled pool ends at the last clump.
LEMMA WalkEnds ==
    ASSUME NEW m, MediumOK(m), Tiled(m), m[0].size # 0
    PROVE  LastClump \in Walk(m) /\ \A c \in Walk(m) : m[c].size = 0 => c = LastClump
<1>0. /\ Walk(m) \subseteq Chunk /\ 0 \in Walk(m)
      /\ \A c \in Walk(m) : m[c].size = 0 => c \in {0, LastClump}
  BY TiledFacts DEF Tiled
<1> DEFINE S == {LastClump - c : c \in Walk(m)}
<1>1. S \in SUBSET Nat /\ S # {}
  BY <1>0, Constants
<1>2. PICK n \in S : \A y \in S : n <= y
  BY <1>1, LeastElement
<1>3. PICK c \in Walk(m) : n = LastClump - c
  BY <1>2
<1>4. m[c].size = 0
  <2> SUFFICES ASSUME m[c].size # 0 PROVE FALSE
    OBVIOUS
  <2>1. c \in Clumps(m)
    BY DEF Clumps
  <2>2. PICK b \in Walk(m) : b = c + m[c].size /\ b > c
    BY <2>1, TiledFacts, Constants
  <2>3. LastClump - b \in S
    OBVIOUS
  <2>4. n <= LastClump - b
    BY <2>3, <1>2
  <2>5. b \in Nat /\ c \in Nat /\ LastClump \in Nat
    BY <1>0, Constants
  <2> QED BY <2>2, <2>4, <2>5, <1>3
<1>5. c # 0
  BY <1>4
<1>6. c = LastClump
  BY <1>0, <1>3, <1>4, <1>5
<1> QED BY <1>0, <1>6

\* Whether a memory is sound depends on the clumps' headers and on the cells.
LEMMA SoundSame ==
    ASSUME NEW m, MediumOK(m), NEW w, MediumOK(w), Sound(m),
           \A a \in Walk(m) \union Cell : w[a] = m[a]
    PROVE  Walk(w) = Walk(m) /\ Clumps(w) = Clumps(m) /\ InTransit(w) = InTransit(m) /\ Sound(w)
<1>1. Walk(w) = Walk(m)
  BY WalkSame, MediumFacts
<1>2. Clumps(w) = Clumps(m) /\ \A c \in Clumps(m) : w[c] = m[c]
  BY <1>1 DEF Clumps
<1>3. InTransit(w) = InTransit(m)
  BY <1>2 DEF InTransit
<1>5. Tiled(w)
  <2>1. \A c \in Walk(m) : w[c].size = m[c].size
    OBVIOUS
  <2>2. \A c \in Clumps(m) : w[c] = m[c]
    BY <1>2
  <2> QED BY <2>1, <2>2, <1>1, <1>2 DEF Sound, Tiled
<1>6. PointersOK(w)
  BY <1>2 DEF Sound, PointersOK
<1>7. ASSUME NEW c \in Clumps(m) PROVE ClumpOK(w, c)
  <2>1. \A i \in OnList(m[c]) : m[c].off[i] \in Cell
    BY NamedCells, TiledFacts DEF Sound
  <2>2. w[c] = m[c] /\ ClumpOK(m, c)
    BY <1>2 DEF Sound
  <2>3. ASSUME NEW p, NEW V, ListSets(m, c, p, V) PROVE ListSets(w, c, p, V)
    BY <2>1, <2>2, <2>3 DEF ListSets
  <2> QED BY <2>2, <2>3 DEF ClumpOK, ActiveOK, ActivatingOK, FreeingOK
<1> QED BY <1>1, <1>2, <1>3, <1>5, <1>6, <1>7 DEF Sound

-----------------------------------------------------------------------------
(* Sequences of steps *)

LEMMA RangeConcat ==
    ASSUME NEW X, NEW s \in Seq(X), NEW t \in Seq(X)
    PROVE  /\ s \o t \in Seq(X)
           /\ Range(s \o t) = Range(s) \union Range(t)
           /\ Range(s) \subseteq X
<1>1. /\ s \o t \in Seq(X) /\ Len(s \o t) = Len(s) + Len(t)
      /\ \A i \in 1..(Len(s) + Len(t)) :
            (s \o t)[i] = IF i <= Len(s) THEN s[i] ELSE t[i - Len(s)]
  BY ConcatProperties
<1>2. /\ DOMAIN s = 1..Len(s) /\ DOMAIN t = 1..Len(t) /\ DOMAIN (s \o t) = 1..(Len(s) + Len(t))
      /\ Len(s) \in Nat /\ Len(t) \in Nat
  BY <1>1, LenProperties
<1>3. ASSUME NEW x \in Range(s \o t) PROVE x \in Range(s) \union Range(t)
  <2>1. PICK i \in 1..(Len(s) + Len(t)) : x = (s \o t)[i]
    BY <1>2 DEF Range
  <2>2. CASE i <= Len(s)
    BY <1>1, <1>2, <2>1, <2>2 DEF Range
  <2>3. CASE i > Len(s)
    <3>1. i - Len(s) \in 1..Len(t) /\ x = t[i - Len(s)]
      BY <1>1, <1>2, <2>1, <2>3
    <3> QED BY <3>1, <1>2 DEF Range
  <2> QED BY <2>1, <2>2, <2>3, <1>2
<1>4. ASSUME NEW i \in 1..Len(s) PROVE s[i] \in Range(s \o t)
  <2>1. i \in 1..(Len(s) + Len(t)) /\ (s \o t)[i] = s[i]
    BY <1>1, <1>2
  <2> QED BY <2>1, <1>2 DEF Range
<1>5. ASSUME NEW i \in 1..Len(t) PROVE t[i] \in Range(s \o t)
  <2>1. Len(s) + i \in 1..(Len(s) + Len(t)) /\ (s \o t)[Len(s) + i] = t[i]
    BY <1>1, <1>2
  <2> QED BY <2>1, <1>2 DEF Range
<1>6. Range(s) \subseteq X
  BY <1>2, ElementOfSeq DEF Range
<1> QED BY <1>1, <1>2, <1>3, <1>4, <1>5, <1>6 DEF Range

LEMMA FlattenSteps ==
    ASSUME NEW X, NEW S, S \subseteq Seq(X), <<>> \in S, \A x, y \in S : x \o y \in S,
           NEW n \in Nat, NEW ss \in [1..n -> S]
    PROVE  FlattenSeq(ss) \in S /\ \A i \in 1..n : Range(ss[i]) \subseteq Range(FlattenSeq(ss))
<1>1. ss \in Seq(S) /\ Len(ss) = n
  <2>1. ss \in Seq(S)
    BY SeqDef
  <2> QED BY <2>1, LenProperties
<1> DEFINE Step1(f, i) == IF i = 1 THEN ss[i] ELSE f[i - 1] \o ss[i]
           IsFlat(f, k) == f = [i \in 1..k |-> Step1(f, i)]
<1>2. CASE n = 0
  <2>1. FlattenSeq(ss) = ss /\ ss = <<>>
    BY <1>1, <1>2, EmptySeq DEF FlattenSeq
  <2> QED BY <2>1, <1>2
<1>3. CASE n # 0
  <2>1. FlattenSeq(ss) = (CHOOSE f : IsFlat(f, n))[n]
    <3>1. Len(ss) # 0 /\ Len(ss) = n
      BY <1>1, <1>3
    <3>2. FlattenSeq(ss) = (CHOOSE f : f = [i \in 1..Len(ss) |-> IF i = 1 THEN ss[i] ELSE f[i - 1] \o ss[i]])[Len(ss)]
      BY <3>1 DEF FlattenSeq
    <3> QED BY <3>1, <3>2
  <2>2. \A k \in 1..n : \E f : IsFlat(f, k)
    <3> DEFINE Flat(k) == \E f : IsFlat(f, k)
               Bad == {k \in 1..n : ~Flat(k)}
    <3> SUFFICES ASSUME Bad # {} PROVE FALSE
      OBVIOUS
    <3>1. PICK k \in Bad : \A y \in Bad : k <= y
      <4> HIDE DEF Flat
      <4>1. Bad \in SUBSET Nat
        OBVIOUS
      <4> QED BY <4>1, LeastElement
    <3>2. CASE k = 1
      <4>1. IsFlat([i \in 1..1 |-> ss[i]], 1)
        OBVIOUS
      <4> QED BY <4>1, <3>2
    <3>3. CASE k # 1
      <4>1. k - 1 \in 1..n /\ ~(k - 1 >= k) /\ k \in Nat
        BY <3>3
      <4>2. PICK g : IsFlat(g, k - 1)
        <5> HIDE DEF IsFlat
        <5>1. k - 1 \notin Bad
          BY <4>1, <3>1
        <5>2. Flat(k - 1)
          BY <4>1, <5>1
        <5> QED BY <5>2
      <4> DEFINE h == [i \in 1..k |-> IF i = k THEN g[k - 1] \o ss[k] ELSE g[i]]
      <4>3. \A i \in 1..k : h[i] = Step1(h, i)
        <5>1. \A i \in 1..(k - 1) : h[i] = g[i] /\ g[i] = Step1(g, i)
          <6>1. \A i \in 1..(k - 1) : i \in 1..k /\ i # k
            BY <4>1
          <6>2. \A i \in 1..(k - 1) : g[i] = Step1(g, i)
            BY <4>2
          <6> QED BY <6>1, <6>2
        <5>2. ASSUME NEW i \in 1..(k - 1) PROVE h[i] = Step1(h, i)
          <6>1. i = 1 \/ i - 1 \in 1..(k - 1)
            BY <4>1
          <6> HIDE DEF h
          <6> QED BY <5>1, <6>1
        <5>3. h[k] = Step1(h, k)
          <6>0. k \in 1..k
            BY <4>1
          <6>1. k \in 1..k /\ h[k] = g[k - 1] \o ss[k]
            BY ONLY <6>0
          <6>2. k - 1 \in 1..(k - 1)
            BY <4>1, <3>3
          <6> HIDE DEF h
          <6> QED BY <6>1, <6>2, <5>1, <3>3
        <5>4. \A i \in 1..k : i = k \/ i \in 1..(k - 1)
          BY <4>1
        <5> HIDE DEF h
        <5> QED BY <5>2, <5>3, <5>4
      <4>4. DOMAIN h = 1..k /\ h = [i \in 1..k |-> h[i]]
        OBVIOUS
      <4> HIDE DEF h
      <4>5. IsFlat(h, k)
        BY <4>3, <4>4, Zenon
      <4> QED BY <4>5
    <3> QED BY <3>2, <3>3
  <2>3. PICK f : IsFlat(f, n) /\ FlattenSeq(ss) = f[n]
    <3>1. \E f : IsFlat(f, n)
      <4>1. n \in 1..n
        BY <1>3
      <4> HIDE DEF IsFlat
      <4> QED BY <2>2, <4>1
    <3>2. IsFlat(CHOOSE f : IsFlat(f, n), n)
      <4> HIDE DEF IsFlat
      <4> QED BY <3>1
    <3> QED BY <2>1, <3>2, Zenon
  <2>4. \A i \in 1..n : f[i] = Step1(f, i)
    BY <2>3
  <2> DEFINE Good(k) == f[k] \in S /\ \A i \in 1..k : Range(ss[i]) \subseteq Range(f[k])
  <2>5. \A k \in 1..n : Good(k)
    <3> DEFINE Bad == {k \in 1..n : ~Good(k)}
    <3> SUFFICES ASSUME Bad # {} PROVE FALSE
      OBVIOUS
    <3>1. PICK k \in Bad : \A y \in Bad : k <= y
      <4>1. Bad \in SUBSET Nat
        OBVIOUS
      <4> QED BY <4>1, LeastElement
    <3>2. CASE k = 1
      <4>1. f[1] = ss[1] /\ ss[1] \in S
        BY <2>4, <3>2
      <4>2. \A i \in 1..1 : i = 1
        OBVIOUS
      <4> QED BY <4>1, <4>2, <3>2
    <3>3. CASE k # 1
      <4>1. k - 1 \in 1..n /\ ~(k - 1 >= k) /\ k \in Nat
        BY <3>3
      <4>2. Good(k - 1)
        BY <4>1, <3>1
      <4>3. f[k] = f[k - 1] \o ss[k] /\ ss[k] \in S
        BY <2>4, <3>3
      <4>4. f[k] \in S /\ Range(f[k]) = Range(f[k - 1]) \union Range(ss[k])
        <5>1. f[k - 1] \in Seq(X) /\ ss[k] \in Seq(X)
          BY <4>2, <4>3
        <5>2. f[k] \in S
          BY <4>2, <4>3
        <5>3. Range(f[k - 1] \o ss[k]) = Range(f[k - 1]) \union Range(ss[k])
          BY <5>1, RangeConcat
        <5> QED BY <5>2, <5>3, <4>3
      <4>5. \A i \in 1..k : i = k \/ i \in 1..(k - 1)
        BY <4>1
      <4>6. Good(k)
        BY <4>2, <4>4, <4>5
      <4> QED BY <4>6
    <3> QED BY <3>2, <3>3
  <2>6. n \in 1..n
    BY <1>3
  <2> QED BY <2>3, <2>5, <2>6
<1> QED BY <1>2, <1>3

-----------------------------------------------------------------------------
(* The steps of calls *)

LEMMA FlowConcat ==
    ASSUME NEW s \in Flow, NEW t \in Flow
    PROVE  s \o t \in Flow
<1>1. s \in Seq(Ops) /\ t \in Seq(Ops) /\ Paired(s) /\ Paired(t)
  BY DEF Flow
<1>2. /\ s \o t \in Seq(Ops) /\ Len(s \o t) = Len(s) + Len(t)
      /\ \A i \in 1..(Len(s) + Len(t)) :
            (s \o t)[i] = IF i <= Len(s) THEN s[i] ELSE t[i - Len(s)]
  BY <1>1, ConcatProperties
<1>3. Len(s) \in Nat /\ Len(t) \in Nat
  BY <1>1, LenProperties
<1>4. ASSUME NEW j \in 1..(Len(s) + Len(t)), (s \o t)[j].do \in Storing
      PROVE  j < Len(s) + Len(t) /\ LineOf((s \o t)[j + 1]) = Behind((s \o t)[j])
  <2>1. CASE j <= Len(s)
    <3>1. (s \o t)[j] = s[j]
      BY <1>2, <2>1
    <3>2. j < Len(s) /\ LineOf(s[j + 1]) = Behind(s[j])
      BY <1>1, <1>3, <1>4, <2>1, <3>1 DEF Paired
    <3>3. (s \o t)[j + 1] = s[j + 1]
      BY <1>2, <1>3, <3>2
    <3> QED BY <3>1, <3>2, <3>3, <1>3
  <2>2. CASE j > Len(s)
    <3> DEFINE k == j - Len(s)
    <3>1. k \in 1..Len(t) /\ (s \o t)[j] = t[k]
      BY <1>2, <1>3, <2>2
    <3>2. k < Len(t) /\ LineOf(t[k + 1]) = Behind(t[k])
      BY <1>1, <1>4, <3>1 DEF Paired
    <3>3. j + 1 \in 1..(Len(s) + Len(t)) /\ ~(j + 1 <= Len(s)) /\ j + 1 - Len(s) = k + 1
      BY <3>2, <1>3, <2>2
    <3>4. (s \o t)[j + 1] = t[k + 1]
      BY <1>2, <3>3
    <3> QED BY <3>1, <3>2, <3>3, <3>4, <1>3
  <2> QED BY <2>1, <2>2, <1>3
<1>5. Paired(s \o t)
  BY <1>2, <1>4 DEF Paired
<1> QED BY <1>2, <1>5 DEF Flow

\* One step after the other.
LEMMA FlowNext ==
    ASSUME NEW s \in Flow, s # <<>>
    PROVE  /\ Head(s) \in Ops /\ Tail(s) \in Flow
           /\ Head(s).do \in Storing =>
                Tail(s) # <<>> /\ LineOf(Head(Tail(s))) = Behind(Head(s))
<1>1. s \in Seq(Ops) /\ Paired(s) /\ Len(s) \in Nat \ {0} /\ Head(s) = s[1] /\ Head(s) \in Ops
  BY EmptySeq DEF Flow
<1>2. /\ Tail(s) \in Seq(Ops) /\ Len(Tail(s)) = Len(s) - 1
      /\ \A i \in 1..(Len(s) - 1) : Tail(s)[i] = s[i + 1]
  BY <1>1
<1>3. Paired(Tail(s))
  <2> SUFFICES ASSUME NEW j \in 1..(Len(s) - 1), Tail(s)[j].do \in Storing
               PROVE  j < Len(s) - 1 /\ LineOf(Tail(s)[j + 1]) = Behind(Tail(s)[j])
    BY <1>2 DEF Paired
  <2>1. j + 1 \in 1..Len(s) /\ Tail(s)[j] = s[j + 1]
    BY <1>1, <1>2
  <2>2. j + 1 < Len(s) /\ LineOf(s[j + 2]) = Behind(s[j + 1])
    BY <1>1, <2>1 DEF Paired
  <2>3. Tail(s)[j + 1] = s[j + 2]
    BY <1>1, <1>2, <2>2
  <2> QED BY <2>1, <2>2, <2>3, <1>1
<1>4. ASSUME Head(s).do \in Storing
      PROVE  Tail(s) # <<>> /\ LineOf(Head(Tail(s))) = Behind(Head(s))
  <2>1. 1 < Len(s) /\ LineOf(s[2]) = Behind(s[1])
    BY <1>1, <1>4 DEF Paired
  <2>2. Len(Tail(s)) >= 1 /\ Tail(s)[1] = s[2]
    BY <1>1, <1>2, <2>1
  <2>3. Tail(s) # <<>> /\ Head(Tail(s)) = Tail(s)[1]
    <3>1. Tail(s) # <<>>
      BY <2>2, EmptySeq
    <3> QED BY <3>1, <1>2
  <2> QED BY <2>1, <2>2, <2>3, <1>1
<1> QED BY <1>1, <1>2, <1>3, <1>4 DEF Flow

\* The series that calls are made of.
LEMMA FlowEmpty == <<>> \in Flow
  BY EmptySeq DEF Flow, Paired

LEMMA FlowPlain ==
    ASSUME NEW q, q \in Seq(Persists \union ScanOps \union BlankOps \union FileOps)
    PROVE  q \in Flow
<1> DEFINE X == Persists \union ScanOps \union BlankOps \union FileOps
<1>1. \A x \in X : x \in Ops /\ x.do \notin Storing
  BY DEF Ops, Persists, ScanOps, BlankOps, FileOps, Storing
<1>2. q \in Seq(X)
  OBVIOUS
<1> HIDE DEF X
<1>3. q \in Seq(Ops)
  BY <1>1, <1>2, SeqMonotonic
<1>4. \A j \in 1..Len(q) : q[j] \in X
  BY <1>2, ElementOfSeq
<1> QED BY <1>1, <1>3, <1>4 DEF Flow, Paired

LEMMA FlowLists ==
    ASSUME NEW c \in Chunk, NEW q \in Seq({o \in OffOps \union PtrOps : o.at = c})
    PROVE  q \o Persist(c) \in Flow
<1> DEFINE X == {o \in OffOps \union PtrOps : o.at = c}
           p == [do |-> "persist", at |-> c]
           s == q \o Persist(c)
<1>1. \A x \in X \union {p} : x \in Ops /\ LineOf(x) = c /\ x.do # "cell" /\ Behind(x) = c
  BY Constants DEF Ops, Persists, OffOps, PtrOps, LineOf, Behind
<1>2. Persist(c) = <<p>> /\ p.do \notin Storing
  BY DEF Persist, Do, Storing
<1>3. q \in Seq(X) /\ p \in X \union {p}
  OBVIOUS
<1> HIDE DEF X, p
<1>4. q \in Seq(X \union {p}) /\ <<p>> \in Seq(X \union {p})
  BY <1>3, SeqMonotonic
<1>5. s \in Seq(X \union {p}) /\ Len(s) = Len(q) + 1 /\ s[Len(q) + 1] = p /\ Len(q) \in Nat
  BY <1>2, <1>4
<1>6. s \in Seq(Ops)
  BY <1>5, <1>1, SeqMonotonic
<1>7. \A j \in 1..Len(s) : s[j] \in X \union {p}
  BY <1>5, ElementOfSeq
<1> HIDE DEF s
<1>8. Paired(s)
  <2> SUFFICES ASSUME NEW j \in 1..Len(s), s[j].do \in Storing
               PROVE  j < Len(s) /\ LineOf(s[j + 1]) = Behind(s[j])
    BY DEF Paired
  <2>1. j # Len(q) + 1
    BY <1>2, <1>5
  <2>2. j < Len(s) /\ j + 1 \in 1..Len(s)
    BY <2>1, <1>5
  <2> QED BY <2>2, <1>1, <1>7
<1>9. s \in Flow
  BY <1>6, <1>8 DEF Flow
<1> QED BY <1>9 DEF s

LEMMA FlowStore ==
    /\ \A c, n \in Chunk : \A st \in States :
            c + n <= LastClump => PutSize(c, n, st) \o Persist(c) \in Flow
    /\ \A d \in Cell : \A p \in Chunk \union {NULL} : PutCell(d, p) \o Persist(d) \in Flow
<1>1. ASSUME NEW a \in Chunk \union Cell, NEW o \in SizeOps \union CellOps, o.at = a
      PROVE  <<o>> \o Persist(a) \in Flow
  <2> DEFINE p == [do |-> "persist", at |-> a]
             s == <<o>> \o Persist(a)
  <2>1. o \in Ops /\ p \in Ops /\ p.do \notin Storing /\ LineOf(p) = a /\ Behind(o) = a
    BY <1>1, Constants DEF Ops, Persists, Storing, LineOf, Behind
  <2>2. Persist(a) = <<p>>
    BY DEF Persist, Do
  <2> HIDE DEF p
  <2>3. <<o>> \in Seq(Ops) /\ <<p>> \in Seq(Ops) /\ Len(<<o>>) = 1 /\ Len(<<p>>) = 1
    BY <2>1
  <2>4. s \in Seq(Ops) /\ Len(s) = 2 /\ s[1] = o /\ s[2] = p
    <3>1. <<o>>[1] = o /\ <<p>>[1] = p
      OBVIOUS
    <3>2. /\ s \in Seq(Ops) /\ Len(s) = 2
          /\ \A i \in 1..2 : s[i] = IF i <= 1 THEN <<o>>[i] ELSE <<p>>[i - 1]
      BY <2>2, <2>3, ConcatProperties
    <3> HIDE DEF s
    <3> QED BY <3>1, <3>2
  <2> HIDE DEF s
  <2>5. Paired(s)
    BY <2>1, <2>4 DEF Paired
  <2>6. s \in Flow
    BY <2>4, <2>5 DEF Flow
  <2> QED BY <2>6 DEF s
<1>2. ASSUME NEW c \in Chunk, NEW n \in Chunk, NEW st \in States, c + n <= LastClump
      PROVE  PutSize(c, n, st) \o Persist(c) \in Flow
  <2> DEFINE o == [do |-> "size", at |-> c, size |-> n, state |-> st]
  <2>1. o \in SizeOps /\ o.at = c
    BY <1>2 DEF SizeOps
  <2>2. PutSize(c, n, st) = <<o>>
    BY DEF PutSize
  <2> HIDE DEF o
  <2> QED BY <2>1, <2>2, <1>1
<1>3. ASSUME NEW d \in Cell, NEW p \in Chunk \union {NULL}
      PROVE  PutCell(d, p) \o Persist(d) \in Flow
  <2> DEFINE o == CellOp(d, p)
  <2>1. o \in CellOps /\ o.at = d
    BY DEF CellOps, CellOp
  <2>2. PutCell(d, p) = <<o>>
    BY DEF PutCell, CellOp
  <2> HIDE DEF o
  <2> QED BY <2>1, <2>2, <1>1
<1> QED BY <1>2, <1>3

\* The first of a series in front of others.
LEMMA Peel ==
    ASSUME NEW X, NEW q \in Seq(X), NEW Y, NEW r \in Seq(Y)
    PROVE  /\ q = <<>> => q \o r = r
           /\ q # <<>> =>
                /\ Head(q) \in X /\ Tail(q) \in Seq(X)
                /\ q \o r # <<>> /\ Head(q \o r) = Head(q)
                /\ Tail(q \o r) = Tail(q) \o r
                /\ Range(q) = {Head(q)} \union Range(Tail(q))
<1>1. ASSUME q = <<>> PROVE q \o r = r
  BY <1>1, ConcatEmptySeq
<1>2. ASSUME q # <<>>
      PROVE /\ Head(q) \in X /\ Tail(q) \in Seq(X)
            /\ q \o r # <<>> /\ Head(q \o r) = Head(q)
            /\ Tail(q \o r) = Tail(q) \o r
            /\ Range(q) = {Head(q)} \union Range(Tail(q))
  <2>1. Head(q) \in X /\ Tail(q) \in Seq(X) /\ q = <<Head(q)>> \o Tail(q)
    BY <1>2
  <2>2. q \in Seq(X \union Y) /\ r \in Seq(X \union Y)
    BY SeqMonotonic
  <2>3. q \o r # <<>> /\ Head(q \o r) = Head(q) /\ Tail(q \o r) = Tail(q) \o r
    BY <2>2, <1>2
  <2>4. Range(<<Head(q)>>) = {Head(q)}
    <3>1. DOMAIN <<Head(q)>> = {1} /\ <<Head(q)>>[1] = Head(q)
      OBVIOUS
    <3> QED BY <3>1 DEF Range
  <2>5. Range(q) = Range(<<Head(q)>>) \union Range(Tail(q))
    <3>1. PICK h : h = <<Head(q)>>
      OBVIOUS
    <3>2. h \in Seq(X) /\ Tail(q) \in Seq(X)
      BY <2>1, <3>1
    <3>3. PICK t : t = Tail(q)
      OBVIOUS
    <3>4. h \in Seq(X) /\ t \in Seq(X)
      BY <3>2, <3>3
    <3>5. Range(h \o t) = Range(h) \union Range(t)
      BY ONLY <3>4, RangeConcat
    <3> QED BY ONLY <2>1, <3>1, <3>3, <3>5
  <2> QED BY <2>1, <2>3, <2>4, <2>5
<1> QED BY <1>1, <1>2

LEMMA PersistIs ==
    ASSUME NEW a \in Chunk \union Cell
    PROVE  /\ Persist(a) = <<PersistOp(a)>> /\ PersistOp(a) \in Persists
           /\ Persist(a) \in Seq(Persists) /\ Range(Persist(a)) = {PersistOp(a)}
           /\ Persist(a) \in Flow
<1>1. Persist(a) = <<PersistOp(a)>> /\ PersistOp(a) \in Persists
  BY DEF Persist, Do, PersistOp, Persists
<1>2. Persist(a) \in Seq(Persists)
  BY <1>1
<1>3. Range(<<PersistOp(a)>>) = {PersistOp(a)}
  <2>1. DOMAIN <<PersistOp(a)>> = {1} /\ <<PersistOp(a)>>[1] = PersistOp(a)
    OBVIOUS
  <2> QED BY <2>1 DEF Range
<1>4. Persist(a) \in Seq(Persists \union ScanOps \union BlankOps \union FileOps)
  BY <1>2, SeqMonotonic
<1> QED BY <1>1, <1>2, <1>3, <1>4, FlowPlain

LEMMA ExecuteIs ==
    ASSUME NEW m, MediumOK(m), NEW c \in Chunk, NEW p,
           \A i \in OnList(m[c]) : m[c].ptr[i] = p
    PROVE  /\ ExecuteSteps(m[c]) \in Flow
           /\ ExecuteSteps(m[c]) \in Seq(Links(m[c], p) \union Persists)
           /\ Links(m[c], p) \subseteq Range(ExecuteSteps(m[c]))
<1> DEFINE l == m[c]
           n == Cardinality(OnList(l))
           X == Links(l, p) \union Persists
           S == Flow \cap Seq(X)
           part(i) == PutCell(l.off[i], l.ptr[i]) \o Persist(l.off[i])
           ss == [i \in 1..n |-> part(i)]
<1>1. n \in Nat /\ OnList(l) = 1..n /\ \A i \in 1..n : l.off[i] \in Cell /\ l.ptr[i] = p
  BY OnListIs, NamedCells, Constants
<1>2. \A i \in 1..n : l.ptr[i] \in Chunk \union {NULL}
  <2>1. \A i \in OnList(l) : i \in Slot
    BY OnListIs
  <2> QED BY <2>1, <1>1, MediumFacts
<1> HIDE DEF n
<1>3. ASSUME NEW i \in 1..n
      PROVE part(i) \in S /\ CellOp(l.off[i], p) \in Range(part(i))
  <2>1. PICK d \in Cell : d = l.off[i] /\ d \in Named(l)
    BY <1>1 DEF Named
  <2>2. PICK o : o = CellOp(d, p) /\ o \in X
    BY <2>1 DEF Links
  <2>3. PutCell(d, p) = <<o>> /\ Persist(d) = <<PersistOp(d)>> /\ PersistOp(d) \in X
    BY <2>2, PersistIs DEF PutCell, CellOp
  <2>4. part(i) = PutCell(d, p) \o Persist(d)
    BY <2>1, <1>1
  <2>5. part(i) \in Flow
    BY <2>4, <1>2, <1>1, FlowStore
  <2>6. PICK a, b : a = <<o>> /\ b = <<PersistOp(d)>>
    OBVIOUS
  <2>7. a \in Seq(X) /\ b \in Seq(X) /\ o \in Range(a)
    <3>1. a[1] = o /\ 1 \in DOMAIN a
      BY <2>6
    <3> QED BY <3>1, <2>2, <2>3, <2>6 DEF Range
  <2> HIDE DEF X
  <2>8. a \o b \in Seq(X) /\ o \in Range(a \o b)
    BY <2>7, RangeConcat
  <2> QED BY <2>1, <2>2, <2>3, <2>4, <2>5, <2>6, <2>8
<1>4. S \subseteq Seq(X) /\ <<>> \in S
  BY FlowEmpty
<1>5. \A x, y \in S : x \o y \in S
  <2>1. \A x, y \in Seq(X) : x \o y \in Seq(X)
    OBVIOUS
  <2> QED BY <2>1, FlowConcat
<1>6. ss \in [1..n -> S]
  BY <1>3
<1> HIDE DEF S, X, part
<1>7. FlattenSeq(ss) \in S /\ \A i \in 1..n : Range(ss[i]) \subseteq Range(FlattenSeq(ss))
  BY <1>1, <1>4, <1>5, <1>6, FlattenSteps
<1>8. ExecuteSteps(m[c]) = FlattenSeq(ss)
  BY DEF ExecuteSteps, part, n
<1>9. ASSUME NEW o \in Links(l, p) PROVE o \in Range(FlattenSeq(ss))
  <2>1. PICK i \in 1..n : o = CellOp(l.off[i], p)
    BY <1>1 DEF Links, Named
  <2>2. o \in Range(ss[i])
    BY <2>1, <1>3
  <2> QED BY <2>2, <1>7
<1> QED BY <1>7, <1>8, <1>9 DEF S, X

\* A series over the entries of an on list, in some order.
LEMMA EntriesIs ==
    ASSUME NEW c \in Chunk, NEW X, X \subseteq {o \in OffOps \union PtrOps : o.at = c},
           NEW ss \in [Slot -> Seq(X)]
    PROVE  LET s == FlattenSeq(ss) \o Persist(c) IN
           /\ s \in Flow /\ s \in Seq(X \union Persists)
           /\ \A i \in Slot : Range(ss[i]) \subseteq Range(s)
<1> DEFINE n == PMEM_NUM_ON
<1>1. Slot = 1..n /\ n \in Nat
  BY Constants
<1>2. /\ <<>> \in Seq(X) /\ \A x, y \in Seq(X) : x \o y \in Seq(X)
      /\ Seq(X) \subseteq Seq(X)
  OBVIOUS
<1> HIDE DEF n
<1>3. FlattenSeq(ss) \in Seq(X) /\ \A i \in 1..n : Range(ss[i]) \subseteq Range(FlattenSeq(ss))
  BY <1>1, <1>2, FlattenSteps
<1>4. PICK f : f = FlattenSeq(ss)
  OBVIOUS
<1>5. f \in Seq({o \in OffOps \union PtrOps : o.at = c})
  BY <1>3, <1>4, SeqMonotonic
<1>6. f \o Persist(c) \in Flow
  BY <1>5, FlowLists
<1>7. f \in Seq(X \union Persists) /\ Persist(c) \in Seq(X \union Persists)
  BY <1>3, <1>4, PersistIs, SeqMonotonic
<1>8. f \o Persist(c) \in Seq(X \union Persists) /\ Range(f) \subseteq Range(f \o Persist(c))
  BY <1>7, RangeConcat
<1> QED BY <1>1, <1>3, <1>4, <1>6, <1>8

LEMMA ClearIs ==
    ASSUME NEW c \in Chunk
    PROVE  /\ ClearOn(c) \in Flow /\ ClearOn(c) \in Seq(Clears(c) \union Persists)
           /\ Clears(c) \subseteq Range(ClearOn(c))
<1> DEFINE X == Clears(c)
           j(k) == PMEM_NUM_ON + 1 - k
           ss == [k \in Slot |-> PutOff(c, j(k), NULL)]
<1>1. X \subseteq {o \in OffOps \union PtrOps : o.at = c}
  BY DEF Clears, ClearOp, OffOps
<1>2. \A k \in Slot : j(k) \in Slot /\ j(j(k)) = k
  BY Constants
<1> HIDE DEF j
<1>3. \A k \in Slot : PutOff(c, j(k), NULL) = <<ClearOp(c, j(k))>> /\ ClearOp(c, j(k)) \in X
  BY <1>2 DEF PutOff, ClearOp, Clears
<1> HIDE DEF X
<1>4. \A k \in Slot : PutOff(c, j(k), NULL) \in Seq(X) /\ ClearOp(c, j(k)) \in Range(PutOff(c, j(k), NULL))
  <2> SUFFICES ASSUME NEW k \in Slot
               PROVE PutOff(c, j(k), NULL) \in Seq(X) /\ ClearOp(c, j(k)) \in Range(PutOff(c, j(k), NULL))
    OBVIOUS
  <2>1. PICK o \in X : o = ClearOp(c, j(k)) /\ PutOff(c, j(k), NULL) = <<o>>
    BY <1>3
  <2>2. <<o>> \in Seq(X) /\ 1 \in DOMAIN <<o>> /\ <<o>>[1] = o
    OBVIOUS
  <2> QED BY <2>1, <2>2 DEF Range
<1>5. ss \in [Slot -> Seq(X)]
  BY <1>4
<1>6. ClearOn(c) = FlattenSeq(ss) \o Persist(c)
  BY DEF ClearOn, j
<1>7. \A k \in Slot : ss[k] = PutOff(c, j(k), NULL)
  OBVIOUS
<1> HIDE DEF ss
<1>8. /\ ClearOn(c) \in Flow /\ ClearOn(c) \in Seq(X \union Persists)
      /\ \A k \in Slot : Range(ss[k]) \subseteq Range(ClearOn(c))
  BY <1>1, <1>5, <1>6, EntriesIs
<1>9. ASSUME NEW i \in Slot PROVE ClearOp(c, i) \in Range(ClearOn(c))
  BY <1>2, <1>4, <1>7, <1>8
<1> QED BY <1>8, <1>9 DEF X, Clears

LEMMA ResetIs ==
    ASSUME NEW c \in Chunk
    PROVE  /\ ResetOn(c) \in Flow /\ ResetOn(c) \in Seq(Resets(c) \union Persists)
           /\ Clears(c) \subseteq Range(ResetOn(c))
<1> DEFINE X == Resets(c)
           part(k) == PutOff(c, k, NULL) \o PutPtr(c, k, NULL)
           ss == [k \in Slot |-> part(k)]
<1>1. X \subseteq {o \in OffOps \union PtrOps : o.at = c}
  BY DEF Resets, Clears, ClearOp, OffOps, PtrOps
<1>2. ASSUME NEW k \in Slot
      PROVE  part(k) \in Seq(X) /\ ClearOp(c, k) \in Range(part(k))
  <2>1. PICK o : o = ClearOp(c, k) /\ o \in X
    BY DEF Resets, Clears
  <2>2. PICK p : p = [do |-> "ptr", at |-> c, i |-> k, val |-> NULL] /\ p \in X
    <3>1. [do |-> "ptr", at |-> c, i |-> k, val |-> NULL]
             \in [do : {"ptr"}, at : {c}, i : Slot, val : {NULL}]
      OBVIOUS
    <3> QED BY <3>1 DEF Resets
  <2>3. PICK a, b : a = <<o>> /\ b = <<p>>
    OBVIOUS
  <2>4. part(k) = a \o b
    BY <2>1, <2>2, <2>3 DEF PutOff, PutPtr, ClearOp
  <2> HIDE DEF X, part
  <2>5. a \in Seq(X) /\ b \in Seq(X) /\ o \in Range(a)
    <3>1. a[1] = o /\ 1 \in DOMAIN a
      BY <2>3
    <3> QED BY <3>1, <2>1, <2>2, <2>3 DEF Range
  <2> QED BY <2>1, <2>4, <2>5, RangeConcat
<1>5. ss \in [Slot -> Seq(X)]
  BY <1>2
<1>6. ResetOn(c) = FlattenSeq(ss) \o Persist(c)
  BY DEF ResetOn
<1>7. \A k \in Slot : ss[k] = part(k)
  OBVIOUS
<1> HIDE DEF ss, X, part
<1>8. /\ ResetOn(c) \in Flow /\ ResetOn(c) \in Seq(X \union Persists)
      /\ \A k \in Slot : Range(ss[k]) \subseteq Range(ResetOn(c))
  BY <1>1, <1>5, <1>6, EntriesIs DEF X
<1>9. ASSUME NEW i \in Slot PROVE ClearOp(c, i) \in Range(ResetOn(c))
  BY <1>2, <1>7, <1>8
<1> QED BY <1>8, <1>9 DEF X, Clears

LEMMA PersistDataIs ==
    ASSUME NEW c \in Chunk, NEW n \in Nat, c + n <= LastClump
    PROVE  LET s == FlattenSeq([k \in 1..n |-> Persist(c + k)]) IN
           /\ s \in Seq(Persists) /\ s \in Flow
           /\ \A k \in 1..n : PersistOp(c + k) \in Range(s)
<1> DEFINE ss == [k \in 1..n |-> Persist(c + k)]
<1>1. \A k \in 1..n : c + k \in Chunk \union Cell
  BY Constants
<1>2. \A k \in 1..n : Persist(c + k) \in Seq(Persists) /\ Range(Persist(c + k)) = {PersistOp(c + k)}
  BY <1>1, PersistIs
<1>3. ss \in [1..n -> Seq(Persists)] /\ \A k \in 1..n : ss[k] = Persist(c + k)
  BY <1>2
<1>4. /\ <<>> \in Seq(Persists) /\ \A x, y \in Seq(Persists) : x \o y \in Seq(Persists)
      /\ Seq(Persists) \subseteq Seq(Persists)
  OBVIOUS
<1> HIDE DEF ss
<1>5. FlattenSeq(ss) \in Seq(Persists) /\ \A k \in 1..n : Range(ss[k]) \subseteq Range(FlattenSeq(ss))
  BY <1>3, <1>4, FlattenSteps
<1>6. FlattenSeq(ss) \in Flow
  <2>1. FlattenSeq(ss) \in Seq(Persists \union ScanOps \union BlankOps \union FileOps)
    BY <1>5, SeqMonotonic
  <2> QED BY <2>1, FlowPlain
<1>7. \A k \in 1..n : PersistOp(c + k) \in Range(FlattenSeq(ss))
  BY <1>2, <1>3, <1>5
<1> QED BY <1>5, <1>6, <1>7 DEF ss

-----------------------------------------------------------------------------
(* Runs of free clumps *)

LEMMA RunEndIs ==
    ASSUME NEW m, MediumOK(m), Fits(m)
    PROVE  \A c \in Chunk : RunEnd(m, c) = IF FreeAt(m, c) THEN RunEnd(m, c + m[c].size) ELSE c
<1> DEFINE Step1(f, b) == IF FreeAt(m, b) THEN f[b + m[b].size] ELSE b
           IsEnd(f) == f = [b \in Chunk |-> Step1(f, b)]
           Stable(V) == \A b \in V : FreeAt(m, b) => b + m[b].size \in V
           Run(c) == {b \in Chunk : \A V \in SUBSET Chunk : c \in V /\ Stable(V) => b \in V}
           Stop(c) == {b \in Run(c) : ~FreeAt(m, b)}
           r == [c \in Chunk |-> CHOOSE b : b \in Stop(c)]
<1>1. \A b \in Chunk : FreeAt(m, b) => b + m[b].size \in Chunk
  BY MediumFacts, Constants DEF Fits, FreeAt
<1>2. ASSUME NEW c \in Chunk, FreeAt(m, c) PROVE Stop(c) = Stop(c + m[c].size)
  <2> DEFINE n == c + m[c].size
  <2>0. n \in Chunk
    BY <1>1, <1>2
  <2> HIDE DEF n
  <2>1. ASSUME NEW b \in Stop(c) PROVE b \in Stop(n)
    <3>0. b # c
      BY <1>2
    <3> SUFFICES ASSUME NEW V \in SUBSET Chunk, n \in V, Stable(V) PROVE b \in V
      OBVIOUS
    <3>1. V \union {c} \in SUBSET Chunk /\ Stable(V \union {c})
      BY DEF n
    <3> QED BY <3>0, <3>1
  <2>2. ASSUME NEW b \in Stop(n) PROVE b \in Stop(c)
    <3> SUFFICES ASSUME NEW V \in SUBSET Chunk, c \in V, Stable(V) PROVE b \in V
      OBVIOUS
    <3>1. n \in V
      BY <1>2 DEF n
    <3> QED BY <3>1
  <2> HIDE DEF Stop
  <2>3. Stop(c) = Stop(n)
    BY <2>1, <2>2
  <2> QED BY <2>3 DEF n
<1>3. ASSUME NEW c \in Chunk, ~FreeAt(m, c) PROVE Stop(c) = {c}
  <2>1. {c} \in SUBSET Chunk /\ Stable({c})
    BY <1>3
  <2>2. c \in Run(c)
    OBVIOUS
  <2> QED BY <2>1, <2>2, <1>3
<1>4. IsEnd(r)
  <2>1. ASSUME NEW c \in Chunk PROVE r[c] = Step1(r, c)
    <3>1. CASE FreeAt(m, c)
      <4>1. c + m[c].size \in Chunk /\ Stop(c) = Stop(c + m[c].size)
        BY <1>1, <1>2, <3>1
      <4> HIDE DEF Stop
      <4> QED BY <4>1, <3>1
    <3>2. CASE ~FreeAt(m, c)
      <4>1. Stop(c) = {c}
        BY <1>3, <3>2
      <4> HIDE DEF Stop
      <4> QED BY <4>1, <3>2
    <3> QED BY <3>1, <3>2
  <2>2. r = [c \in Chunk |-> r[c]]
    OBVIOUS
  <2> HIDE DEF r
  <2> QED BY <2>1, <2>2
<1> HIDE DEF r
<1> DEFINE g == CHOOSE f : IsEnd(f)
<1>5. IsEnd(g)
  <2> HIDE DEF IsEnd
  <2> QED BY <1>4
<1>6. \A c : RunEnd(m, c) = g[c]
  BY DEF RunEnd
<1> HIDE DEF g
<1>7. \A c \in Chunk : g[c] = Step1(g, c)
  BY <1>5
<1> QED BY <1>6, <1>7

\* The run of free clumps from c ends at the first that is not free.
LEMMA RunEndFacts ==
    ASSUME NEW m, MediumOK(m), Fits(m), Tiled(m), NEW c \in Walk(m)
    PROVE  LET e == RunEnd(m, c) IN
           /\ e \in Walk(m) /\ c <= e /\ ~FreeAt(m, e)
           /\ \A b \in Walk(m) : c <= b /\ b < e => FreeAt(m, b)
<1> DEFINE Good(x) ==
             /\ RunEnd(m, x) \in Walk(m) /\ x <= RunEnd(m, x) /\ ~FreeAt(m, RunEnd(m, x))
             /\ \A b \in Walk(m) : x <= b /\ b < RunEnd(m, x) => FreeAt(m, b)
           Bad == {LastClump - x : x \in {y \in Walk(m) : ~Good(y)}}
<1>0. Walk(m) \subseteq Chunk /\ Walk(m) \subseteq Nat /\ \A x \in Walk(m) : x <= LastClump /\ x \in Nat
  BY TiledFacts, Constants
<1> SUFFICES ASSUME Bad # {} PROVE FALSE
  BY DEF Good
<1>1. PICK n \in Bad : \A y \in Bad : n <= y
  <2> HIDE DEF Good
  <2>1. Bad \in SUBSET Nat
    BY <1>0, Constants
  <2> QED BY <2>1, LeastElement
<1>2. PICK x \in Walk(m) : ~Good(x) /\ n = LastClump - x
  BY <1>1
<1>3. CASE ~FreeAt(m, x)
  <2>1. RunEnd(m, x) = x
    BY <1>0, <1>3, RunEndIs
  <2> QED BY <2>1, <1>0, <1>2, <1>3
<1>4. CASE FreeAt(m, x)
  <2>1. x \in Clumps(m) /\ x \in Chunk
    BY <1>0, <1>4 DEF FreeAt, Clumps
  <2>2. PICK y \in Walk(m) : y = x + m[x].size /\ x < y
    <3>1. x + m[x].size \in Walk(m) /\ x \in Nat /\ m[x].size \in Nat /\ m[x].size > 0
      BY <2>1, TiledFacts, Constants
    <3>2. x < x + m[x].size
      BY ONLY <3>1
    <3> QED BY <3>1, <3>2
  <2>3. RunEnd(m, x) = RunEnd(m, y)
    BY <2>1, <2>2, <1>4, RunEndIs
  <2>4. Good(y)
    <3> SUFFICES ASSUME ~Good(y) PROVE FALSE
      OBVIOUS
    <3> HIDE DEF Good
    <3>1. LastClump - y \in Bad
      OBVIOUS
    <3>2. n <= LastClump - y
      BY <1>1, <3>1
    <3>3. x \in Nat /\ y \in Nat /\ LastClump \in Nat
      BY <1>0, Constants
    <3> QED BY <3>2, <3>3, <2>2, <1>2
  <2>5. ASSUME NEW b \in Walk(m), x <= b, b < RunEnd(m, x) PROVE FreeAt(m, b)
    <3>1. CASE b = x
      BY <3>1, <1>4
    <3>2. CASE x < b
      <4>1. y <= b
        BY <3>2, <2>2, TiledFacts
      <4> QED BY <4>1, <2>3, <2>4, <2>5
    <3> QED BY <3>1, <3>2, <2>5, <1>0
  <2>6. x <= RunEnd(m, x)
    <3>1. x \in Nat /\ y \in Nat /\ RunEnd(m, y) \in Nat
      BY <1>0, <2>4
    <3> QED BY <3>1, <2>2, <2>3, <2>4
  <2> QED BY <2>3, <2>4, <2>5, <2>6, <1>2
<1> QED BY <1>3, <1>4

-----------------------------------------------------------------------------
(* What one store does to a sound memory *)

\* What is stored in the header of a clump whose size stays.
LEMMA SoundLine ==
    ASSUME NEW m, MediumOK(m), NEW w, MediumOK(w), Sound(m), NEW c \in Clumps(m),
           \A a \in (Walk(m) \union Cell) \ {c} : w[a] = m[a],
           w[c].size = m[c].size, w[c].state \in States,
           ClumpOK(w, c),
           \A d \in Cell : m[d] = c =>
                w[c].state \in Holds /\ (w[c].state = "FREEING" => d \in Named(w[c])),
           w[c].state \in {"ACTIVATING", "FREEING"} => InTransit(m) \subseteq {c}
    PROVE  /\ Walk(w) = Walk(m) /\ Clumps(w) = Clumps(m) /\ Sound(w)
           /\ \A b \in Clumps(m) \ {c} : w[b] = m[b]
           /\ \A d \in Cell : w[d] = m[d]
<1>0. Tiled(m) /\ PointersOK(m) /\ (\A b \in Clumps(m) : ClumpOK(m, b))
      /\ \A x, y \in InTransit(m) : x = y
  BY DEF Sound
<1>1. Walk(w) = Walk(m)
  <2>1. \A b \in Walk(m) : w[b].size = m[b].size
    OBVIOUS
  <2> QED BY <2>1, WalkSame, MediumFacts
<1>2. Clumps(w) = Clumps(m) /\ \A b \in Clumps(m) \ {c} : w[b] = m[b]
  BY <1>1 DEF Clumps
<1>3. \A d \in Cell : w[d] = m[d]
  <2>1. c \in Chunk
    BY <1>0, TiledFacts
  <2> QED BY <2>1, Constants
<1>4. Tiled(w)
  <2>1. \A b \in Walk(m) : w[b].size = m[b].size
    OBVIOUS
  <2>2. \A b \in Clumps(m) : w[b].state \in States
    BY <1>0, <1>2 DEF Tiled
  <2> QED BY <2>1, <2>2, <1>0, <1>1, <1>2 DEF Tiled, Clumps
<1>5. PointersOK(w)
  <2> SUFFICES ASSUME NEW d \in Cell, w[d] # NULL
               PROVE  /\ w[d] \in Clumps(w) /\ w[w[d]].state \in Holds
                      /\ w[w[d]].state = "FREEING" => d \in Named(w[w[d]])
    BY DEF PointersOK, Holds
  <2>1. /\ w[d] = m[d] /\ m[d] \in Clumps(m) /\ m[m[d]].state \in Holds
        /\ m[m[d]].state = "FREEING" => d \in Named(m[m[d]])
    BY <1>0, <1>3 DEF PointersOK, Holds
  <2>2. CASE m[d] = c
    BY <2>1, <2>2, <1>2
  <2>3. CASE m[d] # c
    BY <2>1, <2>3, <1>2
  <2> QED BY <2>2, <2>3
<1>6. ASSUME NEW b \in Clumps(m) PROVE ClumpOK(w, b)
  <2>1. CASE b = c
    BY <2>1
  <2>2. CASE b # c
    <3>1. w[b] = m[b] /\ ClumpOK(m, b)
      BY <1>0, <1>2, <2>2
    <3>2. \A i \in OnList(m[b]) : m[b].off[i] \in Cell
      BY NamedCells, TiledFacts, <1>0
    <3>3. ASSUME NEW p, NEW V, ListSets(m, b, p, V) PROVE ListSets(w, b, p, V)
      BY <3>1, <3>2, <3>3, <1>3 DEF ListSets
    <3> QED BY <3>1, <3>3, <1>3 DEF ClumpOK, ActiveOK, ActivatingOK, FreeingOK
  <2> QED BY <2>1, <2>2
<1>7. \A x, y \in InTransit(w) : x = y
  <2>1. ASSUME NEW x \in InTransit(w) PROVE x \in InTransit(m) \/ x = c
    BY <1>2 DEF InTransit
  <2>2. CASE w[c].state \in {"ACTIVATING", "FREEING"}
    BY <2>1, <2>2
  <2>3. CASE w[c].state \notin {"ACTIVATING", "FREEING"}
    <3>1. c \notin InTransit(w)
      BY <2>3 DEF InTransit
    <3> QED BY <3>1, <2>1, <1>0
  <2> QED BY <2>2, <2>3
<1> QED BY <1>1, <1>2, <1>3, <1>4, <1>5, <1>6, <1>7 DEF Sound

\* One assignment of a clump in transit.
LEMMA SoundLink ==
    ASSUME NEW m, MediumOK(m), NEW w, MediumOK(w), Sound(m), NEW c \in InTransit(m),
           NEW d \in Named(m[c]), w[d] = Target(m, c),
           \A a \in (Walk(m) \union Cell) \ {d} : w[a] = m[a]
    PROVE  /\ Walk(w) = Walk(m) /\ Clumps(w) = Clumps(m) /\ Sound(w)
           /\ InTransit(w) = InTransit(m)
           /\ \A b \in Clumps(m) : w[b] = m[b]
           /\ m[d] \in {NULL, c} /\ d \in Cell
<1>0. Tiled(m) /\ PointersOK(m) /\ (\A b \in Clumps(m) : ClumpOK(m, b))
      /\ (\A x, y \in InTransit(m) : x = y)
      /\ c \in Clumps(m) /\ c \in Chunk /\ m[c].state \in {"ACTIVATING", "FREEING"}
  BY TiledFacts DEF Sound, InTransit
<1>1. d \in Cell /\ \E i \in OnList(m[c]) : m[c].off[i] = d
  BY <1>0, NamedCells
<1>2. d \notin Walk(m)
  BY <1>0, <1>1, TiledFacts, Constants
<1>3. Walk(w) = Walk(m)
  <2>1. \A b \in Walk(m) : w[b].size = m[b].size
    BY <1>2
  <2> QED BY <2>1, WalkSame, MediumFacts
<1>4. Clumps(w) = Clumps(m) /\ \A b \in Walk(m) : w[b] = m[b]
  BY <1>2, <1>3 DEF Clumps
<1>5. InTransit(w) = InTransit(m) /\ \A b \in Clumps(m) : w[b] = m[b]
  BY <1>4 DEF InTransit, Clumps
<1>6. m[d] \in {NULL, c}
  BY <1>0, <1>1 DEF ClumpOK, ActivatingOK, FreeingOK, ListSets
<1>7. Tiled(w)
  BY <1>0, <1>3, <1>4, <1>5 DEF Tiled
<1>8. PointersOK(w)
  <2> SUFFICES ASSUME NEW e \in Cell, w[e] # NULL
               PROVE  /\ w[e] \in Clumps(w) /\ w[w[e]].state \in Holds
                      /\ w[w[e]].state = "FREEING" => e \in Named(w[w[e]])
    BY DEF PointersOK, Holds
  <2>1. CASE e = d
    <3>1. m[c].state = "ACTIVATING" /\ w[e] = c
      BY <2>1, <1>0 DEF Target
    <3> QED BY <3>1, <1>0, <1>4, <1>5 DEF Holds
  <2>2. CASE e # d
    <3>1. w[e] = m[e]
      BY <2>2
    <3> QED BY <3>1, <1>0, <1>4, <1>5 DEF PointersOK, Holds
  <2> QED BY <2>1, <2>2
<1>9. ASSUME NEW b \in Clumps(m) PROVE ClumpOK(w, b)
  <2>0. ClumpOK(m, b) /\ w[b] = m[b] /\ b # NULL
    BY <1>0, <1>5, TiledFacts, Constants
  <2>1. \A i \in OnList(m[b]) : m[b].off[i] \in Cell
    BY NamedCells, TiledFacts, <1>0
  <2>2. CASE b = c
    <3>1. ASSUME NEW p, ListSets(m, c, p, {NULL, c}) PROVE ListSets(w, c, p, {NULL, c})
      <4>1. w[d] \in {NULL, c}
        BY DEF Target
      <4> QED BY <4>1, <3>1, <2>0, <2>1, <2>2 DEF ListSets
    <3>2. ASSUME \E e \in Cell : m[e] = c \/ e \in Named(m[c])
          PROVE  \E e \in Cell : w[e] = c \/ e \in Named(w[c])
      <4>1. d \in Cell /\ d \in Named(w[c])
        BY <1>1, <2>0, <2>2
      <4> QED BY <4>1
    <3> QED BY <3>1, <3>2, <2>0, <2>2, <1>0 DEF ClumpOK, ActivatingOK, FreeingOK
  <2>3. CASE b # c
    <3>1. m[b].state \notin {"ACTIVATING", "FREEING"}
      BY <2>3, <1>0 DEF InTransit
    <3>2. ASSUME m[b].state = "ACTIVE" PROVE ActiveOK(w, b)
      <4>1. ActiveOK(m, b)
        BY <2>0, <3>2 DEF ClumpOK
      <4>2. \E e \in Cell : w[e] = b
        <5>1. PICK e \in Cell : m[e] = b
          BY <4>1 DEF ActiveOK
        <5>2. e # d
          BY <5>1, <1>6, <2>0, <2>3
        <5> QED BY <5>1, <5>2
      <4>3. ListSets(w, b, NULL, {b})
        <5>1. \A i \in OnList(m[b]) : m[b].off[i] # d
          BY <4>1, <1>6, <2>0, <2>3 DEF ActiveOK, ListSets
        <5> QED BY <5>1, <4>1, <2>0, <2>1 DEF ActiveOK, ListSets
      <4> QED BY <4>1, <4>2, <4>3, <2>0 DEF ActiveOK
    <3> QED BY <3>1, <3>2, <2>0 DEF ClumpOK
  <2> QED BY <2>2, <2>3
<1> QED BY <1>0, <1>1, <1>3, <1>4, <1>5, <1>6, <1>7, <1>8, <1>9 DEF Sound

\* No pointer, and no state with a condition: what such clumps become of each
\* other does not matter.
LEMMA SoundFree ==
    ASSUME NEW m, MediumOK(m), NEW w, MediumOK(w), Sound(m), Tiled(w),
           \A d \in Cell : w[d] = m[d],
           \A b \in Clumps(m) : m[b].state \in Holds => b \in Clumps(w) /\ w[b] = m[b],
           \A b \in Clumps(w) : w[b].state \in Holds => b \in Clumps(m) /\ w[b] = m[b]
    PROVE  Sound(w) /\ InTransit(w) = InTransit(m)
<1>0. PointersOK(m) /\ (\A b \in Clumps(m) : ClumpOK(m, b)) /\ \A x, y \in InTransit(m) : x = y
  BY DEF Sound
<1>1. InTransit(w) = InTransit(m)
  BY DEF InTransit, Holds
<1>2. PointersOK(w)
  BY <1>0 DEF PointersOK, Holds
<1>3. ASSUME NEW b \in Clumps(w) PROVE ClumpOK(w, b)
  <2>1. CASE w[b].state \in Holds
    <3>1. b \in Clumps(m) /\ w[b] = m[b] /\ ClumpOK(m, b) /\ b \in Chunk
      BY <2>1, <1>0, TiledFacts DEF Sound
    <3>2. \A i \in OnList(m[b]) : m[b].off[i] \in Cell
      BY NamedCells, <3>1
    <3>3. ASSUME NEW p, NEW V, ListSets(m, b, p, V) PROVE ListSets(w, b, p, V)
      BY <3>1, <3>2, <3>3 DEF ListSets
    <3> QED BY <3>1, <3>3 DEF ClumpOK, ActiveOK, ActivatingOK, FreeingOK
  <2>2. CASE w[b].state \notin Holds
    BY <2>2 DEF ClumpOK, Holds
  <2> QED BY <2>1, <2>2
<1> QED BY <1>0, <1>1, <1>2, <1>3 DEF Sound

\* Reserve takes a free clump, or the first k chunks of it.
LEMMA SoundTake ==
    ASSUME NEW m, MediumOK(m), NEW w, MediumOK(w), Sound(m), NEW c \in Clumps(m),
           m[c].state = "FREE", NEW k \in Nat, k = m[c].size \/ Cut(m, c, k),
           w[c].size = k, w[c].state = "RESERVED",
           \A a \in (Chunk \union Cell) \ {c} : w[a] = m[a]
    PROVE  /\ Walk(w) = Walk(m) \union {c + k}
           /\ Clumps(w) = Clumps(m) \union {b \in {c + k} : k # m[c].size}
           /\ Sound(w) /\ InTransit(w) = InTransit(m)
<1>0. /\ Tiled(m) /\ c \in Walk(m) /\ c \in Chunk /\ c \in Nat /\ Goes(m, c)
      /\ m[c].size \in Nat \ {0} /\ c + m[c].size \in Walk(m) /\ Walk(m) \subseteq Chunk
      /\ Sized(m) /\ Sized(w)
  BY TiledFacts, MediumFacts, Constants DEF Sound
<1>1. \A d \in Cell : w[d] = m[d]
  BY <1>0, Constants
<1>2. CASE k = m[c].size
  <2>1. Walk(w) = Walk(m)
    <3>1. \A b \in Walk(m) : w[b].size = m[b].size
      BY <1>0, <1>2
    <3> QED BY <3>1, <1>0, WalkSame
  <2>2. Clumps(w) = Clumps(m) /\ \A b \in Clumps(m) \ {c} : w[b] = m[b]
    BY <2>1, <1>0, <1>2 DEF Clumps
  <2>3. Tiled(w)
    BY <2>1, <2>2, <1>0, <1>2 DEF Tiled, Clumps, States
  <2>4. Sound(w) /\ InTransit(w) = InTransit(m)
    <3>1. \A b \in Clumps(m) : m[b].state \in Holds => b \in Clumps(w) /\ w[b] = m[b]
      BY <2>2 DEF Holds
    <3>2. \A b \in Clumps(w) : w[b].state \in Holds => b \in Clumps(m) /\ w[b] = m[b]
      BY <2>2 DEF Holds
    <3> QED BY <2>3, <3>1, <3>2, <1>1, SoundFree
  <2> QED BY <2>1, <2>2, <2>4, <1>0, <1>2
<1>3. CASE k # m[c].size
  <2>0. 0 < k /\ k < m[c].size /\ m[c + k].state = "FREE" /\ m[c + k].size = m[c].size - k
    BY <1>3 DEF Cut
  <2>1. c + k \in Chunk /\ c + k # c /\ c + k + (m[c].size - k) = c + m[c].size /\ c + k # 0
        /\ m[c].size - k # 0
    <3>1. PICK z : z = m[c].size
      OBVIOUS
    <3>2. c \in Nat /\ z \in Nat /\ k \in Nat /\ 0 < k /\ k < z /\ c + z <= LastClump
      BY <2>0, <1>0, <3>1 DEF Goes
    <3>3. Chunk = 0..LastClump /\ LastClump \in Nat
      BY Constants DEF Chunk
    <3>4. c + k <= LastClump /\ c + k \in Nat /\ c + k # c /\ c + k + (z - k) = c + z /\ c + k # 0 /\ z - k # 0
      BY ONLY <3>2, <3>3
    <3> QED BY <3>1, <3>3, <3>4
  <2>2. w[c + k] = m[c + k]
    BY <2>1
  <2>3. Walk(w) = Walk(m) \union {c + k}
    <3>1. \A b \in Walk(m) \ {c} : w[b].size = m[b].size
      BY <1>0
    <3> QED BY <3>1, <2>0, <2>2, <1>0, WalkCut
  <2>4. Clumps(w) = Clumps(m) \union {c + k}
    <3>1. ASSUME NEW b \in Walk(m) \ {c} PROVE w[b].size = m[b].size
      BY <1>0
    <3>2. w[c].size # 0 /\ m[c].size # 0 /\ w[c + k].size # 0
      BY <2>0, <2>1, <2>2
    <3>3. ASSUME NEW b \in Clumps(w) PROVE b \in Clumps(m) \union {c + k}
      BY <2>3, <3>1, <3>2 DEF Clumps
    <3>4. ASSUME NEW b \in Clumps(m) \union {c + k} PROVE b \in Clumps(w)
      BY <2>3, <3>1, <3>2 DEF Clumps
    <3> QED BY <3>3, <3>4
  <2>5. \A b \in Clumps(m) \ {c} : w[b] = m[b] /\ b \in Chunk
    BY <1>0, TiledFacts
  <2>6. Tiled(w)
    <3>1. ASSUME NEW b \in Walk(w), w[b].size = 0 PROVE b \in {0, LastClump}
      <4>1. w[c].size # 0 /\ w[c + k].size # 0
        BY <2>0, <2>1, <2>2
      <4>2. b \in Walk(m) /\ b # c
        BY <4>1, <3>1, <2>3
      <4>3. m[b].size = 0
        BY <4>2, <3>1, <1>0
      <4> QED BY <4>2, <4>3, <1>0 DEF Tiled
    <3>2. ASSUME NEW b \in Clumps(w)
          PROVE  b + w[b].size \in Walk(w) /\ w[b].state \in States
      <4>1. CASE b = c
        BY <4>1, <2>3 DEF States
      <4>2. CASE b = c + k
        BY <4>2, <2>0, <2>1, <2>2, <2>3, <1>0 DEF States
      <4>3. CASE b # c /\ b # c + k
        BY <4>3, <2>3, <2>4, <2>5, <1>0 DEF Tiled
      <4> QED BY <4>1, <4>2, <4>3
    <3> QED BY <3>1, <3>2 DEF Tiled
  <2>7. Sound(w) /\ InTransit(w) = InTransit(m)
    <3>1. \A b \in Clumps(m) : m[b].state \in Holds => b \in Clumps(w) /\ w[b] = m[b]
      BY <2>4, <2>5 DEF Holds
    <3>2. \A b \in Clumps(w) : w[b].state \in Holds => b \in Clumps(m) /\ w[b] = m[b]
      BY <2>0, <2>2, <2>4, <2>5 DEF Holds
    <3> QED BY <2>6, <3>1, <3>2, <1>1, SoundFree
  <2> QED BY <2>3, <2>4, <2>7, <1>3
<1> QED BY <1>2, <1>3

\* The free clumps from c up to e become one.
LEMMA SoundUnite ==
    ASSUME NEW m, MediumOK(m), NEW w, MediumOK(w), Sound(m),
           NEW c \in Walk(m), NEW e \in Walk(m), c < e,
           \A b \in Clumps(m) : c <= b /\ b < e => m[b].state = "FREE",
           w[c].size = e - c, w[c].state = "FREE",
           \A a \in (Chunk \union Cell) \ {c} : w[a] = m[a]
    PROVE  /\ Walk(w) = {b \in Walk(m) : b <= c \/ e <= b}
           /\ Clumps(w) = {b \in Clumps(m) : b <= c \/ e <= b} /\ c \in Clumps(w)
           /\ Sound(w) /\ InTransit(w) = InTransit(m)
<1>0. /\ Tiled(m) /\ Walk(m) \subseteq Chunk /\ Walk(m) \subseteq Nat /\ Sized(m) /\ Sized(w)
      /\ c \in Clumps(m) /\ Clumps(m) \subseteq Walk(m) /\ c \in Nat /\ e \in Nat
      /\ m[c].size # 0 /\ c \in Chunk
  BY TiledFacts, MediumFacts, Constants DEF Sound
<1>1. \A d \in Cell : w[d] = m[d]
  BY <1>0, Constants
<1>2. Walk(w) = {b \in Walk(m) : b <= c \/ e <= b}
  <2>1. \A b \in Walk(m) \ {c} : w[b].size = m[b].size
    BY <1>0
  <2> QED BY <2>1, <1>0, WalkUnite
<1>3. w[c].size # 0 /\ c + w[c].size = e
  BY <1>0
<1>4. \A b \in Walk(m) \ {c} : w[b] = m[b]
  BY <1>0
<1>5. Clumps(w) = {b \in Clumps(m) : b <= c \/ e <= b} /\ c \in Clumps(w)
  BY <1>0, <1>2, <1>3, <1>4 DEF Clumps
<1>6. Tiled(w)
  <2>1. ASSUME NEW b \in Walk(w), w[b].size = 0 PROVE b \in {0, LastClump}
    BY <2>1, <1>0, <1>2, <1>3, <1>4 DEF Tiled
  <2>2. ASSUME NEW b \in Clumps(w)
        PROVE  b + w[b].size \in Walk(w) /\ w[b].state \in States
    <3>1. CASE b = c
      BY <3>1, <1>0, <1>2, <1>3 DEF States
    <3>2. CASE b # c
      <4>1. b \in Clumps(m) /\ w[b] = m[b] /\ (b < c \/ e <= b) /\ b \in Nat
        BY <3>2, <1>0, <1>4, <1>5
      <4>2. m[b].state \in States /\ b + m[b].size \in Walk(m) /\ m[b].size \in Nat
            /\ b + m[b].size \in Nat
        BY <4>1, <1>0, TiledFacts
      <4>3. b < c => b + m[b].size <= c
        BY <4>1, <1>0, TiledFacts
      <4>4. e <= b => e <= b + m[b].size
        BY <4>1, <4>2, <1>0
      <4> QED BY <4>1, <4>2, <4>3, <4>4, <1>2
    <3> QED BY <3>1, <3>2
  <2> QED BY <2>1, <2>2 DEF Tiled
<1>7. Sound(w) /\ InTransit(w) = InTransit(m)
  <2>1. ASSUME NEW b \in Clumps(m), m[b].state \in Holds PROVE b \in Clumps(w) /\ w[b] = m[b]
    <3>1. ~(c <= b /\ b < e) /\ b \in Nat
      BY <2>1, <1>0 DEF Holds
    <3>2. b # c /\ (b <= c \/ e <= b)
      BY <3>1, <1>0
    <3> QED BY <3>2, <1>0, <1>4, <1>5
  <2>2. ASSUME NEW b \in Clumps(w), w[b].state \in Holds PROVE b \in Clumps(m) /\ w[b] = m[b]
    <3>1. b # c
      BY <2>2 DEF Holds
    <3> QED BY <3>1, <1>0, <1>4, <1>5
  <2> QED BY <2>1, <2>2, <1>1, <1>6, SoundFree
<1> QED BY <1>2, <1>5, <1>7

\* A new file is a pool without clumps.
LEMMA SoundNew ==
    ASSUME NEW m, MediumOK(m), m[0].size = 0, \A d \in Cell : m[d] = NULL
    PROVE  Walk(m) = {0} /\ Clumps(m) = {} /\ InTransit(m) = {} /\ Sound(m)
<1>1. Walk(m) = {0}
  <2>1. {0} \in SUBSET Chunk /\ Closed(m, {0})
    BY Constants DEF Closed, Goes
  <2> QED BY <2>1, WalkLeast, MediumFacts
<1>2. Clumps(m) = {}
  BY <1>1 DEF Clumps
<1>3. InTransit(m) = {}
  BY <1>2 DEF InTransit
<1> QED BY <1>1, <1>2, <1>3 DEF Sound, Tiled, PointersOK

\* The first clump is all of the pool.
LEMMA SoundFirst ==
    ASSUME NEW m, MediumOK(m), m[0].size = LastClump, m[0].state = "FREE",
           m[LastClump].size = 0, \A d \in Cell : m[d] = NULL
    PROVE  /\ Walk(m) = {0, LastClump} /\ Clumps(m) = {0} /\ InTransit(m) = {} /\ Sound(m)
<1>1. Walk(m) = {0, LastClump}
  <2>1. {0, LastClump} \in SUBSET Chunk /\ Closed(m, {0, LastClump})
    BY Constants DEF Closed, Goes
  <2>2. Walk(m) \subseteq {0, LastClump} /\ 0 \in Walk(m) /\ Closed(m, Walk(m))
    BY <2>1, WalkLeast, MediumFacts
  <2>3. 0 + m[0].size = LastClump /\ Goes(m, 0)
    BY Constants DEF Goes
  <2>4. LastClump \in Walk(m)
    BY <2>2, <2>3 DEF Closed
  <2> QED BY <2>2, <2>4
<1>2. Clumps(m) = {0}
  BY <1>1, Constants DEF Clumps
<1>3. InTransit(m) = {}
  BY <1>2 DEF InTransit
<1>4. Tiled(m)
  BY <1>1, <1>2, Constants DEF Tiled, States
<1> QED BY <1>1, <1>2, <1>3, <1>4 DEF Sound, PointersOK, ClumpOK

-----------------------------------------------------------------------------
(* One step of a call and the memory *)

LEMMA EffectNone ==
    ASSUME NEW m, NEW o, o \in Persists \union ScanOps \union FileOps
    PROVE  Effect(m, o) = m
  BY DEF Effect, Persists, ScanOps, FileOps, Stores

LEMMA EffectSize ==
    ASSUME NEW m, Typed(m), NEW c \in Chunk, NEW n \in Chunk, NEW st \in States,
           c + n <= LastClump
    PROVE  LET w == Effect(m, [do |-> "size", at |-> c, size |-> n, state |-> st]) IN
           /\ Typed(w) /\ \A a \in DOMAIN m \ {c} : w[a] = m[a]
           /\ w[c].size = n /\ w[c].state = st /\ w[c].off = m[c].off /\ w[c].ptr = m[c].ptr
<1> DEFINE l == [m[c] EXCEPT !.size = n, !.state = st]
           w == [m EXCEPT ![c] = l]
<1>1. Effect(m, [do |-> "size", at |-> c, size |-> n, state |-> st]) = w
  BY DEF Effect, WrittenTo, Stores
<1>2. MediumOK(m) /\ m[c] \in Line /\ DOMAIN m = Chunk \union Cell \union {HDR}
  BY MediumFacts DEF Typed
<1>3. l \in Line /\ l.size = n /\ l.state = st /\ l.off = m[c].off /\ l.ptr = m[c].ptr
  BY <1>2, Constants DEF Line
<1> HIDE DEF l
<1>4. w[c] = l /\ DOMAIN w = DOMAIN m /\ \A a \in DOMAIN m \ {c} : w[a] = m[a]
  BY <1>2
<1> HIDE DEF w
<1>5. Typed(w)
  <2>1. MediumOK(w)
    BY <1>2, <1>3, <1>4, Constants DEF MediumOK
  <2>2. Fits(w)
    BY <1>2, <1>3, <1>4 DEF Fits, Typed
  <2> QED BY <2>1, <2>2 DEF Typed
<1> QED BY <1>1, <1>3, <1>4, <1>5

\* A store to a header that leaves its size and state.
LEMMA EffectList ==
    ASSUME NEW m, Typed(m), NEW c \in Chunk, NEW w,
           DOMAIN w = DOMAIN m, \A a \in DOMAIN m \ {c} : w[a] = m[a],
           w[c] \in Line, w[c].size = m[c].size, w[c].state = m[c].state
    PROVE  Typed(w)
<1>1. MediumOK(m) /\ DOMAIN m = Chunk \union Cell \union {HDR}
  BY MediumFacts DEF Typed
<1>2. MediumOK(w)
  BY <1>1, Constants DEF MediumOK
<1>3. Fits(w)
  BY <1>1 DEF Fits, Typed
<1> QED BY <1>2, <1>3 DEF Typed

LEMMA EffectOff ==
    ASSUME NEW m, Typed(m), NEW c \in Chunk, NEW i \in Slot, NEW d \in Cell \union {NULL}
    PROVE  LET w == Effect(m, [do |-> "off", at |-> c, i |-> i, val |-> d]) IN
           /\ Typed(w) /\ \A a \in DOMAIN m \ {c} : w[a] = m[a]
           /\ w[c].size = m[c].size /\ w[c].state = m[c].state /\ w[c].ptr = m[c].ptr
           /\ w[c].off[i] = d /\ \A j \in Slot \ {i} : w[c].off[j] = m[c].off[j]
<1> DEFINE l == [m[c] EXCEPT !.off[i] = d]
           w == [m EXCEPT ![c] = l]
<1>1. Effect(m, [do |-> "off", at |-> c, i |-> i, val |-> d]) = w
  BY DEF Effect, WrittenTo, Stores
<1>2. MediumOK(m) /\ m[c] \in Line /\ DOMAIN m = Chunk \union Cell \union {HDR}
  BY MediumFacts DEF Typed
<1>3. /\ l \in Line /\ l.size = m[c].size /\ l.state = m[c].state /\ l.ptr = m[c].ptr
      /\ l.off[i] = d /\ \A j \in Slot \ {i} : l.off[j] = m[c].off[j]
  BY <1>2 DEF Line
<1> HIDE DEF l
<1>4. w[c] = l /\ DOMAIN w = DOMAIN m /\ \A a \in DOMAIN m \ {c} : w[a] = m[a]
  BY <1>2
<1> HIDE DEF w
<1>5. Typed(w)
  BY <1>3, <1>4, EffectList
<1> QED BY <1>1, <1>3, <1>4, <1>5

LEMMA EffectPtr ==
    ASSUME NEW m, Typed(m), NEW c \in Chunk, NEW i \in Slot, NEW p \in Chunk \union {NULL}
    PROVE  LET w == Effect(m, [do |-> "ptr", at |-> c, i |-> i, val |-> p]) IN
           /\ Typed(w) /\ \A a \in DOMAIN m \ {c} : w[a] = m[a]
           /\ w[c].size = m[c].size /\ w[c].state = m[c].state /\ w[c].off = m[c].off
           /\ w[c].ptr[i] = p /\ \A j \in Slot \ {i} : w[c].ptr[j] = m[c].ptr[j]
<1> DEFINE l == [m[c] EXCEPT !.ptr[i] = p]
           w == [m EXCEPT ![c] = l]
<1>1. Effect(m, [do |-> "ptr", at |-> c, i |-> i, val |-> p]) = w
  BY DEF Effect, WrittenTo, Stores
<1>2. MediumOK(m) /\ m[c] \in Line /\ DOMAIN m = Chunk \union Cell \union {HDR}
  BY MediumFacts DEF Typed
<1>3. /\ l \in Line /\ l.size = m[c].size /\ l.state = m[c].state /\ l.off = m[c].off
      /\ l.ptr[i] = p /\ \A j \in Slot \ {i} : l.ptr[j] = m[c].ptr[j]
  BY <1>2 DEF Line
<1> HIDE DEF l
<1>4. w[c] = l /\ DOMAIN w = DOMAIN m /\ \A a \in DOMAIN m \ {c} : w[a] = m[a]
  BY <1>2
<1> HIDE DEF w
<1>5. Typed(w)
  BY <1>3, <1>4, EffectList
<1> QED BY <1>1, <1>3, <1>4, <1>5

LEMMA EffectBlank ==
    ASSUME NEW m, Typed(m), NEW c \in Chunk
    PROVE  LET w == Effect(m, [do |-> "blank", at |-> c]) IN
           Typed(w) /\ w[c] = Blank /\ \A a \in DOMAIN m \ {c} : w[a] = m[a]
<1> DEFINE w == [m EXCEPT ![c] = Blank]
<1>1. Effect(m, [do |-> "blank", at |-> c]) = w
  BY DEF Effect, WrittenTo, Stores
<1>2. MediumOK(m) /\ DOMAIN m = Chunk \union Cell \union {HDR}
  BY MediumFacts DEF Typed
<1>3. w[c] = Blank /\ DOMAIN w = DOMAIN m /\ \A a \in DOMAIN m \ {c} : w[a] = m[a]
  BY <1>2
<1> HIDE DEF w
<1>4. MediumOK(w)
  BY <1>2, <1>3, BlankLine, Constants DEF MediumOK
<1>5. Fits(w)
  BY <1>2, <1>3, BlankLine, Constants DEF Fits, Typed
<1> QED BY <1>1, <1>3, <1>4, <1>5 DEF Typed

LEMMA EffectCell ==
    ASSUME NEW m, Typed(m), NEW d, NEW p,
           (d \in Cell /\ p \in Chunk \union {NULL}) \/ CellOp(d, p) = Magic
    PROVE  LET w == Effect(m, CellOp(d, p)) IN
           Typed(w) /\ w[d] = p /\ \A a \in DOMAIN m \ {d} : w[a] = m[a]
<1> DEFINE w == [m EXCEPT ![d] = p]
<1>1. Effect(m, CellOp(d, p)) = w
  BY DEF Effect, WrittenTo, Stores, CellOp
<1>2. MediumOK(m) /\ DOMAIN m = Chunk \union Cell \union {HDR}
  BY MediumFacts DEF Typed
<1>3. (d \in Cell /\ p \in Chunk \union {NULL}) \/ (d = HDR /\ p = "*PMEMALLOC_POOL")
  BY DEF CellOp, Magic
<1>4. w[d] = p /\ DOMAIN w = DOMAIN m /\ \A a \in DOMAIN m \ {d} : w[a] = m[a]
  BY <1>2, <1>3
<1> HIDE DEF w
<1>5. MediumOK(w)
  BY <1>2, <1>3, <1>4, Constants DEF MediumOK
<1>6. Fits(w)
  BY <1>2, <1>3, <1>4, Constants DEF Fits, Typed
<1> QED BY <1>1, <1>4, <1>5, <1>6 DEF Typed

\* Any step of a call.
LEMMA EffectTyped ==
    ASSUME NEW m, Typed(m), NEW o \in Ops
    PROVE  Typed(Effect(m, o)) /\ \A a \in DOMAIN m \ {o.at} : Effect(m, o)[a] = m[a]
<1>1. CASE o \in Persists \union ScanOps \union FileOps
  BY <1>1, EffectNone
<1>2. CASE o \in SizeOps
  <2>1. /\ o.at \in Chunk /\ o.size \in Chunk /\ o.state \in States /\ o.at + o.size <= LastClump
        /\ o = [do |-> "size", at |-> o.at, size |-> o.size, state |-> o.state]
    BY <1>2 DEF SizeOps
  <2> QED BY <2>1, EffectSize
<1>3. CASE o \in OffOps
  <2>1. /\ o.at \in Chunk /\ o.i \in Slot /\ o.val \in Cell \union {NULL}
        /\ o = [do |-> "off", at |-> o.at, i |-> o.i, val |-> o.val]
    BY <1>3 DEF OffOps
  <2> QED BY <2>1, EffectOff
<1>4. CASE o \in PtrOps
  <2>1. /\ o.at \in Chunk /\ o.i \in Slot /\ o.val \in Chunk \union {NULL}
        /\ o = [do |-> "ptr", at |-> o.at, i |-> o.i, val |-> o.val]
    BY <1>4 DEF PtrOps
  <2> QED BY <2>1, EffectPtr
<1>5. CASE o \in CellOps
  <2>1. o.at \in Cell /\ o.val \in Chunk \union {NULL} /\ o = CellOp(o.at, o.val)
    BY <1>5 DEF CellOps, CellOp
  <2> QED BY <2>1, EffectCell
<1>6. CASE o = Magic
  <2>1. o = CellOp(HDR, "*PMEMALLOC_POOL") /\ o.at = HDR
    BY <1>6 DEF Magic, CellOp
  <2> QED BY <2>1, <1>6, EffectCell
<1>7. CASE o \in BlankOps
  <2>1. o.at \in Chunk /\ o = [do |-> "blank", at |-> o.at]
    BY <1>7 DEF BlankOps
  <2> QED BY <2>1, EffectBlank
<1> QED BY <1>1, <1>2, <1>3, <1>4, <1>5, <1>6, <1>7 DEF Ops

-----------------------------------------------------------------------------
(* The way out of ACTIVATING, FREEING and, in recovery, RESERVED *)

\* An entry is cleared.
LEMMA ListCut ==
    ASSUME NEW l, NEW k, \A j \in Slot : k.off[j] = l.off[j] \/ k.off[j] = NULL
    PROVE  /\ OnList(k) \subseteq OnList(l) /\ Named(k) \subseteq Named(l)
           /\ \A j \in OnList(k) : k.off[j] = l.off[j]
<1>1. ASSUME NEW i \in OnList(k) PROVE i \in OnList(l) /\ k.off[i] = l.off[i]
  <2>1. i \in Slot /\ \A j \in 1..i : k.off[j] # NULL
    BY DEF OnList
  <2>2. \A j \in 1..i : j \in Slot /\ i \in 1..i
    BY <2>1, Constants
  <2>3. \A j \in 1..i : k.off[j] = l.off[j]
    BY <2>1, <2>2
  <2> QED BY <2>1, <2>2, <2>3, Constants DEF OnList
<1> QED BY <1>1 DEF Named

LEMMA EndingIs ==
    ASSUME NEW m, Typed(m), NEW c \in Clumps(m), Tiled(m), NEW rest \in Flow
    PROVE  LET o == [do |-> "size", at |-> c, size |-> m[c].size, state |-> FinalOf(m, c)] IN
           /\ Ending(m, c, rest) \in Flow
           /\ Ending(m, c, rest) # <<>> /\ Head(Ending(m, c, rest)) = o
           /\ Tail(Ending(m, c, rest)) = Persist(c) \o rest
           /\ FinalOf(m, c) \in States /\ m[c].size \in Chunk /\ c \in Chunk
           /\ c + m[c].size <= LastClump
<1> DEFINE o == [do |-> "size", at |-> c, size |-> m[c].size, state |-> FinalOf(m, c)]
           r == Persist(c) \o rest
<1>1. c \in Chunk /\ m[c].size \in Chunk /\ FinalOf(m, c) \in States /\ c + m[c].size <= LastClump
  BY TiledFacts, MediumFacts, Constants DEF Typed, FinalOf, States, Goes
<1>2. o \in Ops
  BY <1>1 DEF Ops, SizeOps
<1>3. PutSize(c, m[c].size, FinalOf(m, c)) = <<o>>
  BY DEF PutSize
<1>4. Persist(c) \in Flow /\ r \in Flow
  BY <1>1, PersistIs, FlowConcat
<1>5. r \in Seq(Ops) /\ rest \in Seq(Ops) /\ Persist(c) \in Seq(Ops)
  BY <1>4 DEF Flow
<1>6. Ending(m, c, rest) = <<o>> \o r
  BY <1>3 DEF Ending
<1>7. Ending(m, c, rest) \in Flow
  <2>1. PutSize(c, m[c].size, FinalOf(m, c)) \o Persist(c) \in Flow
    BY <1>1, FlowStore
  <2>2. <<o>> \in Seq(Ops)
    BY <1>2
  <2>3. Ending(m, c, rest) = (<<o>> \o Persist(c)) \o rest
    BY <2>2, <1>5, <1>6, ConcatAssociative
  <2> QED BY <2>1, <2>3, <1>3, FlowConcat
<1> HIDE DEF o, r
<1>8. <<o>> \o r # <<>> /\ Head(<<o>> \o r) = o /\ Tail(<<o>> \o r) = r
  BY <1>2, <1>5
<1> QED BY <1>1, <1>6, <1>7, <1>8 DEF o, r

\* The first step of a call in Clearing.
LEMMA ClearingStep ==
    ASSUME NEW m, Typed(m), Sound(m), NEW c, NEW rest \in Flow, NEW s,
           Clearing(m, s, c, rest)
    PROVE  LET w == Effect(m, Head(s)) IN
           /\ s # <<>>
           /\ Clearing(w, Tail(s), c, rest) \/ Finished(w, Tail(s), c, rest)
           /\ Sound(w) /\ Same(m, w, c) /\ SameCells(m, w)
           /\ w[c].state \in {m[c].state, FinalOf(m, c)}
           /\ Named(w[c]) \subseteq Named(m[c])
           /\ InTransit(w) \subseteq InTransit(m)
           /\ w[c].state = m[c].state \/ InTransit(w) \subseteq InTransit(m) \ {c}
           /\ Head(s).do \in Stores => Head(s).at = c
<1> DEFINE X == Clears(c) \union Persists
           w == Effect(m, Head(s))
           r == Ending(m, c, rest)
           o == [do |-> "size", at |-> c, size |-> m[c].size, state |-> FinalOf(m, c)]
<1>0. /\ c \in Clumps(m) /\ m[c].state \in {"RESERVED", "ACTIVATING", "FREEING"} /\ Handed(m, c)
      /\ Tiled(m) /\ MediumOK(m) /\ c \in Chunk /\ DOMAIN m = Chunk \union Cell \union {HDR}
      /\ Walk(m) \union Cell \subseteq DOMAIN m /\ Clumps(m) \subseteq Walk(m)
      /\ \A x, y \in InTransit(m) : x = y
  BY TiledFacts, MediumFacts DEF Clearing, Sound, Typed
<1>1. PICK q \in Seq(X) : s = q \o r /\ (m[c].state = "ACTIVATING" => WillClear(m, c, q))
  BY DEF Clearing
<1>2. /\ r \in Flow /\ r # <<>> /\ Head(r) = o /\ Tail(r) = Persist(c) \o rest
      /\ FinalOf(m, c) \in States /\ m[c].size \in Chunk /\ c + m[c].size <= LastClump
  BY <1>0, EndingIs
<1>3. r \in Seq(Ops)
  BY <1>2 DEF Flow
<1>4. CASE q = <<>>
  <2>1. s = r /\ Head(s) = o /\ Tail(s) = Persist(c) \o rest
    BY <1>1, <1>2, <1>3, <1>4, Peel
  <2>2. /\ Typed(w) /\ \A a \in DOMAIN m \ {c} : w[a] = m[a]
        /\ w[c].size = m[c].size /\ w[c].state = FinalOf(m, c)
        /\ w[c].off = m[c].off /\ w[c].ptr = m[c].ptr
    <3>1. w = Effect(m, [do |-> "size", at |-> c, size |-> m[c].size, state |-> FinalOf(m, c)])
      BY <2>1
    <3> HIDE DEF w
    <3> QED BY <3>1, <1>0, <1>2, EffectSize
  <2> HIDE DEF w
  <2>3. SameCells(m, w) /\ \A a \in (Walk(m) \union Cell) \ {c} : w[a] = m[a]
    BY <2>2, <1>0, Constants DEF SameCells
  <2>4. m[c].state = "ACTIVATING" => EmptyList(w[c])
    <3>1. \A i \in Slot : ClearOp(c, i) \notin Range(q)
      BY <1>4, EmptySeq DEF Range
    <3> QED BY <3>1, <1>1, <2>2 DEF WillClear, EmptyList
  <2>5. EmptyList(w[c]) => OnList(w[c]) = {}
    BY Constants DEF EmptyList, OnList
  <2>6. ClumpOK(w, c)
    <3>1. CASE m[c].state = "ACTIVATING"
      <4>1. \E d \in Cell : w[d] = c
        BY <3>1, <1>0, <2>3 DEF Handed, SameCells
      <4> QED BY <4>1, <3>1, <2>2, <2>4, <2>5
              DEF ClumpOK, ActiveOK, FinalOf, Packed, EmptyList, ListSets
    <3>2. CASE m[c].state # "ACTIVATING"
      BY <3>2, <2>2 DEF ClumpOK, FinalOf
    <3> QED BY <3>1, <3>2
  <2>7. \A d \in Cell : m[d] = c =>
            w[c].state \in Holds /\ (w[c].state = "FREEING" => d \in Named(w[c]))
    BY <1>0, <2>2 DEF Handed, FinalOf, Holds
  <2>8. /\ Walk(w) = Walk(m) /\ Clumps(w) = Clumps(m) /\ Sound(w)
        /\ \A b \in Clumps(m) \ {c} : w[b] = m[b]
    <3>1. w[c].state \notin {"ACTIVATING", "FREEING"}
      BY <2>2 DEF FinalOf
    <3> QED BY <3>1, <2>2, <2>3, <2>6, <2>7, <1>0, <1>2, SoundLine DEF Typed
  <2>9. InTransit(w) \subseteq InTransit(m) \ {c}
    BY <2>2, <2>8 DEF InTransit, FinalOf
  <2>10. Finished(w, Tail(s), c, rest)
    BY <2>1, <2>2, <2>8, <1>0 DEF Finished, FinalOf
  <2>11. Named(w[c]) = Named(m[c]) /\ Head(s).at = c /\ s # <<>>
    <3>1. OnList(w[c]) = OnList(m[c])
      BY <2>2 DEF OnList
    <3> QED BY <3>1, <2>1, <2>2, <1>2 DEF Named
  <2> QED BY <2>1, <2>2, <2>3, <2>8, <2>9, <2>10, <2>11 DEF Same, w
<1>5. CASE q # <<>>
  <2>1. /\ Head(q) \in X /\ Tail(q) \in Seq(X) /\ s # <<>> /\ Head(s) = Head(q)
        /\ Tail(s) = Tail(q) \o r /\ Range(q) = {Head(q)} \union Range(Tail(q))
    BY <1>1, <1>3, <1>5, Peel
  <2>2. CASE Head(q) \in Persists
    <3>1. w = m /\ Head(s).do \notin Stores
      <4>1. Head(s) \in Persists
        BY <2>1, <2>2
      <4> QED BY <4>1, EffectNone DEF Persists, Stores
    <3>2. \A i \in Slot : ClearOp(c, i) # Head(q)
      BY <2>2 DEF Persists, ClearOp
    <3>3. WillClear(m, c, q) => WillClear(m, c, Tail(q))
      BY <3>2, <2>1 DEF WillClear
    <3>4. Clearing(m, Tail(s), c, rest)
      BY <3>3, <2>1, <1>0, <1>1 DEF Clearing
    <3> HIDE DEF w
    <3> QED BY <3>1, <3>4, <2>1 DEF Same, SameCells, w
  <2>3. CASE Head(q) \in Clears(c)
    <3>1. PICK i \in Slot : Head(s) = ClearOp(c, i)
      BY <2>1, <2>3 DEF Clears
    <3>2. /\ Typed(w) /\ \A a \in DOMAIN m \ {c} : w[a] = m[a]
          /\ w[c].size = m[c].size /\ w[c].state = m[c].state /\ w[c].ptr = m[c].ptr
          /\ w[c].off[i] = NULL /\ \A j \in Slot \ {i} : w[c].off[j] = m[c].off[j]
      <4>1. w = Effect(m, [do |-> "off", at |-> c, i |-> i, val |-> NULL])
        BY <3>1 DEF ClearOp
      <4> HIDE DEF w
      <4> QED BY <4>1, <1>0, EffectOff
    <3> HIDE DEF w
    <3>3. SameCells(m, w) /\ \A a \in (Walk(m) \union Cell) \ {c} : w[a] = m[a]
      BY <3>2, <1>0, Constants DEF SameCells
    <3>4. /\ OnList(w[c]) \subseteq OnList(m[c]) /\ Named(w[c]) \subseteq Named(m[c])
          /\ \A j \in OnList(w[c]) : w[c].off[j] = m[c].off[j]
      <4>1. PICK l, k : l = m[c] /\ k = w[c]
        OBVIOUS
      <4>2. \A j \in Slot : k.off[j] = l.off[j] \/ k.off[j] = NULL
        BY <3>2, <4>1
      <4>3. /\ OnList(k) \subseteq OnList(l) /\ Named(k) \subseteq Named(l)
            /\ \A j \in OnList(k) : k.off[j] = l.off[j]
        BY <4>2, ListCut
      <4> QED BY <4>1, <4>3
    <3>5. ASSUME NEW p, NEW V, ListSets(m, c, p, V) PROVE ListSets(w, c, p, V)
      <4>1. \A j \in OnList(m[c]) : m[c].off[j] \in Cell
        BY <1>0, NamedCells
      <4> QED BY <4>1, <3>2, <3>3, <3>4, <3>5 DEF ListSets, SameCells
    <3>6. ClumpOK(w, c)
      <4>1. ClumpOK(m, c)
        BY <1>0 DEF Sound
      <4>2. m[c].state = "ACTIVATING" => \E d \in Cell : w[d] = c
        BY <1>0, <3>3 DEF Handed, SameCells
      <4> QED BY <4>1, <4>2, <3>2, <3>5, <1>0 DEF ClumpOK, ActivatingOK, FreeingOK
    <3>7. \A d \in Cell : m[d] = c =>
              w[c].state \in Holds /\ (w[c].state = "FREEING" => d \in Named(w[c]))
      BY <1>0, <3>2 DEF Handed, Holds
    <3>8. w[c].state \in {"ACTIVATING", "FREEING"} => InTransit(m) \subseteq {c}
      BY <1>0, <3>2 DEF InTransit
    <3>9. /\ Walk(w) = Walk(m) /\ Clumps(w) = Clumps(m) /\ Sound(w)
          /\ \A b \in Clumps(m) \ {c} : w[b] = m[b]
      <4>1. w[c].state \in States
        BY <3>2, <1>0, TiledFacts
      <4> QED BY <4>1, <3>2, <3>3, <3>6, <3>7, <3>8, <1>0, SoundLine DEF Typed
    <3>10. InTransit(w) = InTransit(m)
      BY <3>2, <3>9 DEF InTransit
    <3>11. Clearing(w, Tail(s), c, rest)
      <4>1. Handed(w, c)
        <5>1. \A d \in Named(m[c]) : d \in Cell
          BY <1>0, NamedCells
        <5>2. \A d \in Cell : w[d] = m[d]
          BY <3>3 DEF SameCells
        <5> QED BY <5>1, <5>2, <1>0, <3>2, <3>4 DEF Handed
      <4>2. Ending(w, c, rest) = r
        BY <3>2 DEF Ending, FinalOf
      <4>3. ASSUME WillClear(m, c, q) PROVE WillClear(w, c, Tail(q))
        <5> SUFFICES ASSUME NEW j \in Slot, w[c].off[j] # NULL
                     PROVE ClearOp(c, j) \in Range(Tail(q))
          BY DEF WillClear
        <5>1. j # i /\ m[c].off[j] # NULL
          BY <3>2
        <5>2. ClearOp(c, j) \in Range(q)
          BY <5>1, <4>3 DEF WillClear
        <5>3. ClearOp(c, j) # Head(q)
          BY <5>1, <3>1, <2>1 DEF ClearOp
        <5> QED BY <5>2, <5>3, <2>1
      <4> QED BY <4>1, <4>2, <4>3, <3>2, <3>9, <2>1, <1>0, <1>1 DEF Clearing
    <3>12. Head(s).at = c
      BY <3>1 DEF ClearOp
    <3> QED BY <3>2, <3>3, <3>4, <3>9, <3>10, <3>11, <3>12, <2>1 DEF Same, w
  <2> QED BY <2>1, <2>2, <2>3
<1> QED BY <1>4, <1>5

LEMMA OneStep ==
    ASSUME NEW o, NEW Y, NEW r \in Seq(Y)
    PROVE  <<o>> \o r # <<>> /\ Head(<<o>> \o r) = o /\ Tail(<<o>> \o r) = r
<1>1. <<o>> \in Seq(Y \union {o}) /\ r \in Seq(Y \union {o})
  BY SeqMonotonic
<1> QED BY <1>1

\* When all assignments are made, the list is cleared.
LEMMA ExecutingOver ==
    ASSUME NEW m, Typed(m), Sound(m), NEW c \in InTransit(m), NEW rest,
           \A d \in Named(m[c]) : m[d] = Target(m, c)
    PROVE  Clearing(m, ClearOn(c) \o Ending(m, c, rest), c, rest)
<1>0. /\ c \in Clumps(m) /\ m[c].state \in {"ACTIVATING", "FREEING"} /\ c \in Chunk
      /\ PointersOK(m) /\ ClumpOK(m, c) /\ c # NULL
  BY TiledFacts, Constants DEF Sound, InTransit, Typed
<1>1. Handed(m, c)
  <2>1. ASSUME m[c].state = "ACTIVATING"
        PROVE  (\E d \in Cell : m[d] = c) /\ \A d \in Named(m[c]) : m[d] = c
    <3>1. PICK d \in Cell : m[d] = c \/ d \in Named(m[c])
      BY <2>1, <1>0 DEF ClumpOK, ActivatingOK
    <3> QED BY <3>1, <2>1 DEF Target
  <2>2. ASSUME m[c].state = "FREEING", NEW d \in Cell, m[d] = c PROVE FALSE
    <3>1. d \in Named(m[c])
      BY <2>2, <1>0 DEF PointersOK
    <3> QED BY <3>1, <2>2, <1>0 DEF Target
  <2> QED BY <2>1, <2>2, <1>0 DEF Handed
<1>2. ClearOn(c) \in Seq(Clears(c) \union Persists) /\ Clears(c) \subseteq Range(ClearOn(c))
  BY <1>0, ClearIs
<1>3. WillClear(m, c, ClearOn(c))
  BY <1>2 DEF WillClear, Clears
<1> QED BY <1>0, <1>1, <1>2, <1>3 DEF Clearing

LEMMA FinishingStep ==
    ASSUME NEW m, Typed(m), Sound(m), NEW c, NEW rest \in Flow, NEW s,
           Finishing(m, s, c, rest)
    PROVE  LET w == Effect(m, Head(s)) IN
           /\ s # <<>> /\ c \in Clumps(m) /\ m[c].state \in {"RESERVED", "ACTIVATING", "FREEING"}
           /\ Finishing(w, Tail(s), c, rest) \/ Finished(w, Tail(s), c, rest)
           /\ Frame(m, w, c)
<1> DEFINE w == Effect(m, Head(s))
           Goal == /\ s # <<>> /\ c \in Clumps(m)
                   /\ m[c].state \in {"RESERVED", "ACTIVATING", "FREEING"}
                   /\ Finishing(w, Tail(s), c, rest) \/ Finished(w, Tail(s), c, rest)
                   /\ Frame(m, w, c)
<1>1. ASSUME Clearing(m, s, c, rest) PROVE Goal
  <2>1. c \in Clumps(m) /\ m[c].state \in {"RESERVED", "ACTIVATING", "FREEING"}
    BY <1>1 DEF Clearing
  <2>2. /\ s # <<>>
        /\ Clearing(w, Tail(s), c, rest) \/ Finished(w, Tail(s), c, rest)
        /\ Sound(w) /\ Same(m, w, c) /\ SameCells(m, w)
        /\ w[c].state \in {m[c].state, FinalOf(m, c)}
        /\ Named(w[c]) \subseteq Named(m[c])
        /\ InTransit(w) \subseteq InTransit(m)
        /\ w[c].state = m[c].state \/ InTransit(w) \subseteq InTransit(m) \ {c}
    BY <1>1, ClearingStep
  <2>3. ASSUME c \in InTransit(m), NEW d \in Named(m[c]) PROVE w[d] = Target(m, c)
    <3>1. Handed(m, c) /\ ClumpOK(m, c) /\ m[c].state \in {"ACTIVATING", "FREEING"}
      BY <1>1, <2>1, <2>3 DEF Clearing, Sound, InTransit
    <3>2. d \in Cell
      <4>1. MediumOK(m) /\ c \in Chunk
        BY <2>1, TiledFacts DEF Typed, Sound
      <4> QED BY <4>1, <2>3, NamedCells
    <3>3. m[d] = Target(m, c)
      <4>1. CASE m[c].state = "ACTIVATING"
        BY <4>1, <3>1, <2>3 DEF Handed, Target
      <4>2. CASE m[c].state = "FREEING"
        <5>1. m[d] \in {NULL, c}
          BY <4>2, <3>1, <2>3 DEF ClumpOK, FreeingOK, ListSets, Named
        <5> QED BY <5>1, <4>2, <3>1, <3>2 DEF Handed, Target
      <4> QED BY <4>1, <4>2, <3>1
    <3> HIDE DEF w
    <3> QED BY <3>2, <3>3, <2>2 DEF SameCells
  <2> HIDE DEF w
  <2> QED BY <2>1, <2>2, <2>3 DEF Finishing, Frame, LinkedBy, SameCells
<1>2. ASSUME Executing(m, s, c, rest) PROVE Goal
  <2> DEFINE X == Links(m[c], Target(m, c)) \union Persists
             r == ClearOn(c) \o Ending(m, c, rest)
  <2>0. /\ c \in InTransit(m) /\ c \in Clumps(m) /\ c \in Chunk /\ Tiled(m) /\ MediumOK(m)
        /\ m[c].state \in {"ACTIVATING", "FREEING"}
        /\ DOMAIN m = Chunk \union Cell \union {HDR} /\ Walk(m) \subseteq Chunk
    BY <1>2, TiledFacts, MediumFacts DEF Executing, InTransit, Sound, Typed
  <2>1. PICK q \in Seq(X) :
            /\ s = q \o r
            /\ \A d \in Named(m[c]) : m[d] = Target(m, c) \/ CellOp(d, Target(m, c)) \in Range(q)
    BY <1>2 DEF Executing
  <2>2. r \in Seq(Ops)
    <3>1. Ending(m, c, rest) \in Flow /\ ClearOn(c) \in Flow
      BY <2>0, EndingIs, ClearIs
    <3>2. r \in Flow
      BY <3>1, FlowConcat
    <3> QED BY <3>2 DEF Flow
  <2>3. CASE q = <<>>
    <3>1. s = r
      BY <2>1, <2>2, <2>3, Peel
    <3>2. \A d \in Named(m[c]) : m[d] = Target(m, c)
      BY <2>1, <2>3, EmptySeq DEF Range
    <3>3. Clearing(m, s, c, rest)
      BY <3>1, <3>2, <2>0, ExecutingOver
    <3> HIDE DEF Goal
    <3> QED BY <3>3, <1>1
  <2>4. CASE q # <<>>
    <3>1. /\ Head(q) \in X /\ Tail(q) \in Seq(X) /\ s # <<>> /\ Head(s) = Head(q)
          /\ Tail(s) = Tail(q) \o r /\ Range(q) = {Head(q)} \union Range(Tail(q))
      <4> HIDE DEF Goal, w, r
      <4>1. q \in Seq(X) /\ r \in Seq(Ops) /\ q # <<>>
        BY <2>1, <2>2, <2>4
      <4>2. /\ Head(q) \in X /\ Tail(q) \in Seq(X) /\ q \o r # <<>> /\ Head(q \o r) = Head(q)
            /\ Tail(q \o r) = Tail(q) \o r /\ Range(q) = {Head(q)} \union Range(Tail(q))
        BY ONLY <4>1, Peel
      <4> QED BY ONLY <2>1, <4>2
    <3>2. CASE Head(q) \in Persists
      <4>1. w = m
        <5>1. Head(s) \in Persists
          BY <3>1, <3>2
        <5> QED BY <5>1, EffectNone
      <4>2. \A d : CellOp(d, Target(m, c)) # Head(q)
        BY <3>2 DEF Persists, CellOp
      <4>3. Executing(m, Tail(s), c, rest)
        BY <4>2, <3>1, <2>0, <2>1 DEF Executing
      <4> HIDE DEF w
      <4> QED BY <4>1, <4>3, <3>1, <2>0 DEF Finishing, Frame, Same, LinkedBy
    <3>3. CASE Head(q) \in Links(m[c], Target(m, c))
      <4>1. PICK d \in Named(m[c]) : Head(s) = CellOp(d, Target(m, c))
        BY <3>1, <3>3 DEF Links
      <4>2. d \in Cell /\ Target(m, c) \in Chunk \union {NULL}
        BY <2>0, NamedCells DEF Target
      <4>3. Typed(w) /\ w[d] = Target(m, c) /\ \A a \in DOMAIN m \ {d} : w[a] = m[a]
        <5>1. w = Effect(m, CellOp(d, Target(m, c)))
          BY <4>1
        <5> HIDE DEF w
        <5> QED BY <5>1, <4>2, EffectCell
      <4> HIDE DEF w
      <4>4. \A a \in (Walk(m) \union Cell) \ {d} : w[a] = m[a]
        BY <4>3, <2>0
      <4>5. /\ Walk(w) = Walk(m) /\ Clumps(w) = Clumps(m) /\ Sound(w)
            /\ InTransit(w) = InTransit(m) /\ \A b \in Clumps(m) : w[b] = m[b]
        BY <4>1, <4>3, <4>4, <2>0, SoundLink DEF Typed
      <4>6. w[c] = m[c] /\ Target(w, c) = Target(m, c) /\ Ending(w, c, rest) = Ending(m, c, rest)
        BY <4>5, <2>0 DEF Target, Ending, FinalOf
      <4>7. Executing(w, Tail(s), c, rest)
        <5>1. ASSUME NEW e \in Named(m[c])
              PROVE w[e] = Target(m, c) \/ CellOp(e, Target(m, c)) \in Range(Tail(q))
          <6>1. CASE e = d
            BY <6>1, <4>3
          <6>2. CASE e # d
            <7>1. w[e] = m[e]
              BY <6>2, <4>4, <2>0, NamedCells
            <7>2. CellOp(e, Target(m, c)) # Head(q)
              BY <6>2, <4>1, <3>1 DEF CellOp
            <7> QED BY <7>1, <7>2, <2>1, <3>1
          <6> QED BY <6>1, <6>2
        <5> QED BY <5>1, <4>5, <4>6, <3>1, <2>0 DEF Executing
      <4>8. LinkedBy(m, w, c)
        BY <4>1, <4>3, <4>4, <2>0 DEF LinkedBy
      <4> QED BY <4>5, <4>6, <4>7, <4>8, <3>1, <2>0 DEF Finishing, Frame, Same
    <3> QED BY <3>1, <3>2, <3>3
  <2> QED BY <2>3, <2>4
<1> HIDE DEF Goal
<1>3. Goal
  BY <1>1, <1>2 DEF Finishing
<1> QED BY <1>3 DEF Goal

-----------------------------------------------------------------------------
(* The way into ACTIVATING and FREEING *)

LEMMA WayIs ==
    ASSUME NEW m, Typed(m), Sound(m), NEW c, NEW st, Ready(m, c, st), NEW rest \in Flow
    PROVE  /\ Way(m[c], c, st, rest) \in Flow
           /\ ExecuteSteps(m[c]) \in Flow
           /\ PutSize(c, m[c].size, OutOf(st)) \o (Persist(c) \o rest) \in Flow
           /\ PutSize(c, m[c].size, st) \o Way(m[c], c, st, rest) \in Flow
<1>0. /\ c \in Clumps(m) /\ c \in Chunk /\ m[c].size \in Chunk /\ c + m[c].size <= LastClump
      /\ st \in States /\ OutOf(st) \in States /\ MediumOK(m) /\ ClumpOK(m, c)
  BY TiledFacts, MediumFacts, Constants DEF Ready, Sound, Typed, Goes, States, OutOf
<1>1. ExecuteSteps(m[c]) \in Flow
  <2>1. PICK p : \A i \in OnList(m[c]) : m[c].ptr[i] = p
    BY <1>0 DEF Ready, ClumpOK, ActiveOK, ListSets
  <2> QED BY <2>1, <1>0, ExecuteIs
<1>2. ClearOn(c) \in Flow /\ Persist(c) \in Flow
  BY <1>0, ClearIs, PersistIs
<1>3. ASSUME NEW x \in States, NEW r \in Flow
      PROVE  PutSize(c, m[c].size, x) \o (Persist(c) \o r) \in Flow
  <2>1. PutSize(c, m[c].size, x) \o Persist(c) \in Flow
    BY <1>0, FlowStore
  <2>2. PutSize(c, m[c].size, x) \in Seq(Ops)
    <3>1. [do |-> "size", at |-> c, size |-> m[c].size, state |-> x] \in Ops
      BY <1>0 DEF Ops, SizeOps
    <3> QED BY <3>1 DEF PutSize
  <2>3. Persist(c) \in Seq(Ops) /\ r \in Seq(Ops)
    BY <1>2 DEF Flow
  <2>4. (PutSize(c, m[c].size, x) \o Persist(c)) \o r = PutSize(c, m[c].size, x) \o (Persist(c) \o r)
    BY <2>2, <2>3, ConcatAssociative
  <2> QED BY <2>1, <2>4, FlowConcat
<1>4. PutSize(c, m[c].size, OutOf(st)) \o (Persist(c) \o rest) \in Flow
  BY <1>0, <1>3
<1>5. PICK r : r = ExecuteSteps(m[c]) \o (ClearOn(c) \o
        (PutSize(c, m[c].size, OutOf(st)) \o (Persist(c) \o rest)))
  OBVIOUS
<1>6. r \in Flow /\ Way(m[c], c, st, rest) = Persist(c) \o r
  BY <1>1, <1>2, <1>4, <1>5, FlowConcat DEF Way
<1> QED BY <1>0, <1>1, <1>2, <1>3, <1>4, <1>6, FlowConcat

LEMMA StartingStep ==
    ASSUME NEW m, Typed(m), Sound(m), InTransit(m) = {}, NEW c, NEW st, Ready(m, c, st),
           NEW rest \in Flow, NEW s, Starting(m, s, c, st, rest)
    PROVE  LET w == Effect(m, Head(s)) IN
           /\ s # <<>>
           /\ \/ w = m /\ Starting(m, Tail(s), c, st, rest)
              \/ /\ Executing(w, Tail(s), c, rest)
                 /\ Sound(w) /\ Same(m, w, c) /\ SameCells(m, w)
                 /\ w[c].state = st /\ InTransit(w) = {c}
                 /\ OnList(w[c]) = OnList(m[c]) /\ Named(w[c]) = Named(m[c])
                 /\ ExecuteSteps(w[c]) = ExecuteSteps(m[c])
<1> DEFINE w == Effect(m, Head(s))
           o == [do |-> "size", at |-> c, size |-> m[c].size, state |-> st]
           way == Way(m[c], c, st, rest)
           r == PutSize(c, m[c].size, st) \o way
<1>0. /\ c \in Clumps(m) /\ c \in Chunk /\ m[c].size \in Chunk /\ c + m[c].size <= LastClump
      /\ st \in {"ACTIVATING", "FREEING"} /\ st \in States /\ MediumOK(m) /\ ClumpOK(m, c)
      /\ DOMAIN m = Chunk \union Cell \union {HDR} /\ Walk(m) \subseteq Chunk /\ PointersOK(m)
  BY TiledFacts, MediumFacts, Constants DEF Ready, Sound, Typed, Goes, States
<1>1. PICK q \in Seq(Persists) : s = q \o r
  BY DEF Starting
<1>2. way \in Seq(Ops) /\ r \in Seq(Ops)
  BY WayIs DEF Flow
<1>3. CASE q # <<>>
  <2>1. /\ Head(q) \in Persists /\ Tail(q) \in Seq(Persists) /\ s # <<>>
        /\ Head(s) = Head(q) /\ Tail(s) = Tail(q) \o r
    <3> HIDE DEF r
    <3>1. q \in Seq(Persists) /\ r \in Seq(Ops) /\ q # <<>>
      BY <1>1, <1>2, <1>3
    <3>2. /\ Head(q) \in Persists /\ Tail(q) \in Seq(Persists) /\ q \o r # <<>>
          /\ Head(q \o r) = Head(q) /\ Tail(q \o r) = Tail(q) \o r
      BY ONLY <3>1, Peel
    <3> QED BY ONLY <1>1, <3>2
  <2>2. w = m
    BY <2>1, EffectNone
  <2>3. Starting(m, Tail(s), c, st, rest)
    BY <2>1 DEF Starting
  <2> QED BY <2>1, <2>2, <2>3
<1>4. CASE q = <<>>
  <2>1. s = r
    BY <1>1, <1>2, <1>4, Peel
  <2>2. PutSize(c, m[c].size, st) = <<o>>
    BY DEF PutSize
  <2>3. s # <<>> /\ Head(s) = o /\ Tail(s) = way
    <3> HIDE DEF o, way
    <3> QED BY <2>1, <2>2, <1>2, OneStep
  <2>4. /\ Typed(w) /\ \A a \in DOMAIN m \ {c} : w[a] = m[a]
        /\ w[c].size = m[c].size /\ w[c].state = st
        /\ w[c].off = m[c].off /\ w[c].ptr = m[c].ptr
    <3>1. w = Effect(m, o)
      BY <2>3
    <3> HIDE DEF w
    <3> QED BY <3>1, <1>0, EffectSize
  <2> HIDE DEF w
  <2>5. SameCells(m, w) /\ \A a \in (Walk(m) \union Cell) \ {c} : w[a] = m[a]
    BY <2>4, <1>0, Constants DEF SameCells
  <2>6. OnList(w[c]) = OnList(m[c]) /\ Named(w[c]) = Named(m[c])
        /\ ExecuteSteps(w[c]) = ExecuteSteps(m[c])
    <3>1. OnList(w[c]) = OnList(m[c])
      BY <2>4 DEF OnList
    <3> QED BY <3>1, <2>4 DEF Named, ExecuteSteps
  <2>7. ASSUME NEW p, NEW V, NEW V2, V \subseteq V2, ListSets(m, c, p, V)
        PROVE  ListSets(w, c, p, V2)
    <3>1. \A i \in OnList(m[c]) : m[c].off[i] \in Cell
      BY <1>0, NamedCells
    <3> QED BY <3>1, <2>4, <2>5, <2>6, <2>7 DEF ListSets, SameCells
  <2>8. ListSets(w, c, Target(w, c), {NULL, c})
    <3>1. CASE st = "ACTIVATING"
      BY <3>1, <2>4, <2>7 DEF Ready, Target
    <3>2. CASE st = "FREEING"
      <4>1. ListSets(m, c, NULL, {c})
        BY <3>2, <1>0 DEF Ready, ClumpOK, ActiveOK
      <4> QED BY <4>1, <3>2, <2>4, <2>7 DEF Target
    <3> QED BY <3>1, <3>2, <1>0
  <2>9. ClumpOK(w, c)
    <3>1. ASSUME st = "ACTIVATING" PROVE \E d \in Cell : d \in Named(w[c])
      <4>1. PICK i \in OnList(m[c]) : TRUE
        BY <3>1 DEF Ready
      <4>2. m[c].off[i] \in Cell /\ m[c].off[i] \in Named(m[c])
        BY <1>0, NamedCells DEF Named
      <4> QED BY <4>2, <2>6
    <3> QED BY <3>1, <2>4, <2>8, <1>0 DEF ClumpOK, ActivatingOK, FreeingOK, Target
  <2>10. \A d \in Cell : m[d] = c =>
             w[c].state \in Holds /\ (w[c].state = "FREEING" => d \in Named(w[c]))
    BY <2>4, <2>6, <1>0 DEF Ready, PointersOK, Holds
  <2>11. /\ Walk(w) = Walk(m) /\ Clumps(w) = Clumps(m) /\ Sound(w)
         /\ \A b \in Clumps(m) \ {c} : w[b] = m[b]
    BY <2>4, <2>5, <2>9, <2>10, <1>0, SoundLine DEF Typed
  <2>12. InTransit(w) = {c}
    <3>1. c \in InTransit(w)
      BY <2>4, <2>11, <1>0 DEF InTransit
    <3>2. ASSUME NEW b \in InTransit(w), b # c PROVE FALSE
      BY <3>2, <2>11 DEF InTransit
    <3> QED BY <3>1, <3>2
  <2>13. Executing(w, way, c, rest)
    <3> DEFINE X == Links(w[c], Target(w, c)) \union Persists
               e == ExecuteSteps(w[c])
               q2 == Persist(c) \o e
               r2 == ClearOn(c) \o Ending(w, c, rest)
    <3>1. e \in Flow /\ e \in Seq(X) /\ Links(w[c], Target(w, c)) \subseteq Range(e)
      BY <2>4, <2>8, <1>0, ExecuteIs DEF ListSets, Typed
    <3>2. Persist(c) \in Seq(X)
      BY <1>0, PersistIs, SeqMonotonic
    <3>3. q2 \in Seq(X) /\ Range(q2) = Range(Persist(c)) \union Range(e)
      <4> HIDE DEF X, e
      <4>1. PICK x, y : x = Persist(c) /\ y = e
        OBVIOUS
      <4>2. x \o y \in Seq(X) /\ Range(x \o y) = Range(x) \union Range(y)
        BY <3>1, <3>2, <4>1, RangeConcat
      <4> QED BY <4>1, <4>2
    <3>4. Ending(w, c, rest) = PutSize(c, m[c].size, OutOf(st)) \o (Persist(c) \o rest)
      BY <2>4 DEF Ending, FinalOf, OutOf
    <3>5. r2 \in Flow
      <4>1. Ending(w, c, rest) \in Flow
        BY <3>4, WayIs
      <4> QED BY <4>1, <1>0, ClearIs, FlowConcat
    <3>6. way = q2 \o r2
      <4>1. way = Persist(c) \o (e \o r2)
        BY <3>4, <2>6 DEF Way
      <4>2. Persist(c) \in Seq(Ops) /\ e \in Seq(Ops) /\ r2 \in Seq(Ops)
        BY <3>1, <3>5, <1>0, PersistIs DEF Flow
      <4>3. PICK x, y, z : x = Persist(c) /\ y = e /\ z = r2
        OBVIOUS
      <4>4. x \in Seq(Ops) /\ y \in Seq(Ops) /\ z \in Seq(Ops)
        BY <4>2, <4>3
      <4>5. (x \o y) \o z = x \o (y \o z)
        BY ONLY <4>4, ConcatAssociative
      <4> QED BY <4>1, <4>3, <4>5
    <3>7. \A d \in Named(w[c]) : CellOp(d, Target(w, c)) \in Range(q2)
      BY <3>1, <3>3 DEF Links
    <3> HIDE DEF q2, e
    <3> QED BY <3>3, <3>6, <3>7, <2>12 DEF Executing
  <2> HIDE DEF way
  <2> QED BY <2>3, <2>4, <2>5, <2>6, <2>11, <2>12, <2>13, <1>0 DEF Same, w
<1> QED BY <1>3, <1>4

-----------------------------------------------------------------------------
(* The scans *)

LEMMA UnitingStep ==
    ASSUME NEW m, Typed(m), Sound(m), NEW c, NEW e, NEW s, Uniting(m, s, c, e)
    PROVE  LET w == Effect(m, Head(s)) IN
           /\ s # <<>> /\ Head(s).at = c /\ Scanning(w, Tail(s), e)
           /\ Sound(w) /\ Kept(m, w)
<1> DEFINE w == Effect(m, Head(s))
           o == [do |-> "size", at |-> c, size |-> e - c, state |-> "FREE"]
           r == Persist(c) \o Do("coalesce", e)
<1>0. /\ c \in Walk(m) /\ e \in Walk(m) /\ c < e /\ c \in Chunk /\ e \in Chunk
      /\ c \in Nat /\ e \in Nat /\ e <= LastClump /\ e - c \in Chunk /\ c + (e - c) <= LastClump
      /\ \A b \in Clumps(m) : c <= b /\ b < e => m[b].state = "FREE"
      /\ ~FreeLine(m[e]) /\ Apart(m, c)
      /\ c \in Clumps(m) /\ Tiled(m) /\ MediumOK(m) /\ "FREE" \in States
      /\ DOMAIN m = Chunk \union Cell \union {HDR} /\ Clumps(m) \subseteq Walk(m)
      /\ Walk(m) \subseteq Nat /\ Walk(m) \subseteq Chunk /\ m[c].state = "FREE"
  <2>1. /\ c \in Walk(m) /\ e \in Walk(m) /\ c < e
        /\ \A b \in Clumps(m) : c <= b /\ b < e => m[b].state = "FREE"
        /\ ~FreeLine(m[e]) /\ Apart(m, c) /\ Tiled(m) /\ MediumOK(m)
    BY DEF Uniting, Sound, Typed
  <2>2. /\ DOMAIN m = Chunk \union Cell \union {HDR} /\ Clumps(m) \subseteq Walk(m)
        /\ Walk(m) \subseteq Chunk /\ c \in Clumps(m)
    BY <2>1, TiledFacts, MediumFacts
  <2>3. Walk(m) \subseteq Nat /\ c \in Nat /\ e \in Nat /\ c \in Chunk /\ e \in Chunk
    BY <2>1, <2>2, Constants
  <2>4. m[c].state = "FREE"
    BY <2>1, <2>2, <2>3
  <2>5. e <= LastClump /\ e - c \in Chunk /\ c + (e - c) <= LastClump
    BY <2>1, <2>3, Constants
  <2> QED BY <2>1, <2>2, <2>3, <2>4, <2>5 DEF States
<1>1. r \in Seq(Ops)
  <2>1. Persist(c) \in Seq(Ops)
    BY <1>0, PersistIs DEF Flow
  <2>2. [do |-> "coalesce", at |-> e] \in Ops
    BY <1>0 DEF Ops, ScanOps
  <2>3. Do("coalesce", e) \in Seq(Ops)
    BY <2>2 DEF Do
  <2> QED BY <2>1, <2>3
<1>2. s # <<>> /\ Head(s) = o /\ Tail(s) = r
  <2>1. s = <<o>> \o r
    BY DEF Uniting, PutSize
  <2> HIDE DEF o, r
  <2> QED BY <2>1, <1>1, OneStep
<1>3. /\ Typed(w) /\ \A a \in DOMAIN m \ {c} : w[a] = m[a]
      /\ w[c].size = e - c /\ w[c].state = "FREE"
  <2>1. w = Effect(m, o)
    BY <1>2
  <2> HIDE DEF w
  <2> QED BY <2>1, <1>0, EffectSize
<1> HIDE DEF w
<1>4. \A a \in (Chunk \union Cell) \ {c} : w[a] = m[a]
  BY <1>0, <1>3
<1>5. /\ Walk(w) = {b \in Walk(m) : b <= c \/ e <= b}
      /\ Clumps(w) = {b \in Clumps(m) : b <= c \/ e <= b} /\ c \in Clumps(w)
      /\ Sound(w) /\ InTransit(w) = InTransit(m)
  BY <1>0, <1>3, <1>4, SoundUnite DEF Typed
<1>6. Kept(m, w)
  <2>1. ASSUME NEW b \in Clumps(m), m[b].state # "FREE" PROVE b \in Clumps(w) /\ w[b] = m[b]
    <3>1. ~(c <= b /\ b < e) /\ b \in Nat
      BY <2>1, <1>0
    <3>2. b # c /\ (b <= c \/ e <= b)
      BY <3>1, <1>0
    <3> QED BY <3>2, <1>0, <1>4, <1>5
  <2>2. ASSUME NEW b \in Clumps(w), w[b].state # "FREE" PROVE w[b] = m[b]
    <3>1. b # c /\ b \in Clumps(m)
      BY <2>2, <1>3, <1>5
    <3> QED BY <3>1, <1>0, <1>4
  <2>3. SameCells(m, w)
    BY <1>0, <1>4, Constants DEF SameCells
  <2> QED BY <2>1, <2>2, <2>3, <1>5 DEF Kept
<1>7. Apart(w, e)
  <2> SUFFICES ASSUME NEW b \in Clumps(w), b < e, w[b].state = "FREE"
               PROVE ~FreeLine(w[b + w[b].size])
    BY DEF Apart
  <2>1. b \in Clumps(m) /\ b <= c /\ b \in Nat
    BY <1>0, <1>5
  <2>2. CASE b = c
    BY <2>2, <1>0, <1>3, <1>4
  <2>3. CASE b < c
    <3>1. w[b] = m[b] /\ m[b].size \in Nat
      BY <2>1, <2>3, <1>0, <1>4, TiledFacts
    <3>2. ~FreeLine(m[b + m[b].size])
      BY <3>1, <2>1, <2>3, <1>0 DEF Apart
    <3>3. m[c].size # 0
      BY <1>0 DEF Clumps
    <3>4. b + m[b].size # c /\ b + m[b].size \in Walk(m)
      BY <3>2, <3>3, <2>1, <1>0, TiledFacts DEF FreeLine
    <3> QED BY <3>1, <3>2, <3>4, <1>0, <1>4
  <2> QED BY <2>1, <2>2, <2>3, <1>0
<1>8. Scanning(w, Tail(s), e)
  <2>1. Persist(c) \in Seq(Persists)
    BY <1>0, PersistIs
  <2>2. e \in Walk(w)
    BY <1>0, <1>5
  <2> QED BY <2>1, <2>2, <1>2, <1>7 DEF Scanning
<1> QED BY <1>2, <1>5, <1>6, <1>8 DEF w

LEMMA ScanIs ==
    ASSUME NEW x \in {"recover", "coalesce"}, NEW c \in Chunk
    PROVE  LET o == [do |-> x, at |-> c] IN
           /\ Do(x, c) = <<o>> /\ Do(x, c) \in Flow /\ Do(x, c) \in Seq(Ops)
           /\ Do(x, c) # <<>> /\ Head(Do(x, c)) = o /\ Tail(Do(x, c)) = <<>>
<1>1. [do |-> x, at |-> c] \in ScanOps /\ Do(x, c) = <<[do |-> x, at |-> c]>>
  BY DEF ScanOps, Do
<1>2. Do(x, c) \in Seq(Persists \union ScanOps \union BlankOps \union FileOps)
  BY <1>1
<1>3. Do(x, c) \in Flow
  BY <1>2, FlowPlain
<1>4. Do(x, c) \in Seq(Ops)
  BY <1>3 DEF Flow
<1>5. Do(x, c) # <<>> /\ Head(Do(x, c)) = [do |-> x, at |-> c] /\ Tail(Do(x, c)) = <<>>
  BY <1>1
<1> QED BY <1>1, <1>3, <1>4, <1>5

\* Up to the next scan step.
LEMMA ScanningStep ==
    ASSUME NEW m, NEW c, NEW s, Typed(m), Sound(m), Scanning(m, s, c)
    PROVE  /\ s # <<>> /\ Head(s) \in Persists \union ScanOps
           /\ \/ Head(s) \in Persists /\ Scanning(m, Tail(s), c)
              \/ Head(s) = [do |-> "coalesce", at |-> c] /\ Tail(s) = <<>>
<1>0. c \in Walk(m) /\ c \in Chunk /\ Apart(m, c)
  BY TiledFacts DEF Scanning, Sound, Typed
<1>1. PICK q \in Seq(Persists) : s = q \o Do("coalesce", c)
  BY DEF Scanning
<1>2. /\ Do("coalesce", c) \in Seq(Ops) /\ Do("coalesce", c) # <<>> /\ Tail(Do("coalesce", c)) = <<>>
      /\ Head(Do("coalesce", c)) = [do |-> "coalesce", at |-> c]
  BY <1>0, ScanIs
<1>3. CASE q = <<>>
  <2>1. s = Do("coalesce", c)
    BY <1>1, <1>2, <1>3, Peel
  <2>2. [do |-> "coalesce", at |-> c] \in ScanOps
    BY <1>0 DEF ScanOps
  <2> QED BY <2>1, <2>2, <1>2
<1>4. CASE q # <<>>
  <2>1. /\ Head(q) \in Persists /\ Tail(q) \in Seq(Persists) /\ s # <<>>
        /\ Head(s) = Head(q) /\ Tail(s) = Tail(q) \o Do("coalesce", c)
    BY <1>1, <1>2, <1>4, Peel
  <2> QED BY <2>1, <1>0 DEF Scanning
<1> QED BY <1>3, <1>4

\* What pmemalloc_coalesce_free does at the clump c.
LEMMA CoalesceScan ==
    ASSUME Typed(mem), Sound(mem), NEW c \in Walk(mem), Apart(mem, c)
    PROVE  CoalesceSteps(c) \in Flow /\ Coalescing(mem, CoalesceSteps(c))
<1> DEFINE e == FreeRunEnd(c)
           n == mem[c].size
<1>0. /\ Tiled(mem) /\ MediumOK(mem) /\ Fits(mem) /\ c \in Chunk /\ c \in Nat /\ n \in Nat
      /\ Walk(mem) \subseteq Chunk /\ Walk(mem) \subseteq Nat /\ 0 \in Walk(mem)
      /\ Clumps(mem) \subseteq Walk(mem)
  BY TiledFacts, MediumFacts, Constants DEF Sound, Typed
<1>1. /\ e = RunEnd(mem, c) /\ e \in Walk(mem) /\ c <= e /\ ~FreeAt(mem, e)
      /\ \A b \in Walk(mem) : c <= b /\ b < e => FreeAt(mem, b)
  <2>1. e = RunEnd(mem, c)
    BY DEF FreeRunEnd, RunEnd, FreeAt
  <2> HIDE DEF e
  <2> QED BY <2>1, <1>0, RunEndFacts
<1>2. CASE n = 0
  <2>1. CoalesceSteps(c) = <<>>
    BY <1>2 DEF CoalesceSteps
  <2>2. Apart(mem, LastClump)
    <3>1. CASE c = LastClump
      BY <3>1
    <3>2. CASE c # LastClump
      <4>1. c = 0
        BY <3>2, <1>0, <1>2 DEF Tiled
      <4>2. Clumps(mem) = {}
        <5>1. Walk(mem) = {0}
          <6>1. {0} \in SUBSET Chunk /\ Closed(mem, {0})
            BY <4>1, <1>2, Constants DEF Closed, Goes
          <6> QED BY <6>1, <1>0, WalkLeast, MediumFacts
        <5> QED BY <5>1, <4>1, <1>2 DEF Clumps
      <4> QED BY <4>2 DEF Apart
    <3> QED BY <3>1, <3>2
  <2> QED BY <2>1, <2>2, FlowEmpty DEF Coalescing, Settled
<1>3. ASSUME n # 0, NEW x \in Walk(mem), Apart(mem, x)
      PROVE  Do("coalesce", x) \in Flow /\ Coalescing(mem, Do("coalesce", x))
  <2>1. x \in Chunk /\ Do("coalesce", x) \in Flow /\ Do("coalesce", x) \in Seq(Ops)
    BY <1>0, ScanIs
  <2>2. <<>> \in Seq(Persists) /\ <<>> \o Do("coalesce", x) = Do("coalesce", x)
    BY <2>1, ConcatEmptySeq
  <2>3. Scanning(mem, Do("coalesce", x), x)
    BY <2>2, <1>3 DEF Scanning
  <2> QED BY <2>1, <2>3 DEF Coalescing
<1>4. CASE n # 0
  <2>0. c \in Clumps(mem) /\ c + n \in Walk(mem) /\ c + n \in Nat
    BY <1>4, <1>0, TiledFacts DEF Clumps
  <2>1. \A b \in Clumps(mem) : b < c + n => b <= c
    BY <1>0, <2>0, TiledFacts
  <2>2. CASE e = c
    <3>1. Apart(mem, c + n)
      <4> SUFFICES ASSUME NEW b \in Clumps(mem), b < c + n, mem[b].state = "FREE"
                   PROVE ~FreeLine(mem[b + mem[b].size])
        BY DEF Apart
      <4>1. b # c
        BY <1>1, <1>4, <2>2 DEF FreeAt
      <4>2. b < c
        BY <4>1, <2>1, <1>0
      <4> QED BY <4>2 DEF Apart
    <3>2. CoalesceSteps(c) = Do("coalesce", c + n)
      BY <1>4, <2>2 DEF CoalesceSteps
    <3> QED BY <3>1, <3>2, <2>0, <1>3, <1>4
  <2>3. CASE e # c /\ e <= c + n
    <3>1. FreeAt(mem, c) /\ c < e /\ e \in Nat
      BY <2>3, <1>0, <1>1
    <3>2. e = c + n
      <4>1. c + n <= e
        BY <3>1, <2>0, <1>0, <1>1, TiledFacts
      <4> QED BY <4>1, <2>0, <2>3, <3>1
    <3>3. Apart(mem, e)
      <4> SUFFICES ASSUME NEW b \in Clumps(mem), b < e, mem[b].state = "FREE"
                   PROVE ~FreeLine(mem[b + mem[b].size])
        BY DEF Apart
      <4>1. CASE b = c
        BY <4>1, <3>2, <1>1 DEF FreeLine, FreeAt
      <4>2. CASE b # c
        <5>1. b < c
          BY <4>2, <3>2, <2>1, <1>0
        <5> QED BY <5>1 DEF Apart
      <4> QED BY <4>1, <4>2
    <3>4. CoalesceSteps(c) = <<>> \o Do("coalesce", e)
      <4>1. ~(e > c + n)
        BY <3>2, <2>0
      <4> QED BY <4>1, <1>4, <2>3 DEF CoalesceSteps
    <3>5. <<>> \o Do("coalesce", e) = Do("coalesce", e)
      <4>1. Do("coalesce", e) \in Seq(Ops)
        BY <1>0, <1>1, ScanIs
      <4> QED BY <4>1, ConcatEmptySeq
    <3> QED BY <3>3, <3>4, <3>5, <1>1, <1>3, <1>4
  <2>4. CASE e > c + n
    <3>1. c < e /\ e # c /\ e - c \in Chunk /\ e \in Chunk /\ c + (e - c) <= LastClump /\ e \in Nat
      BY <2>4, <1>0, <1>1, Constants
    <3>2. /\ CoalesceSteps(c) = (PutSize(c, e - c, "FREE") \o Persist(c)) \o Do("coalesce", e)
      BY <1>4, <2>4, <3>1 DEF CoalesceSteps
    <3>3. PutSize(c, e - c, "FREE") \o Persist(c) \in Flow /\ Do("coalesce", e) \in Flow
      BY <1>0, <3>1, FlowStore, ScanIs DEF States
    <3>4. CoalesceSteps(c) = PutSize(c, e - c, "FREE") \o (Persist(c) \o Do("coalesce", e))
      <4>1. [do |-> "size", at |-> c, size |-> e - c, state |-> "FREE"] \in Ops
        BY <1>0, <3>1 DEF Ops, SizeOps, States
      <4>2. PutSize(c, e - c, "FREE") \in Seq(Ops)
        BY <4>1 DEF PutSize
      <4>3. Persist(c) \in Seq(Ops) /\ Do("coalesce", e) \in Seq(Ops)
        BY <1>0, <3>1, PersistIs, ScanIs DEF Flow
      <4> QED BY <4>2, <4>3, <3>2, ConcatAssociative
    <3>5. Uniting(mem, CoalesceSteps(c), c, e)
      <4>1. \A b \in Clumps(mem) : c <= b /\ b < e => mem[b].state = "FREE"
        BY <1>0, <1>1 DEF FreeAt
      <4>2. ~FreeLine(mem[e])
        BY <1>1 DEF FreeLine, FreeAt
      <4> QED BY <4>1, <4>2, <3>1, <3>4, <1>1 DEF Uniting
    <3>6. CoalesceSteps(c) \in Flow
      BY <3>2, <3>3, FlowConcat
    <3> HIDE DEF e
    <3> QED BY <3>1, <3>5, <3>6, <1>0 DEF Coalescing
  <2> QED BY <2>2, <2>3, <2>4, <1>0, <1>1
<1> QED BY <1>2, <1>4

-----------------------------------------------------------------------------
(* pmemalloc_onactive, pmemalloc_onfree *)

LEMMA AddingIs ==
    ASSUME NEW c \in Chunk, NEW i \in Slot, NEW d \in Cell, NEW p \in Chunk \union {NULL}
    PROVE  LET o == [do |-> "off", at |-> c, i |-> i, val |-> d]
               r == PutOff(c, i, d) \o Persist(c)
               o2 == [do |-> "ptr", at |-> c, i |-> i, val |-> p]
               s == PutPtr(c, i, p) \o (Persist(c) \o r)
           IN  /\ r \in Flow /\ r \in Seq(Ops) /\ r # <<>> /\ Head(r) = o /\ Tail(r) = Persist(c)
               /\ s \in Flow /\ s # <<>> /\ Head(s) = o2 /\ Tail(s) = Persist(c) \o r
               /\ s = AddOn(c, i, d, p)
<1> DEFINE o == [do |-> "off", at |-> c, i |-> i, val |-> d]
           r == PutOff(c, i, d) \o Persist(c)
           o2 == [do |-> "ptr", at |-> c, i |-> i, val |-> p]
           s == PutPtr(c, i, p) \o (Persist(c) \o r)
           X == {x \in OffOps \union PtrOps : x.at = c}
<1>1. o \in X /\ o2 \in X /\ o \in Ops /\ o2 \in Ops
  BY DEF OffOps, PtrOps, Ops
<1>2. PutOff(c, i, d) = <<o>> /\ PutPtr(c, i, p) = <<o2>>
  BY DEF PutOff, PutPtr
<1> HIDE DEF o, o2, X
<1>3. <<o>> \in Seq(X) /\ <<o2>> \in Seq(X) /\ <<o>> \in Seq(Ops) /\ <<o2>> \in Seq(Ops)
  BY <1>1
<1>4. r \in Flow /\ PutPtr(c, i, p) \o Persist(c) \in Flow /\ Persist(c) \in Flow
  BY <1>2, <1>3, FlowLists, PersistIs DEF X
<1>5. r \in Seq(Ops) /\ Persist(c) \in Seq(Ops)
  BY <1>4 DEF Flow
<1>6. r # <<>> /\ Head(r) = o /\ Tail(r) = Persist(c)
  BY <1>2, <1>5, OneStep
<1> HIDE DEF r
<1>7. Persist(c) \o r \in Seq(Ops)
  BY <1>5
<1>8. s # <<>> /\ Head(s) = o2 /\ Tail(s) = Persist(c) \o r
  <2>1. PICK t : t = Persist(c) \o r
    OBVIOUS
  <2> QED BY <2>1, <1>2, <1>7, OneStep
<1>9. s = (PutPtr(c, i, p) \o Persist(c)) \o r
  BY <1>2, <1>3, <1>5, ConcatAssociative
<1>10. s \in Flow
  BY <1>4, <1>9, FlowConcat
<1>11. s = AddOn(c, i, d, p)
  <2>1. PICK a, b, x : a = PutPtr(c, i, p) \o Persist(c) /\ b = PutOff(c, i, d) /\ x = Persist(c)
    OBVIOUS
  <2>2. a \in Seq(Ops) /\ b \in Seq(Ops) /\ x \in Seq(Ops)
    BY <2>1, <1>2, <1>3, <1>5
  <2>3. (a \o b) \o x = a \o (b \o x)
    BY ONLY <2>2, ConcatAssociative
  <2> QED BY <2>1, <2>3, <1>9 DEF AddOn, r
<1> QED BY <1>4, <1>5, <1>6, <1>8, <1>10, <1>11 DEF o, r, o2

LEMMA AddingStep ==
    ASSUME NEW m, Typed(m), Sound(m), NEW c \in Clumps(m), NEW d \in Cell,
           NEW p \in Chunk \union {NULL}, NEW s, Adding(m, s, c, d, p), s # <<>>,
           Packed(m[c]), Listed(m, c, p, d),
           m[c].state = "RESERVED" \/ (m[c].state = "ACTIVE" /\ p = NULL /\ m[d] = c)
    PROVE  LET w == Effect(m, Head(s)) IN
           /\ Adding(w, Tail(s), c, d, p)
           /\ Sound(w) /\ Same(m, w, c) /\ SameCells(m, w) /\ w[c].state = m[c].state
           /\ Packed(w[c]) /\ Listed(w, c, p, d)
           /\ Named(w[c]) \subseteq Named(m[c]) \union {d} /\ Named(m[c]) \subseteq Named(w[c])
           /\ InTransit(w) = InTransit(m)
<1> USE DEF Listed
<1> DEFINE w == Effect(m, Head(s))
<1>0. /\ Tiled(m) /\ MediumOK(m) /\ c \in Chunk /\ c # NULL /\ ClumpOK(m, c) /\ PointersOK(m)
      /\ DOMAIN m = Chunk \union Cell \union {HDR} /\ Walk(m) \subseteq Chunk
      /\ m[c].state \in States
  <2>1. Tiled(m) /\ MediumOK(m) /\ ClumpOK(m, c) /\ PointersOK(m)
    BY DEF Sound, Typed
  <2>2. c \in Chunk /\ m[c].state \in States /\ Walk(m) \subseteq Chunk
    BY <2>1, TiledFacts
  <2>3. DOMAIN m = Chunk \union Cell \union {HDR}
    BY <2>1, MediumFacts
  <2> QED BY <2>1, <2>2, <2>3, Constants
<1>1. ASSUME w = m, Adding(m, Tail(s), c, d, p)
      PROVE  /\ Adding(w, Tail(s), c, d, p)
             /\ Sound(w) /\ Same(m, w, c) /\ SameCells(m, w) /\ w[c].state = m[c].state
             /\ Packed(w[c]) /\ ListSets(w, c, p, {w[d]})
             /\ Named(w[c]) \subseteq Named(m[c]) \union {d} /\ Named(m[c]) \subseteq Named(w[c])
             /\ InTransit(w) = InTransit(m)
  <2> HIDE DEF w
  <2> QED BY <1>1 DEF Same, SameCells
\* The frame of a store to the list.
<1>2. ASSUME \A a \in DOMAIN m \ {c} : w[a] = m[a], Typed(w),
             w[c].size = m[c].size, w[c].state = m[c].state,
             Packed(w[c]),
             \A j \in OnList(w[c]) : w[c].ptr[j] = p /\ (j \in OnList(m[c]) \/ w[c].off[j] = d)
                                     /\ (j \in OnList(m[c]) => w[c].off[j] = m[c].off[j])
      PROVE  /\ Sound(w) /\ Same(m, w, c) /\ SameCells(m, w) /\ ListSets(w, c, p, {w[d]})
             /\ Named(w[c]) \subseteq Named(m[c]) \union {d}
             /\ InTransit(w) = InTransit(m)
  <2> HIDE DEF w
  <2>1. SameCells(m, w) /\ \A a \in (Walk(m) \union Cell) \ {c} : w[a] = m[a]
    BY <1>0, <1>2, Constants DEF SameCells
  <2>2. ListSets(w, c, p, {w[d]})
    <3> SUFFICES ASSUME NEW j \in OnList(w[c])
                 PROVE  w[c].ptr[j] = p /\ w[w[c].off[j]] = w[d]
      BY DEF ListSets
    <3>1. CASE w[c].off[j] = d
      BY <3>1, <1>2
    <3>2. CASE w[c].off[j] # d
      <4>1. j \in OnList(m[c]) /\ w[c].off[j] = m[c].off[j]
        BY <3>2, <1>2
      <4>2. m[c].off[j] \in Cell /\ m[m[c].off[j]] = m[d]
        BY <4>1, <1>0, NamedCells DEF ListSets
      <4> QED BY <4>1, <4>2, <2>1, <1>2 DEF SameCells
    <3> QED BY <3>1, <3>2
  <2>3. ClumpOK(w, c)
    <3>1. CASE m[c].state = "RESERVED"
      BY <3>1, <1>2 DEF ClumpOK
    <3>2. CASE m[c].state = "ACTIVE" /\ p = NULL /\ m[d] = c
      BY <3>2, <1>2, <2>1, <2>2 DEF ClumpOK, ActiveOK, SameCells
    <3> QED BY <3>1, <3>2
  <2>4. \A e \in Cell : m[e] = c =>
            w[c].state \in Holds /\ (w[c].state = "FREEING" => e \in Named(w[c]))
    BY <1>0, <1>2 DEF PointersOK, Holds
  <2>5. /\ Walk(w) = Walk(m) /\ Clumps(w) = Clumps(m) /\ Sound(w)
        /\ \A b \in Clumps(m) \ {c} : w[b] = m[b]
    BY <2>1, <2>3, <2>4, <1>0, <1>2, SoundLine DEF Typed
  <2>6. InTransit(w) = InTransit(m)
    BY <2>5, <1>2 DEF InTransit
  <2>7. Named(w[c]) \subseteq Named(m[c]) \union {d}
    BY <1>2 DEF Named
  <2> QED BY <2>1, <2>2, <2>5, <2>6, <2>7, <1>2 DEF Same
<1>3. ASSUME s \in Seq(Persists), d \in Named(m[c])
      PROVE  w = m /\ Adding(m, Tail(s), c, d, p)
  <2>1. Head(s) \in Persists /\ Tail(s) \in Seq(Persists)
    BY <1>3
  <2> QED BY <2>1, <1>3, EffectNone DEF Adding
<1>4. ASSUME NEW i \in Slot, FreeEntry(m[c], i),
             s = PutPtr(c, i, p) \o (Persist(c) \o (PutOff(c, i, d) \o Persist(c)))
      PROVE  /\ Adding(w, Tail(s), c, d, p)
             /\ Sound(w) /\ Same(m, w, c) /\ SameCells(m, w) /\ w[c].state = m[c].state
             /\ Packed(w[c]) /\ ListSets(w, c, p, {w[d]})
             /\ Named(w[c]) \subseteq Named(m[c]) \union {d} /\ Named(m[c]) \subseteq Named(w[c])
             /\ InTransit(w) = InTransit(m)
  <2>1. /\ Head(s) = [do |-> "ptr", at |-> c, i |-> i, val |-> p]
        /\ Tail(s) = Persist(c) \o (PutOff(c, i, d) \o Persist(c))
    BY <1>0, <1>4, AddingIs
  <2>2. /\ Typed(w) /\ \A a \in DOMAIN m \ {c} : w[a] = m[a]
        /\ w[c].size = m[c].size /\ w[c].state = m[c].state /\ w[c].off = m[c].off
        /\ w[c].ptr[i] = p /\ \A j \in Slot \ {i} : w[c].ptr[j] = m[c].ptr[j]
    <3>1. w = Effect(m, [do |-> "ptr", at |-> c, i |-> i, val |-> p])
      BY <2>1
    <3> HIDE DEF w
    <3> QED BY <3>1, <1>0, EffectPtr
  <2> HIDE DEF w
  <2>3. OnList(w[c]) = OnList(m[c]) /\ Named(w[c]) = Named(m[c])
    <3>1. OnList(w[c]) = OnList(m[c])
      BY <2>2 DEF OnList
    <3> QED BY <3>1, <2>2 DEF Named
  <2>4. Packed(w[c])
    BY <2>2 DEF Packed
  <2>5. \A j \in OnList(w[c]) : w[c].ptr[j] = p /\ j \in OnList(m[c]) /\ w[c].off[j] = m[c].off[j]
    <3>1. i \notin OnList(m[c])
      BY <1>4, OnListIs DEF FreeEntry
    <3>2. \A j \in OnList(m[c]) : j \in Slot /\ m[c].ptr[j] = p
      BY OnListIs DEF ListSets
    <3> QED BY <3>1, <3>2, <2>2, <2>3
  <2>6. /\ Sound(w) /\ Same(m, w, c) /\ SameCells(m, w) /\ ListSets(w, c, p, {w[d]})
        /\ Named(w[c]) \subseteq Named(m[c]) \union {d} /\ InTransit(w) = InTransit(m)
    BY <2>2, <2>4, <2>5, <1>2
  <2>7. Adding(w, Tail(s), c, d, p)
    <3>1. Persist(c) \in Seq(Persists)
      BY <1>0, PersistIs
    <3>2. FreeEntry(w[c], i) /\ w[c].ptr[i] = p
      BY <1>4, <2>2 DEF FreeEntry
    <3> QED BY <3>1, <3>2, <2>1 DEF Adding
  <2> QED BY <2>2, <2>3, <2>4, <2>6, <2>7
<1>5. ASSUME NEW i \in Slot, FreeEntry(m[c], i), m[c].ptr[i] = p, NEW q \in Seq(Persists),
             s = q \o (PutOff(c, i, d) \o Persist(c))
      PROVE  /\ Adding(w, Tail(s), c, d, p)
             /\ Sound(w) /\ Same(m, w, c) /\ SameCells(m, w) /\ w[c].state = m[c].state
             /\ Packed(w[c]) /\ ListSets(w, c, p, {w[d]})
             /\ Named(w[c]) \subseteq Named(m[c]) \union {d} /\ Named(m[c]) \subseteq Named(w[c])
             /\ InTransit(w) = InTransit(m)
  <2>r. PICK r : r = PutOff(c, i, d) \o Persist(c)
    OBVIOUS
  <2>0. r \in Seq(Ops) /\ r # <<>> /\ Tail(r) = Persist(c)
        /\ Head(r) = [do |-> "off", at |-> c, i |-> i, val |-> d]
    BY <2>r, <1>0, AddingIs
  <2>1. CASE q # <<>>
    <3>1. /\ Head(q) \in Persists /\ Tail(q) \in Seq(Persists)
          /\ Head(s) = Head(q) /\ Tail(s) = Tail(q) \o r
      <4>1. s = q \o r
        BY <1>5, <2>r
      <4> QED BY <4>1, <2>0, <2>1, Peel
    <3>2. w = m
      BY <3>1, EffectNone
    <3>3. Adding(m, Tail(s), c, d, p)
      BY <3>1, <2>r, <1>5 DEF Adding
    <3> QED BY <3>2, <3>3, <1>1
  <2>2. CASE q = <<>>
    <3>1. s = r
      <4>1. s = q \o r
        BY <1>5, <2>r
      <4> QED BY <4>1, <2>0, <2>2, Peel
    <3>2. /\ Typed(w) /\ \A a \in DOMAIN m \ {c} : w[a] = m[a]
          /\ w[c].size = m[c].size /\ w[c].state = m[c].state /\ w[c].ptr = m[c].ptr
          /\ w[c].off[i] = d /\ \A j \in Slot \ {i} : w[c].off[j] = m[c].off[j]
      <4>1. w = Effect(m, [do |-> "off", at |-> c, i |-> i, val |-> d])
        BY <3>1, <2>0
      <4> HIDE DEF w
      <4> QED BY <4>1, <1>0, EffectOff
    <3> HIDE DEF w
    <3>3. /\ i \in Slot /\ d # NULL /\ m[c].off[i] = NULL
          /\ \A j \in Slot : j < i => m[c].off[j] # NULL
          /\ \A j \in Slot : i <= j => m[c].off[j] = NULL
      <4>1. \A j \in Slot : j < i => j \in 1..(i - 1)
        BY Constants
      <4>2. m[c].off[i] = NULL /\ \A j \in Slot : j < i => m[c].off[j] # NULL
        BY <4>1, <1>5 DEF FreeEntry
      <4>3. \A j \in Slot : i < j => m[c].off[j] = NULL
        BY <4>2 DEF Packed
      <4>4. \A j \in Slot : i <= j => i = j \/ i < j
        BY Constants
      <4> QED BY <4>2, <4>3, <4>4, Constants
    <3>4. Packed(w[c])
      <4>1. \A j \in Slot : w[c].off[j] # NULL => j <= i
        BY <3>2, <3>3, Constants
      <4>2. \A j \in Slot : j <= i => w[c].off[j] # NULL
        BY <3>2, <3>3, Constants
      <4>3. \A j, k \in Slot : j < k /\ k <= i => j <= i
        BY Constants
      <4> QED BY <4>1, <4>2, <4>3 DEF Packed
    <3>5. i \in OnList(w[c]) /\ OnList(w[c]) \subseteq OnList(m[c]) \union {i}
          /\ OnList(m[c]) \subseteq OnList(w[c]) /\ i \notin OnList(m[c])
      <4>1. \A j \in Slot : \A k \in 1..j : k \in Slot
        BY Constants
      <4>2. \A k \in 1..i : w[c].off[k] # NULL
        BY <3>2, <3>3, <4>1, Constants
      <4>3. \A j \in OnList(w[c]) : j \in Slot /\ w[c].off[j] # NULL
        BY OnListIs
      <4>4. \A j \in OnList(w[c]) : j <= i
        BY <4>3, <3>2, <3>3, Constants
      <4>5. ASSUME NEW j \in OnList(w[c]), j # i PROVE j \in OnList(m[c])
        <5>1. j < i /\ j \in Slot
          BY <4>3, <4>4, <4>5, Constants
        <5>2. \A k \in 1..j : k < i /\ k \in Slot
          BY <5>1, Constants
        <5> QED BY <5>1, <5>2, <3>3 DEF OnList
      <4>6. ASSUME NEW j \in OnList(m[c]) PROVE j \in OnList(w[c])
        <5>1. j \in Slot /\ \A k \in 1..j : m[c].off[k] # NULL /\ k \in Slot
          BY <4>1 DEF OnList
        <5> QED BY <5>1, <3>2, <3>3 DEF OnList
      <4>7. i \notin OnList(m[c])
        BY <3>3, OnListIs
      <4> QED BY <4>2, <4>5, <4>6, <4>7, <3>3 DEF OnList
    <3>6. \A j \in OnList(w[c]) : /\ w[c].ptr[j] = p /\ (j \in OnList(m[c]) \/ w[c].off[j] = d)
                                  /\ (j \in OnList(m[c]) => w[c].off[j] = m[c].off[j])
      <4>1. \A j \in OnList(m[c]) : j \in Slot /\ m[c].ptr[j] = p
        BY OnListIs DEF ListSets
      <4> QED BY <4>1, <3>2, <3>5, <1>5
    <3>7. /\ Sound(w) /\ Same(m, w, c) /\ SameCells(m, w) /\ ListSets(w, c, p, {w[d]})
          /\ Named(w[c]) \subseteq Named(m[c]) \union {d} /\ InTransit(w) = InTransit(m)
      BY <3>2, <3>4, <3>6, <1>2
    <3>8. Named(m[c]) \subseteq Named(w[c]) /\ d \in Named(w[c])
      BY <3>2, <3>5, <3>6 DEF Named
    <3>9. Adding(w, Tail(s), c, d, p)
      <4>1. Tail(s) \in Seq(Persists)
        BY <3>1, <2>0, <1>0, PersistIs
      <4> QED BY <4>1, <3>8 DEF Adding
    <3> QED BY <3>2, <3>4, <3>7, <3>8, <3>9
  <2> QED BY <2>1, <2>2
<1> HIDE DEF w
<1>6. Adding(m, s, c, d, p)
  OBVIOUS
<1>7. CASE s \in Seq(Persists) /\ d \in Named(m[c])
  BY <1>7, <1>1, <1>3 DEF w
<1>8. CASE \E i \in Slot :
        /\ FreeEntry(m[c], i)
        /\ \/ s = PutPtr(c, i, p) \o (Persist(c) \o (PutOff(c, i, d) \o Persist(c)))
           \/ /\ m[c].ptr[i] = p
              /\ \E q \in Seq(Persists) : s = q \o (PutOff(c, i, d) \o Persist(c))
  BY <1>8, <1>4, <1>5 DEF w
<1> QED BY <1>6, <1>7, <1>8 DEF Adding

-----------------------------------------------------------------------------
(* pmemalloc_reserve *)

LEMMA PlacingIs ==
    ASSUME NEW m, Typed(m), Tiled(m), NEW c \in Clumps(m), NEW n \in Nat, n <= m[c].size, 0 < n
    PROVE  /\ Portion(m, c, n) \in Nat /\ n <= Portion(m, c, n) /\ Portion(m, c, n) <= m[c].size
           /\ Portion(m, c, n) \in Chunk /\ c + Portion(m, c, n) <= LastClump
           /\ Taking(m, c, n) \in Flow /\ Taking(m, c, n) # <<>>
           /\ Head(Taking(m, c, n)) =
                [do |-> "size", at |-> c, size |-> Portion(m, c, n), state |-> "RESERVED"]
           /\ Tail(Taking(m, c, n)) = Persist(c)
           /\ PersistOp(c + n) \notin Range(Taking(m, c, n))
           /\ ResetOn(c) \o Taking(m, c, n) \in Flow
           /\ m[c].size - n >= 2 =>
                /\ c + n \in Chunk /\ m[c].size - n \in Chunk /\ c + n + (m[c].size - n) <= LastClump
                /\ c + n \notin Walk(m) /\ c + n # c
                /\ Placing(m, c, n) \in Flow /\ Placing(m, c, n) # <<>>
                /\ Head(Placing(m, c, n)) =
                     [do |-> "size", at |-> c + n, size |-> m[c].size - n, state |-> "FREE"]
                /\ Tail(Placing(m, c, n)) = Persist(c + n) \o (ResetOn(c) \o Taking(m, c, n))
                /\ PersistOp(c + n) \in Range(Tail(Placing(m, c, n)))
                /\ PersistOp(c + n) \in Range(Placing(m, c, n))
                /\ Do("blank", c + n) \o Placing(m, c, n) \in Flow
                /\ Do("blank", c + n) \o Placing(m, c, n) # <<>>
                /\ Head(Do("blank", c + n) \o Placing(m, c, n)) = [do |-> "blank", at |-> c + n]
                /\ Tail(Do("blank", c + n) \o Placing(m, c, n)) = Placing(m, c, n)
<1> DEFINE k == Portion(m, c, n)
           o == [do |-> "size", at |-> c, size |-> k, state |-> "RESERVED"]
<1>0. /\ c \in Chunk /\ c \in Nat /\ m[c].size \in Nat \ {0} /\ c + m[c].size <= LastClump
      /\ m[c].size - n \in Nat /\ c + m[c].size \in Walk(m) /\ Goes(m, c)
      /\ Walk(m) \subseteq Chunk /\ c \in Walk(m)
  BY TiledFacts, MediumFacts, Constants DEF Typed, Goes
<1>1. k \in Nat /\ n <= k /\ k <= m[c].size /\ k \in Chunk /\ c + k <= LastClump
  BY <1>0, Constants DEF Portion
<1> HIDE DEF k
<1>2. PutSize(c, k, "RESERVED") = <<o>> /\ o \in Ops
  BY <1>0, <1>1 DEF PutSize, Ops, SizeOps, States
<1>3. /\ Persist(c) \in Flow /\ Persist(c) \in Seq(Ops) /\ Persist(c) = <<PersistOp(c)>>
      /\ Range(Persist(c)) = {PersistOp(c)} /\ Persist(c) # <<>>
  <2>1. /\ Persist(c) \in Flow /\ Persist(c) = <<PersistOp(c)>> /\ Range(Persist(c)) = {PersistOp(c)}
    BY <1>0, PersistIs
  <2>2. Persist(c) \in Seq(Ops)
    BY <2>1 DEF Flow
  <2>3. <<PersistOp(c)>> # <<>>
    OBVIOUS
  <2> QED BY <2>1, <2>2, <2>3
<1>4. Taking(m, c, n) = <<o>> \o Persist(c)
  BY <1>2 DEF Taking, k
<1>5. Taking(m, c, n) \in Flow
  <2>1. PutSize(c, k, "RESERVED") \o Persist(c) \in Flow
    BY <1>0, <1>1, FlowStore DEF States
  <2> QED BY <2>1, <1>2, <1>4
<1>6. Taking(m, c, n) # <<>> /\ Head(Taking(m, c, n)) = o /\ Tail(Taking(m, c, n)) = Persist(c)
  <2> HIDE DEF o
  <2> QED BY <1>3, <1>4, OneStep
<1>7. PersistOp(c + n) \notin Range(Taking(m, c, n))
  <2>1. Range(<<o>>) = {o} /\ <<o>> \in Seq(Ops)
    <3> HIDE DEF o
    <3>1. DOMAIN <<o>> = {1} /\ <<o>>[1] = o
      OBVIOUS
    <3> QED BY <3>1, <1>2 DEF Range
  <2>2. Range(Taking(m, c, n)) = Range(<<o>>) \union Range(Persist(c))
    <3>1. PICK x, y : x = <<o>> /\ y = Persist(c)
      OBVIOUS
    <3>2. x \in Seq(Ops) /\ y \in Seq(Ops)
      BY <3>1, <2>1, <1>3
    <3>3. Range(x \o y) = Range(x) \union Range(y)
      BY ONLY <3>2, RangeConcat
    <3> QED BY <3>1, <3>3, <1>4
  <2>3. PersistOp(c + n) # o /\ PersistOp(c + n) # PersistOp(c)
    <3>1. c + n # c
      BY <1>0
    <3>2. PersistOp(c + n).do = "persist" /\ o.do = "size"
      BY DEF PersistOp
    <3>3. PersistOp(c + n).at = c + n /\ PersistOp(c).at = c
      BY DEF PersistOp
    <3> QED BY <3>1, <3>2, <3>3
  <2> QED BY <2>1, <2>2, <2>3, <1>3
<1>8. ResetOn(c) \in Flow /\ ResetOn(c) \o Taking(m, c, n) \in Flow
  BY <1>0, <1>5, ResetIs, FlowConcat, Zenon
<1>9. ASSUME m[c].size - n >= 2
      PROVE     /\ c + n \in Chunk /\ m[c].size - n \in Chunk /\ c + n + (m[c].size - n) <= LastClump
                /\ c + n \notin Walk(m) /\ c + n # c
                /\ Placing(m, c, n) \in Flow /\ Placing(m, c, n) # <<>>
                /\ Head(Placing(m, c, n)) =
                     [do |-> "size", at |-> c + n, size |-> m[c].size - n, state |-> "FREE"]
                /\ Tail(Placing(m, c, n)) = Persist(c + n) \o (ResetOn(c) \o Taking(m, c, n))
                /\ PersistOp(c + n) \in Range(Tail(Placing(m, c, n)))
                /\ PersistOp(c + n) \in Range(Placing(m, c, n))
                /\ Do("blank", c + n) \o Placing(m, c, n) \in Flow
                /\ Do("blank", c + n) \o Placing(m, c, n) # <<>>
                /\ Head(Do("blank", c + n) \o Placing(m, c, n)) = [do |-> "blank", at |-> c + n]
                /\ Tail(Do("blank", c + n) \o Placing(m, c, n)) = Placing(m, c, n)
  <2>1. /\ c + n \in Chunk /\ m[c].size - n \in Chunk /\ c + n + (m[c].size - n) <= LastClump
        /\ c + n # c /\ c < c + n /\ c + n < c + m[c].size /\ c + n \in Nat
    <3>1. PICK z : z = m[c].size
      OBVIOUS
    <3>2. z \in Nat /\ c \in Nat /\ n \in Nat /\ 0 < n /\ z - n >= 2 /\ c + z <= LastClump
      BY <3>1, <1>0, <1>9
    <3>3. /\ z - n \in Nat /\ c + n + (z - n) = c + z /\ c < c + n /\ c + n < c + z /\ c + n \in Nat
          /\ c + n <= LastClump /\ z - n <= LastClump
      BY <3>2, Constants
    <3> QED BY <3>1, <3>2, <3>3, Constants
  <2>2. c + n \notin Walk(m)
    <3> SUFFICES ASSUME c + n \in Walk(m) PROVE FALSE
      OBVIOUS
    <3>1. PICK b : b = c + n
      OBVIOUS
    <3>2. b \in Walk(m) /\ c \in Walk(m) /\ c < b /\ b < c + m[c].size
      BY <3>1, <2>1, <1>0
    <3>3. c + m[c].size <= b
      BY <3>2, TiledFacts DEF Typed
    <3>4. b \in Nat /\ c + m[c].size \in Nat
      BY <3>1, <2>1, <1>0
    <3> QED BY <3>2, <3>3, <3>4
  <2> DEFINE z == [do |-> "size", at |-> c + n, size |-> m[c].size - n, state |-> "FREE"]
             x == [do |-> "blank", at |-> c + n]
  <2>3. z \in Ops /\ x \in Ops /\ x \in BlankOps /\ PutSize(c + n, m[c].size - n, "FREE") = <<z>>
        /\ Do("blank", c + n) = <<x>>
    BY <2>1 DEF PutSize, Ops, SizeOps, States, BlankOps, Do
  <2> HIDE DEF z, x
  <2>4. PICK r : r = ResetOn(c) \o Taking(m, c, n)
    OBVIOUS
  <2>5. PICK y : y = Persist(c + n)
    OBVIOUS
  <2>6. r \in Flow /\ y \in Flow /\ r \in Seq(Ops) /\ y \in Seq(Ops) /\ Range(y) = {PersistOp(c + n)}
    BY <2>1, <2>4, <2>5, <1>8, PersistIs DEF Flow
  <2>7. y \o r \in Seq(Ops) /\ PersistOp(c + n) \in Range(y \o r)
    BY <2>6, RangeConcat
  <2>8. PICK t : t = y \o r
    OBVIOUS
  <2>9. Placing(m, c, n) = <<z>> \o t
    BY <2>3, <2>4, <2>5, <2>8 DEF Placing
  <2>10. PICK p : p = Placing(m, c, n)
    OBVIOUS
  <2>11. p # <<>> /\ Head(p) = z /\ Tail(p) = t
    BY <2>7, <2>8, <2>9, <2>10, OneStep
  <2>12. p \in Flow
    <3>1. PutSize(c + n, m[c].size - n, "FREE") \o y \in Flow
      BY <2>1, <2>5, FlowStore DEF States
    <3>2. <<z>> \in Seq(Ops)
      BY <2>3
    <3>3. (<<z>> \o y) \o r = <<z>> \o t
      BY <3>2, <2>6, <2>8, ConcatAssociative
    <3>4. (<<z>> \o y) \o r \in Flow
      BY <3>1, <2>3, <2>6, FlowConcat
    <3> QED BY <3>3, <3>4, <2>9, <2>10
  <2>13. p \in Seq(Ops)
    BY <2>12 DEF Flow
  <2>14. PersistOp(c + n) \in Range(p)
    <3>1. <<z>> \in Seq(Ops) /\ t \in Seq(Ops)
      BY <2>3, <2>7, <2>8
    <3>2. PICK a : a = <<z>>
      OBVIOUS
    <3>4. a \in Seq(Ops) /\ t \in Seq(Ops)
      BY <3>1, <3>2
    <3>3. Range(a \o t) = Range(a) \union Range(t)
      BY ONLY <3>4, RangeConcat
    <3> QED BY <3>2, <3>3, <2>7, <2>8, <2>9, <2>10
  <2>15. <<x>> \o p # <<>> /\ Head(<<x>> \o p) = x /\ Tail(<<x>> \o p) = p
    BY <2>13, OneStep
  <2>16. <<x>> \o p \in Flow
    <3>1. <<x>> \in Seq(Persists \union ScanOps \union BlankOps \union FileOps)
      BY <2>3
    <3>2. <<x>> \in Flow
      BY <3>1, FlowPlain
    <3> QED BY <3>2, <2>12, FlowConcat
  <2> QED BY <2>1, <2>2, <2>3, <2>4, <2>5, <2>7, <2>8, <2>10, <2>11, <2>12, <2>14, <2>15, <2>16, Zenon DEF z, x
<1> QED BY <1>1, <1>5, <1>6, <1>7, <1>8, <1>9 DEF k

\* Free clumps are apart or not whatever is on lists.
LEMMA ApartSame ==
    ASSUME NEW m, Typed(m), Tiled(m), NEW w, NEW x,
           Clumps(w) = Clumps(m),
           \A a \in Walk(m) : w[a].size = m[a].size /\ w[a].state = m[a].state
    PROVE  Apart(m, x) => Apart(w, x)
<1> SUFFICES ASSUME Apart(m, x), NEW b \in Clumps(w), b < x, w[b].state = "FREE"
             PROVE  ~FreeLine(w[b + w[b].size])
  BY DEF Apart
<1>1. b \in Clumps(m) /\ b \in Walk(m) /\ b + m[b].size \in Walk(m)
  BY TiledFacts DEF Typed
<1>2. ~FreeLine(m[b + m[b].size]) /\ w[b].size = m[b].size
  BY <1>1 DEF Apart
<1> QED BY <1>1, <1>2 DEF FreeLine

LEMMA SameOthers ==
    ASSUME NEW m, NEW w, NEW c, Same(m, w, c)
    PROVE  Others(m, w, c)
  BY DEF Same, Others

\* The steps up to the header of the rest.
LEMMA PlacingStep ==
    ASSUME NEW m, Typed(m), Sound(m), Calm(m), Apart(m, LastClump), NEW c \in Clumps(m),
           NEW n \in Nat, 0 < n, n <= m[c].size, m[c].state = "FREE", m[c].size - n >= 2,
           NEW s, s = Do("blank", c + n) \o Placing(m, c, n) \/ s = Placing(m, c, n)
    PROVE  LET w == Effect(m, Head(s)) IN
           /\ s # <<>> /\ Reserving(w, Tail(s), c, n) /\ Untaken(m, w, c)
           /\ Walk(w) = Walk(m) /\ RestStored(m, s, c, n) /\ w[c] = m[c]
<1> DEFINE w == Effect(m, Head(s))
           z == [do |-> "size", at |-> c + n, size |-> m[c].size - n, state |-> "FREE"]
           x == [do |-> "blank", at |-> c + n]
<1>0. /\ c \in Chunk /\ c \in Walk(m) /\ MediumOK(m) /\ Tiled(m) /\ m[c].size \in Nat
      /\ DOMAIN m = Chunk \union Cell \union {HDR} /\ Walk(m) \subseteq Chunk
  BY TiledFacts, MediumFacts, Constants DEF Sound, Typed
<1>1. /\ c + n \in Chunk /\ m[c].size - n \in Chunk /\ c + n + (m[c].size - n) <= LastClump
      /\ c + n \notin Walk(m) /\ c + n # c
      /\ Placing(m, c, n) # <<>>
      /\ Head(Placing(m, c, n)) = z
      /\ Tail(Placing(m, c, n)) = Persist(c + n) \o (ResetOn(c) \o Taking(m, c, n))
      /\ PersistOp(c + n) \in Range(Tail(Placing(m, c, n)))
      /\ PersistOp(c + n) \in Range(Placing(m, c, n))
      /\ Do("blank", c + n) \o Placing(m, c, n) # <<>>
      /\ Head(Do("blank", c + n) \o Placing(m, c, n)) = x
      /\ Tail(Do("blank", c + n) \o Placing(m, c, n)) = Placing(m, c, n)
  <2>1. Tiled(m)
    BY <1>0
  <2> QED BY ONLY <2>1, Typed(m), c \in Clumps(m), n \in Nat, 0 < n, n <= m[c].size, m[c].size - n >= 2, PlacingIs, ZenonT(40)
<1>2. s # <<>> /\ Head(s) \in {x, z} /\ (Head(s) = x => Tail(s) = Placing(m, c, n))
      /\ (Head(s) = z => Tail(s) = Persist(c + n) \o (ResetOn(c) \o Taking(m, c, n)))
      /\ PersistOp(c + n) \in Range(Tail(s))
  <2>1. x # z
    <3>1. x.do = "blank" /\ z.do = "size"
      OBVIOUS
    <3> QED BY <3>1
  <2> HIDE DEF x, z
  <2>2. CASE s = Do("blank", c + n) \o Placing(m, c, n)
    BY <2>1, <2>2, <1>1
  <2>3. CASE s = Placing(m, c, n)
    BY <2>1, <2>3, <1>1
  <2> QED BY <2>2, <2>3
<1>3. Head(s).at = c + n /\ Head(s).do \in {"blank", "size"}
  BY <1>2
<1>4. RestStored(m, s, c, n)
  BY <1>1, <1>2, <1>3 DEF RestStored
<1>5. Typed(w) /\ \A a \in DOMAIN m \ {c + n} : w[a] = m[a]
  <2>1. CASE Head(s) = x
    <3>1. w = Effect(m, x)
      BY <2>1
    <3> HIDE DEF w
    <3> QED BY <3>1, <1>1, EffectBlank
  <2>2. CASE Head(s) = z
    <3>1. PICK a, b : a = c + n /\ b = m[c].size - n
      OBVIOUS
    <3>2. a \in Chunk /\ b \in Chunk /\ a + b <= LastClump /\ "FREE" \in States
      BY <3>1, <1>1 DEF States
    <3>3. w = Effect(m, [do |-> "size", at |-> a, size |-> b, state |-> "FREE"])
      BY <2>2, <3>1
    <3>4. Typed(w) /\ \A e \in DOMAIN m \ {a} : w[e] = m[e]
      <4> HIDE DEF w
      <4> QED BY <3>2, <3>3, EffectSize
    <3> QED BY <3>1, <3>4
  <2> QED BY <2>1, <2>2, <1>2
<1>6. Head(s) = z => w[c + n].size = m[c].size - n /\ w[c + n].state = "FREE"
  <2> SUFFICES ASSUME Head(s) = z
               PROVE  w[c + n].size = m[c].size - n /\ w[c + n].state = "FREE"
    OBVIOUS
  <2>1. PICK a, b : a = c + n /\ b = m[c].size - n
    OBVIOUS
  <2>2. a \in Chunk /\ b \in Chunk /\ a + b <= LastClump /\ "FREE" \in States
    BY <2>1, <1>1 DEF States
  <2>3. w = Effect(m, [do |-> "size", at |-> a, size |-> b, state |-> "FREE"])
    BY <2>1
  <2>4. w[a].size = b /\ w[a].state = "FREE"
    <3> HIDE DEF w
    <3> QED BY <2>2, <2>3, EffectSize
  <2> QED BY <2>1, <2>4
<1> HIDE DEF w
<1>7. \A a \in Walk(m) \union Cell : w[a] = m[a]
  BY <1>0, <1>1, <1>5, Constants
<1>8. /\ Walk(w) = Walk(m) /\ Clumps(w) = Clumps(m) /\ InTransit(w) = InTransit(m) /\ Sound(w)
      /\ w[c] = m[c]
  BY <1>0, <1>5, <1>7, SoundSame DEF Typed
<1>9. Untaken(m, w, c)
  <2>1. Apart(w, LastClump)
    BY <1>0, <1>7, <1>8, ApartSame
  <2>2. Others(m, w, c)
    BY <1>7, <1>8 DEF Others, Clumps
  <2> QED BY <2>1, <2>2, <1>7, <1>8 DEF Untaken, SameCells, Calm
<1>10. Reserving(w, Tail(s), c, n)
  <2>1. Placing(w, c, n) = Placing(m, c, n) /\ Taking(w, c, n) = Taking(m, c, n)
        /\ Portion(w, c, n) = n /\ Portion(m, c, n) = n
    BY <1>8, Zenon DEF Placing, Taking, Portion
  <2>2. CASE Head(s) = x
    BY <2>1, <2>2, <1>2, <1>8 DEF Reserving
  <2>3. CASE Head(s) = z
    <3>1. Cut(w, c, n)
      <4>1. n < m[c].size /\ 0 < n
        BY <1>0
      <4> QED BY <4>1, <2>3, <1>6, <1>8 DEF Cut
    <3> DEFINE X == Resets(c) \union Persists
               q == Persist(c + n) \o ResetOn(c)
    <3>2. Persist(c + n) \in Seq(X) /\ ResetOn(c) \in Seq(X)
      <4>1. ResetOn(c) \in Seq(X) /\ Persist(c + n) \in Seq(Persists)
        BY <1>0, <1>1, ResetIs, PersistIs
      <4>2. Persist(c + n) \in Seq(X)
        BY <4>1, SeqMonotonic
      <4> QED BY <4>1, <4>2
    <3>3. q \in Seq(X) /\ Range(q) = Range(Persist(c + n)) \union Range(ResetOn(c))
      <4> HIDE DEF X
      <4>1. PICK a, b : a = Persist(c + n) /\ b = ResetOn(c)
        OBVIOUS
      <4>2. a \in Seq(X) /\ b \in Seq(X)
        BY <3>2, <4>1
      <4>3. a \o b \in Seq(X) /\ Range(a \o b) = Range(a) \union Range(b)
        BY ONLY <4>2, RangeConcat
      <4> QED BY <4>1, <4>3
    <3>4. WillClear(w, c, q)
      <4>1. Clears(c) \subseteq Range(q)
        BY <3>3, <1>0, ResetIs
      <4> QED BY <4>1 DEF WillClear, Clears
    <3>5. Tail(s) = q \o Taking(w, c, n)
      <4>1. /\ Persist(c + n) \in Seq(Ops) /\ ResetOn(c) \in Seq(Ops) /\ Taking(m, c, n) \in Seq(Ops)
        BY <1>0, <1>1, PersistIs, ResetIs, PlacingIs DEF Flow
      <4>2. PICK a, b, e : a = Persist(c + n) /\ b = ResetOn(c) /\ e = Taking(m, c, n)
        OBVIOUS
      <4>3. a \in Seq(Ops) /\ b \in Seq(Ops) /\ e \in Seq(Ops)
        BY <4>1, <4>2
      <4>4. (a \o b) \o e = a \o (b \o e)
        BY ONLY <4>3, ConcatAssociative
      <4>5. Tail(s) = a \o (b \o e)
        BY <2>3, <1>2, <4>2
      <4>6. Tail(s) = (a \o b) \o e
        BY ONLY <4>4, <4>5
      <4>7. q = a \o b /\ e = Taking(w, c, n)
        BY ONLY <4>2, <2>1 DEF q
      <4> QED BY ONLY <4>6, <4>7
    <3> HIDE DEF q
    <3> QED BY <3>1, <3>3, <3>4, <3>5, <2>1, <1>8 DEF Reserving
  <2> QED BY <2>2, <2>3, <1>2
<1> QED BY <1>2, <1>4, <1>8, <1>9, <1>10 DEF w

\* A store to the list of a free clump.
LEMMA FreeListStore ==
    ASSUME NEW m, Typed(m), Sound(m), Calm(m), Apart(m, LastClump), NEW c \in Clumps(m),
           m[c].state = "FREE", NEW w, Typed(w), \A a \in DOMAIN m \ {c} : w[a] = m[a],
           w[c].size = m[c].size, w[c].state = m[c].state
    PROVE  Untaken(m, w, c) /\ Walk(w) = Walk(m) /\ Clumps(w) = Clumps(m)
<1>0. /\ c \in Chunk /\ c \in Walk(m) /\ MediumOK(m) /\ Tiled(m) /\ PointersOK(m)
      /\ DOMAIN m = Chunk \union Cell \union {HDR} /\ Walk(m) \subseteq Chunk
  BY TiledFacts, MediumFacts, Constants DEF Sound, Typed
<1>1. SameCells(m, w) /\ \A a \in (Walk(m) \union Cell) \ {c} : w[a] = m[a]
  BY <1>0, Constants DEF SameCells
<1>2. ClumpOK(w, c) /\ w[c].state \in States
  BY DEF ClumpOK, States
<1>3. \A d \in Cell : m[d] # c
  <2> SUFFICES ASSUME NEW d \in Cell, m[d] = c PROVE FALSE
    OBVIOUS
  <2>1. m[d] # NULL
    BY <1>0, Constants
  <2>2. m[m[d]].state \in {"ACTIVATING", "ACTIVE", "FREEING"}
    BY <1>0, <2>1 DEF PointersOK
  <2> QED BY <2>2
<1>4. /\ Walk(w) = Walk(m) /\ Clumps(w) = Clumps(m) /\ Sound(w)
      /\ \A b \in Clumps(m) \ {c} : w[b] = m[b]
  BY <1>0, <1>1, <1>2, <1>3, SoundLine DEF Typed
<1>5. Calm(w)
  BY <1>4 DEF Calm, InTransit
<1>6. Apart(w, LastClump)
  <2>1. \A a \in Walk(m) : w[a].size = m[a].size /\ w[a].state = m[a].state
    BY <1>1
  <2> QED BY <2>1, <1>0, <1>4, ApartSame
<1>7. Others(m, w, c)
  BY <1>4 DEF Others
<1> QED BY <1>1, <1>4, <1>5, <1>6, <1>7 DEF Untaken

\* The reset of the list and the flush of the header of the rest.
LEMMA ResettingStep ==
    ASSUME NEW m, Typed(m), Sound(m), Calm(m), Apart(m, LastClump), NEW c \in Clumps(m),
           NEW n \in Nat, 0 < n, n <= m[c].size, m[c].state = "FREE",
           Portion(m, c, n) = m[c].size \/ Cut(m, c, Portion(m, c, n)),
           NEW q \in Seq(Resets(c) \union Persists), WillClear(m, c, q), q # <<>>,
           NEW s, s = q \o Taking(m, c, n)
    PROVE  LET w == Effect(m, Head(s)) IN
           /\ s # <<>> /\ Reserving(w, Tail(s), c, n) /\ Untaken(m, w, c)
           /\ Walk(w) = Walk(m) /\ RestStored(m, s, c, n)
<1> DEFINE w == Effect(m, Head(s))
           t == Taking(m, c, n)
<1>0. /\ c \in Chunk /\ c \in Walk(m) /\ MediumOK(m) /\ Tiled(m) /\ m[c].size \in Nat /\ c \in Nat
      /\ DOMAIN m = Chunk \union Cell \union {HDR} /\ Walk(m) \subseteq Chunk /\ Goes(m, c)
  BY TiledFacts, MediumFacts, Constants DEF Sound, Typed
<1>1. t \in Seq(Ops)
  BY <1>0, PlacingIs DEF Flow
<1>2. /\ Head(q) \in Resets(c) \union Persists /\ Tail(q) \in Seq(Resets(c) \union Persists)
      /\ s # <<>> /\ Head(s) = Head(q) /\ Tail(s) = Tail(q) \o t
      /\ Range(q) = {Head(q)} \union Range(Tail(q))
  <2> HIDE DEF t
  <2> QED BY <1>1, Peel DEF t
<1>3. ASSUME Typed(w), \A a \in DOMAIN m \ {c} : w[a] = m[a],
             w[c].size = m[c].size, w[c].state = m[c].state,
             \A i \in Slot : w[c].off[i] = m[c].off[i] \/ w[c].off[i] = NULL,
             \A i \in Slot : Head(q) = ClearOp(c, i) => w[c].off[i] = NULL
      PROVE  Reserving(w, Tail(s), c, n) /\ Untaken(m, w, c) /\ Walk(w) = Walk(m)
  <2> HIDE DEF w
  <2>1. Untaken(m, w, c) /\ Walk(w) = Walk(m) /\ Clumps(w) = Clumps(m)
    BY <1>3, FreeListStore
  <2>2. Portion(w, c, n) = Portion(m, c, n) /\ Taking(w, c, n) = t
    BY <1>3 DEF Portion, Taking
  <2>3. WillClear(w, c, Tail(q))
    <3> SUFFICES ASSUME NEW i \in Slot, w[c].off[i] # NULL
                 PROVE  ClearOp(c, i) \in Range(Tail(q))
      BY DEF WillClear
    <3>1. ClearOp(c, i) \in Range(q) /\ ClearOp(c, i) # Head(q)
      BY <1>3 DEF WillClear
    <3> QED BY <3>1, <1>2
  <2>4. ASSUME Cut(m, c, Portion(m, c, n)) PROVE Cut(w, c, Portion(m, c, n))
    <3>1. PICK k : k = Portion(m, c, n)
      OBVIOUS
    <3>2. k \in Nat /\ k <= m[c].size /\ 0 < k /\ c + k \in Chunk
      <4>1. Portion(m, c, n) \in Nat /\ n <= Portion(m, c, n) /\ Portion(m, c, n) <= m[c].size
            /\ c + Portion(m, c, n) <= LastClump
        BY <1>0, PlacingIs
      <4>2. k \in Nat /\ n <= k /\ k <= m[c].size /\ c + k <= LastClump
        BY <3>1, <4>1
      <4> QED BY <4>2, <1>0, Constants
    <3>3. c + k # c
      BY <3>2, <1>0
    <3>4. w[c + k] = m[c + k]
      BY <3>2, <3>3, <1>0, <1>3
    <3> QED BY <2>4, <3>1, <3>4, <1>3 DEF Cut
  <2> QED BY <2>1, <2>2, <2>3, <2>4, <1>2, <1>3 DEF Reserving
<1>4. CASE Head(q) \in Persists
  <2>1. w = m
    BY <1>2, <1>4, EffectNone
  <2>2. \A i \in Slot : Head(q) # ClearOp(c, i)
    BY <1>4 DEF Persists, ClearOp
  <2>3. RestStored(m, s, c, n)
    BY <1>2, <1>4 DEF RestStored, Persists, Stores
  <2> HIDE DEF w
  <2> QED BY <2>1, <2>2, <2>3, <1>2, <1>3 DEF w
<1>5. CASE Head(q) \in Clears(c)
  <2>1. PICK i \in Slot : Head(q) = [do |-> "off", at |-> c, i |-> i, val |-> NULL]
    BY <1>5 DEF Clears, ClearOp
  <2>2. w = Effect(m, [do |-> "off", at |-> c, i |-> i, val |-> NULL])
    BY <2>1, <1>2
  <2>3. RestStored(m, s, c, n)
    BY <2>1, <1>2 DEF RestStored
  <2> HIDE DEF w
  <2>4. /\ Typed(w) /\ \A a \in DOMAIN m \ {c} : w[a] = m[a]
        /\ w[c].size = m[c].size /\ w[c].state = m[c].state /\ w[c].ptr = m[c].ptr
        /\ w[c].off[i] = NULL /\ \A j \in Slot \ {i} : w[c].off[j] = m[c].off[j]
    BY <2>2, <1>0, EffectOff
  <2>5. \A j \in Slot : Head(q) = ClearOp(c, j) => j = i
    BY <2>1 DEF ClearOp
  <2> QED BY <2>3, <2>4, <2>5, <1>2, <1>3 DEF w
<1>6. CASE Head(q) \in [do : {"ptr"}, at : {c}, i : Slot, val : {NULL}]
  <2>1. PICK i \in Slot : Head(q) = [do |-> "ptr", at |-> c, i |-> i, val |-> NULL]
    <3>1. PICK o : o = Head(q)
      OBVIOUS
    <3>2. o \in [do : {"ptr"}, at : {c}, i : Slot, val : {NULL}]
      BY <3>1, <1>6
    <3>3. o = [do |-> "ptr", at |-> c, i |-> o.i, val |-> NULL] /\ o.i \in Slot
      BY ONLY <3>2
    <3> QED BY <3>1, <3>3
  <2>2. w = Effect(m, [do |-> "ptr", at |-> c, i |-> i, val |-> NULL])
    BY <2>1, <1>2
  <2>3. RestStored(m, s, c, n)
    BY <2>1, <1>2 DEF RestStored
  <2> HIDE DEF w
  <2>4. /\ Typed(w) /\ \A a \in DOMAIN m \ {c} : w[a] = m[a]
        /\ w[c].size = m[c].size /\ w[c].state = m[c].state /\ w[c].off = m[c].off
    BY <2>2, <1>0, EffectPtr
  <2>5. \A j \in Slot : Head(q) # ClearOp(c, j)
    BY <2>1 DEF ClearOp
  <2> QED BY <2>3, <2>4, <2>5, <1>2, <1>3 DEF w
<1> QED BY <1>2, <1>4, <1>5, <1>6 DEF Resets, w

\* The clump, or the first part of it, is taken.
LEMMA TakingStep ==
    ASSUME NEW m, Typed(m), Sound(m), Calm(m), Apart(m, LastClump), NEW c \in Clumps(m),
           NEW n \in Nat, 0 < n, n <= m[c].size, m[c].state = "FREE",
           Portion(m, c, n) = m[c].size \/ Cut(m, c, Portion(m, c, n)),
           EmptyList(m[c]), NEW s, s = Taking(m, c, n)
    PROVE  LET w == Effect(m, Head(s)) IN
           /\ s # <<>> /\ Reserving(w, Tail(s), c, n) /\ Untaken(m, w, c)
           /\ RestPlaced(m, w, s, c, n) /\ RestStored(m, s, c, n)
           /\ \A a \in DOMAIN m \ {c} : w[a] = m[a]
<1> DEFINE w == Effect(m, Head(s))
<1>k. PICK k : k = Portion(m, c, n)
  OBVIOUS
<1>0. /\ c \in Chunk /\ c \in Walk(m) /\ MediumOK(m) /\ Tiled(m) /\ m[c].size \in Nat /\ c \in Nat
      /\ DOMAIN m = Chunk \union Cell \union {HDR} /\ Walk(m) \subseteq Chunk
      /\ c + m[c].size \in Walk(m)
  BY TiledFacts, MediumFacts, Constants DEF Sound, Typed
<1>1. /\ k \in Nat /\ n <= k /\ k <= m[c].size /\ k \in Chunk /\ c + k <= LastClump
      /\ s # <<>> /\ Tail(s) = Persist(c)
      /\ Head(s) = [do |-> "size", at |-> c, size |-> k, state |-> "RESERVED"]
      /\ PersistOp(c + n) \notin Range(s)
  <2> HIDE DEF w
  <2> QED BY <1>0, <1>k, PlacingIs, ZenonT(40)
<1>2. /\ Typed(w) /\ \A a \in DOMAIN m \ {c} : w[a] = m[a]
      /\ w[c].size = k /\ w[c].state = "RESERVED" /\ w[c].off = m[c].off
  <2>1. w = Effect(m, [do |-> "size", at |-> c, size |-> k, state |-> "RESERVED"])
    BY <1>1
  <2>2. "RESERVED" \in States
    BY DEF States
  <2> HIDE DEF w
  <2>3. c \in Chunk /\ k \in Chunk /\ c + k <= LastClump
    BY <1>0, <1>1
  <2> QED BY <2>1, <2>2, <2>3, EffectSize
<1> HIDE DEF w
<1>3. \A a \in (Chunk \union Cell) \ {c} : w[a] = m[a]
  BY <1>0, <1>2
<1>4. /\ Walk(w) = Walk(m) \union {c + k}
      /\ Clumps(w) = Clumps(m) \union {b \in {c + k} : k # m[c].size}
      /\ Sound(w) /\ InTransit(w) = InTransit(m)
  BY <1>1, <1>2, <1>3, <1>k, SoundTake DEF Typed
<1>5. k # m[c].size => /\ Cut(m, c, k) /\ m[c].size - n >= 2 /\ k = n /\ c + k \in Chunk
                       /\ c + k \notin Walk(m) /\ c + k # c
                       /\ w[c + k].size = m[c].size - k /\ w[c + k].state = "FREE"
                       /\ c + k + w[c + k].size = c + m[c].size
  <2> SUFFICES ASSUME k # m[c].size
               PROVE  /\ Cut(m, c, k) /\ m[c].size - n >= 2 /\ k = n /\ c + k \in Chunk
                       /\ c + k \notin Walk(m) /\ c + k # c
                       /\ w[c + k].size = m[c].size - k /\ w[c + k].state = "FREE"
                       /\ c + k + w[c + k].size = c + m[c].size
    OBVIOUS
  <2>1. Cut(m, c, k) /\ m[c].size - n >= 2 /\ k = n
    BY <1>k DEF Portion
  <2>2. c + k \in Chunk /\ c + k \notin Walk(m) /\ c + k # c
    BY <2>1, <1>0, PlacingIs, ZenonT(40)
  <2>3. w[c + k] = m[c + k]
    BY <2>2, <1>3
  <2>4. w[c + k].size = m[c].size - k /\ w[c + k].state = "FREE"
    BY <2>1, <2>3 DEF Cut
  <2>5. PICK z : z = m[c].size
    OBVIOUS
  <2>6. c + k + (z - k) = c + z
    BY <2>5, <1>0, <1>1
  <2> QED BY <2>1, <2>2, <2>4, <2>5, <2>6
<1>6. SameCells(m, w)
  BY <1>0, <1>3, Constants DEF SameCells
<1>7. Others(m, w, c)
  <2>1. ASSUME NEW b \in Clumps(m) \ {c}, m[b].state # "FREE" PROVE b \in Clumps(w) /\ w[b] = m[b]
    BY <2>1, <1>3, <1>4, <1>0 DEF Clumps
  <2>2. ASSUME NEW b \in Clumps(w) \ {c}, w[b].state # "FREE" PROVE b \in Clumps(m) /\ w[b] = m[b]
    <3>1. b \in Clumps(m)
      BY <2>2, <1>4, <1>5
    <3> QED BY <3>1, <2>2, <1>3, <1>0 DEF Clumps
  <2> QED BY <2>1, <2>2 DEF Others
<1>8. Apart(w, LastClump)
  <2> SUFFICES ASSUME NEW b \in Clumps(w), b < LastClump, w[b].state = "FREE"
               PROVE  ~FreeLine(w[b + w[b].size])
    BY DEF Apart
  <2>1. b # c
    BY <1>2
  <2>2. CASE b \in Clumps(m)
    <3>1. b \in Chunk /\ b + m[b].size \in Walk(m) /\ w[b] = m[b]
      BY <2>1, <2>2, <1>0, <1>3, TiledFacts
    <3>2. ~FreeLine(m[b + m[b].size])
      BY <3>1, <2>2 DEF Apart
    <3> QED BY <3>1, <3>2, <1>0, <1>2, <1>3 DEF FreeLine
  <2>3. CASE b \notin Clumps(m)
    <3>1. b = c + k /\ k # m[c].size
      BY <2>3, <1>4
    <3>2. ~FreeLine(m[c + m[c].size])
      <4>1. c # LastClump /\ c < LastClump
        BY <1>0, TiledFacts, Constants
      <4> QED BY <4>1 DEF Apart
    <3>3. b + w[b].size = c + m[c].size
      BY <3>1, <1>5
    <3> QED BY <3>2, <3>3, <1>0, <1>2, <1>3 DEF FreeLine
  <2> QED BY <2>2, <2>3
<1>9. RestPlaced(m, w, s, c, n)
  <2>1. CASE k = m[c].size
    BY <2>1, <1>0, <1>4 DEF RestPlaced
  <2>2. CASE k # m[c].size
    BY <2>2, <1>1, <1>4, <1>5 DEF RestPlaced
  <2> QED BY <2>1, <2>2
<1>10. RestStored(m, s, c, n)
  BY <1>1 DEF RestStored
<1>11. Reserving(w, Tail(s), c, n)
  <2>1. Tail(s) \in Seq(Persists)
    BY <1>0, <1>1, PersistIs
  <2>2. EmptyList(w[c])
    BY <1>2 DEF EmptyList
  <2>3. c \in Clumps(w) /\ n <= w[c].size
    BY <1>1, <1>2, <1>4
  <2> QED BY <2>1, <2>2, <2>3, <1>2 DEF Reserving
<1>12. Calm(w)
  BY <1>4 DEF Calm
<1> QED BY <1>1, <1>2, <1>4, <1>6, <1>7, <1>8, <1>9, <1>10, <1>11, <1>12 DEF Untaken, w

LEMMA ReservingStep ==
    ASSUME NEW m, Typed(m), Sound(m), Calm(m), Apart(m, LastClump), NEW c, NEW n \in Nat, 0 < n,
           NEW s, s # <<>>, Reserving(m, s, c, n)
    PROVE  LET w == Effect(m, Head(s)) IN
           /\ Reserving(w, Tail(s), c, n) /\ Untaken(m, w, c)
           /\ RestPlaced(m, w, s, c, n) /\ RestStored(m, s, c, n)
           /\ \A a \in DOMAIN m \ {Head(s).at} : w[a] = m[a]
<1> DEFINE w == Effect(m, Head(s))
<1>0. c \in Clumps(m) /\ n <= m[c].size /\ MediumOK(m) /\ Tiled(m) /\ c \in Walk(m) /\ c \in Chunk
      /\ Walk(m) \subseteq Chunk /\ DOMAIN m = Chunk \union Cell \union {HDR}
  BY TiledFacts, MediumFacts DEF Reserving, Sound, Typed
<1>e. \A a \in DOMAIN m \ {Head(s).at} : w[a] = m[a]
  BY DEF Effect
<1>1. CASE /\ m[c].state = "FREE" /\ m[c].size - n >= 2
           /\ s = Do("blank", c + n) \o Placing(m, c, n) \/ s = Placing(m, c, n)
  <2> HIDE DEF w
  <2> QED BY <1>0, <1>1, <1>e, PlacingStep DEF RestPlaced, w
<1>2. CASE /\ m[c].state = "FREE"
           /\ Portion(m, c, n) = m[c].size \/ Cut(m, c, Portion(m, c, n))
           /\ \E q \in Seq(Resets(c) \union Persists) :
                s = q \o Taking(m, c, n) /\ WillClear(m, c, q)
  <2>1. PICK q \in Seq(Resets(c) \union Persists) : s = q \o Taking(m, c, n) /\ WillClear(m, c, q)
    BY <1>2
  <2>2. CASE q # <<>>
    <3> HIDE DEF w
    <3> QED BY <2>1, <2>2, <1>0, <1>2, <1>e, ResettingStep, ZenonT(40) DEF RestPlaced, w
  <2>3. CASE q = <<>>
    <3>1. s = Taking(m, c, n)
      <4>1. Taking(m, c, n) \in Seq(Ops)
        BY <1>0, PlacingIs DEF Flow
      <4> QED BY <2>1, <2>3, <4>1
    <3>2. EmptyList(m[c])
      BY <2>1, <2>3 DEF WillClear, EmptyList, Range
    <3> HIDE DEF w
    <3> QED BY <3>1, <3>2, <1>0, <1>2, <1>e, TakingStep DEF w
  <2> QED BY <2>2, <2>3
<1>3. CASE m[c].state = "RESERVED" /\ EmptyList(m[c]) /\ s \in Seq(Persists)
  <2>1. Head(s) \in Persists /\ Tail(s) \in Seq(Persists)
    BY <1>3
  <2>2. w = m
    BY <2>1, EffectNone
  <2>3. RestStored(m, s, c, n)
    BY <2>1 DEF RestStored, Persists, Stores
  <2> HIDE DEF w
  <2> QED BY <2>1, <2>2, <2>3, <1>0, <1>3 DEF w, Untaken, RestPlaced, Reserving, SameCells, Others
<1> QED BY <1>1, <1>2, <1>3 DEF Reserving

-----------------------------------------------------------------------------
(* pmemalloc_init: the new file *)

LEMMA MakingIs ==
    /\ RecoverFrom(0) \in Flow
    /\ Syncing # <<>> /\ Head(Syncing) = [do |-> "fsync", at |-> HDR] /\ Tail(Syncing) = RecoverFrom(0)
    /\ Stamping # <<>> /\ Head(Stamping) = Magic /\ Tail(Stamping) = Syncing
    /\ Sizing # <<>> /\ Head(Sizing) = SizeOp0 /\ Tail(Sizing) = Stamping
    /\ Allocating # <<>> /\ Head(Allocating) = [do |-> "fallocate", at |-> HDR]
    /\ Tail(Allocating) = Sizing
    /\ Making # <<>> /\ Head(Making) = [do |-> "creat", at |-> HDR] /\ Tail(Making) = Allocating
    /\ Making \in Flow
    /\ (CreateSteps \o Do("recover", 0)) \o Do("coalesce", 0) = Making
<1> DEFINE a == [do |-> "creat", at |-> HDR]
           b == [do |-> "fallocate", at |-> HDR]
           e == [do |-> "fsync", at |-> HDR]
<1>1. a \in Ops /\ b \in Ops /\ e \in Ops /\ Magic \in Ops /\ SizeOp0 \in Ops
  BY Constants DEF Ops, FileOps, SizeOps, SizeOp0, States
<1>2. /\ Do("creat", HDR) = <<a>> /\ Do("fallocate", HDR) = <<b>> /\ Do("fsync", HDR) = <<e>>
      /\ PutCell(HDR, "*PMEMALLOC_POOL") = <<Magic>> /\ PutSize(0, LastClump, "FREE") = <<SizeOp0>>
  BY DEF Do, PutCell, PutSize, Magic, CellOp, SizeOp0
<1>3. /\ Do("recover", 0) \in Flow /\ Do("recover", 0) \in Seq(Ops)
      /\ Do("coalesce", 0) \in Flow /\ Do("coalesce", 0) \in Seq(Ops)
  BY ScanIs, Constants
<1>4. RecoverFrom(0) \in Flow /\ RecoverFrom(0) \in Seq(Ops)
  <2>1. RecoverFrom(0) \in Flow
    BY <1>3, FlowConcat DEF RecoverFrom
  <2> QED BY <2>1 DEF Flow
<1>5. Magic.do = "cell" /\ Magic.at = HDR /\ SizeOp0.do = "size" /\ SizeOp0.at = 0 /\ 0 # HDR
  BY Constants DEF Magic, CellOp, SizeOp0
<1>6. LineOf(e) = 0 /\ LineOf(Magic) = 0 /\ Behind(Magic) = 0 /\ Behind(SizeOp0) = 0
  BY <1>5 DEF LineOf, Behind
<1>7. a.do = "creat" /\ b.do = "fallocate" /\ e.do = "fsync"
  OBVIOUS
<1> HIDE DEF a, b, e
<1>8. Syncing \in Seq(Ops) /\ Stamping \in Seq(Ops) /\ Sizing \in Seq(Ops)
      /\ Allocating \in Seq(Ops) /\ Making \in Seq(Ops)
  <2>1. ASSUME NEW o \in Ops, NEW t \in Seq(Ops) PROVE <<o>> \o t \in Seq(Ops)
    <3>1. PICK p : p = <<o>>
      OBVIOUS
    <3>2. p \in Seq(Ops)
      BY <3>1
    <3>3. p \o t \in Seq(Ops)
      BY ONLY <3>2, t \in Seq(Ops)
    <3> QED BY <3>1, <3>3
  <2>2. Syncing \in Seq(Ops)
    BY <2>1, <1>1, <1>2, <1>4 DEF Syncing
  <2>3. Stamping \in Seq(Ops)
    BY <2>1, <2>2, <1>1, <1>2 DEF Stamping
  <2>4. Sizing \in Seq(Ops)
    BY <2>1, <2>3, <1>1, <1>2 DEF Sizing
  <2>5. Allocating \in Seq(Ops)
    BY <2>1, <2>4, <1>1, <1>2 DEF Allocating
  <2>6. Making \in Seq(Ops)
    BY <2>1, <2>5, <1>1, <1>2 DEF Making
  <2> QED BY <2>2, <2>3, <2>4, <2>5, <2>6
<1>9. /\ Syncing # <<>> /\ Head(Syncing) = e /\ Tail(Syncing) = RecoverFrom(0)
      /\ Stamping # <<>> /\ Head(Stamping) = Magic /\ Tail(Stamping) = Syncing
      /\ Sizing # <<>> /\ Head(Sizing) = SizeOp0 /\ Tail(Sizing) = Stamping
      /\ Allocating # <<>> /\ Head(Allocating) = b /\ Tail(Allocating) = Sizing
      /\ Making # <<>> /\ Head(Making) = a /\ Tail(Making) = Allocating
  <2>1. Syncing # <<>> /\ Head(Syncing) = e /\ Tail(Syncing) = RecoverFrom(0)
    BY <1>2, <1>4, OneStep DEF Syncing
  <2>2. Stamping # <<>> /\ Head(Stamping) = Magic /\ Tail(Stamping) = Syncing
    BY <1>2, <1>8, OneStep DEF Stamping
  <2>3. Sizing # <<>> /\ Head(Sizing) = SizeOp0 /\ Tail(Sizing) = Stamping
    BY <1>2, <1>8, OneStep DEF Sizing
  <2>4. Allocating # <<>> /\ Head(Allocating) = b /\ Tail(Allocating) = Sizing
    BY <1>2, <1>8, OneStep DEF Allocating
  <2>5. Making # <<>> /\ Head(Making) = a /\ Tail(Making) = Allocating
    BY <1>2, <1>8, OneStep DEF Making
  <2> QED BY <2>1, <2>2, <2>3, <2>4, <2>5
<1>10. Making \in Flow
  <2>1. ASSUME NEW o \in Ops, NEW t \in Flow,
               o.do \in Storing => t # <<>> /\ LineOf(Head(t)) = Behind(o)
        PROVE  <<o>> \o t \in Flow
    <3>1. PICK s : s = <<o>> \o t
      OBVIOUS
    <3>2. t \in Seq(Ops) /\ Paired(t)
      BY DEF Flow
    <3>3. s \in Seq(Ops) /\ Len(s) = Len(t) + 1 /\ s[1] = o
          /\ \A j \in 2..Len(s) : s[j] = t[j - 1]
      BY <3>1, <3>2
    <3>4. Paired(s)
      <4> SUFFICES ASSUME NEW j \in 1..Len(s), s[j].do \in Storing
                   PROVE  j < Len(s) /\ LineOf(s[j + 1]) = Behind(s[j])
        BY DEF Paired
      <4>1. CASE j = 1
        <5>1. t # <<>> /\ LineOf(Head(t)) = Behind(o)
          BY <4>1, <3>3, <2>1
        <5>2. Len(t) \in Nat /\ Len(t) # 0 /\ Head(t) = t[1]
          BY <5>1, <3>2
        <5>3. 2 \in 2..Len(s) /\ s[2] = t[1]
          <6>1. 2 \in 2..Len(s)
            BY <5>2, <3>3
          <6> QED BY <6>1, <3>3
        <5> QED BY <5>1, <5>2, <5>3, <4>1, <3>3
      <4>2. CASE j # 1
        <5>1. Len(t) \in Nat /\ j - 1 \in 1..Len(t) /\ s[j] = t[j - 1]
          BY <4>2, <3>2, <3>3
        <5>2. j - 1 < Len(t) /\ LineOf(t[j - 1 + 1]) = Behind(t[j - 1])
          BY <5>1, <3>2 DEF Paired
        <5>3. j + 1 \in 2..Len(s) /\ s[j + 1] = t[j - 1 + 1]
          BY <5>1, <5>2, <3>3
        <5> QED BY <5>1, <5>2, <5>3, <3>3
      <4> QED BY <4>1, <4>2
    <3> QED BY <3>1, <3>3, <3>4 DEF Flow
  <2>2. Syncing \in Flow
    BY <2>1, <1>1, <1>2, <1>4, <1>7 DEF Syncing, Storing
  <2>3. Stamping \in Flow
    BY <2>1, <2>2, <1>1, <1>2, <1>6, <1>9 DEF Stamping
  <2>4. Sizing \in Flow
    BY <2>1, <2>3, <1>1, <1>2, <1>6, <1>9 DEF Sizing
  <2>5. Allocating \in Flow
    BY <2>1, <2>4, <1>1, <1>2, <1>7 DEF Allocating, Storing
  <2> QED BY <2>1, <2>5, <1>1, <1>2, <1>7 DEF Making, Storing
<1>11. (CreateSteps \o Do("recover", 0)) \o Do("coalesce", 0) = Making
  <2>1. PICK x, y : x = Do("recover", 0) /\ y = Do("coalesce", 0)
    OBVIOUS
  <2>2. PICK a1, b1, c1, d1, e1 :
            a1 = <<a>> /\ b1 = <<b>> /\ c1 = <<SizeOp0>> /\ d1 = <<Magic>> /\ e1 = <<e>>
    OBVIOUS
  <2>3. /\ x \in Seq(Ops) /\ y \in Seq(Ops) /\ a1 \in Seq(Ops) /\ b1 \in Seq(Ops)
        /\ c1 \in Seq(Ops) /\ d1 \in Seq(Ops) /\ e1 \in Seq(Ops)
    BY <2>1, <2>2, <1>1, <1>3
  <2>4. CreateSteps = (((a1 \o b1) \o c1) \o d1) \o e1
    BY <1>2, <2>2 DEF CreateSteps
  <2>5. Making = a1 \o (b1 \o (c1 \o (d1 \o (e1 \o (x \o y)))))
    BY <1>2, <2>1, <2>2 DEF Making, Allocating, Sizing, Stamping, Syncing, RecoverFrom
  <2>7. ((((((a1 \o b1) \o c1) \o d1) \o e1) \o x) \o y) = a1 \o (b1 \o (c1 \o (d1 \o (e1 \o (x \o y)))))
    <3> DEFINE z == x \o y
               q1 == a1 \o b1
               q2 == q1 \o c1
               q3 == q2 \o d1
               q4 == q3 \o e1
               r3 == e1 \o z
               r2 == d1 \o r3
               r1 == c1 \o r2
    <3>1. z \in Seq(Ops) /\ q1 \in Seq(Ops)
      BY <2>3
    <3>2. q2 \in Seq(Ops) /\ r3 \in Seq(Ops)
      <4> HIDE DEF z, q1
      <4> QED BY <2>3, <3>1
    <3>3. q3 \in Seq(Ops) /\ r2 \in Seq(Ops)
      <4> HIDE DEF q2, r3
      <4> QED BY <2>3, <3>2
    <3>4. q4 \in Seq(Ops) /\ r1 \in Seq(Ops)
      <4> HIDE DEF q3, r2
      <4> QED BY <2>3, <3>3
    <3>5. (q4 \o x) \o y = q4 \o z
      <4>1. q4 \in Seq(Ops) /\ x \in Seq(Ops) /\ y \in Seq(Ops)
        BY <2>3, <3>4
      <4> HIDE DEF q4
      <4> QED BY ONLY <4>1, ConcatAssociative
    <3>6. q4 \o z = q3 \o r3
      <4>1. q3 \in Seq(Ops) /\ e1 \in Seq(Ops) /\ z \in Seq(Ops)
        BY <2>3, <3>1, <3>3
      <4> HIDE DEF q3, z
      <4> QED BY ONLY <4>1, ConcatAssociative
    <3>7. q3 \o r3 = q2 \o r2
      <4>1. q2 \in Seq(Ops) /\ d1 \in Seq(Ops) /\ r3 \in Seq(Ops)
        BY <2>3, <3>2
      <4> HIDE DEF q2, r3
      <4> QED BY ONLY <4>1, ConcatAssociative
    <3>8. q2 \o r2 = q1 \o r1
      <4>1. q1 \in Seq(Ops) /\ c1 \in Seq(Ops) /\ r2 \in Seq(Ops)
        BY <2>3, <3>1, <3>3
      <4> HIDE DEF q1, r2
      <4> QED BY ONLY <4>1, ConcatAssociative
    <3>9. q1 \o r1 = a1 \o (b1 \o r1)
      <4>1. a1 \in Seq(Ops) /\ b1 \in Seq(Ops) /\ r1 \in Seq(Ops)
        BY <2>3, <3>4
      <4> HIDE DEF r1
      <4> QED BY ONLY <4>1, ConcatAssociative
    <3>10. (q4 \o x) \o y = a1 \o (b1 \o r1)
      <4> HIDE DEF q4, q3, q2, q1, r1, r2, r3, z
      <4> QED BY <3>5, <3>6, <3>7, <3>8, <3>9
    <3> QED BY <3>10
  <2> QED BY <2>1, <2>4, <2>5, <2>7
<1> QED BY <1>4, <1>9, <1>10, <1>11 DEF a, b, e

\* Three series in a row.
LEMMA Regroup ==
    ASSUME NEW a \in Seq(Ops), NEW b \in Seq(Ops), NEW e \in Seq(Ops)
    PROVE  (a \o b) \o e = a \o (b \o e) /\ a \o b \in Seq(Ops) /\ b \o e \in Seq(Ops)
<1>1. (a \o b) \o e = a \o (b \o e)
  BY ONLY a \in Seq(Ops), b \in Seq(Ops), e \in Seq(Ops), ConcatAssociative
<1> QED BY <1>1

LEMMA RecoverFromIs ==
    ASSUME NEW c \in Chunk
    PROVE  /\ RecoverFrom(c) \in Flow /\ RecoverFrom(c) \in Seq(Ops) /\ RecoverFrom(c) # <<>>
           /\ Head(RecoverFrom(c)) = [do |-> "recover", at |-> c]
           /\ Tail(RecoverFrom(c)) = Do("coalesce", 0)
<1>1. /\ Do("recover", c) = <<[do |-> "recover", at |-> c]>> /\ Do("recover", c) \in Flow
      /\ Do("coalesce", 0) \in Flow /\ Do("coalesce", 0) \in Seq(Ops)
  BY ScanIs, Constants
<1>2. RecoverFrom(c) \in Flow
  BY <1>1, FlowConcat DEF RecoverFrom
<1>3. RecoverFrom(c) = <<[do |-> "recover", at |-> c]>> \o Do("coalesce", 0)
  BY <1>1 DEF RecoverFrom
<1> QED BY <1>1, <1>2, <1>3, OneStep DEF Flow

\* After recovery nothing is in transit.
LEMMA RecoveredCalm ==
    ASSUME NEW m, Typed(m), Tiled(m), Recovered(m, LastClump)
    PROVE  Calm(m) /\ \A c \in Clumps(m) : m[c].state \in {"FREE", "ACTIVE"}
<1>1. ASSUME NEW c \in Clumps(m) PROVE m[c].state \in {"FREE", "ACTIVE"}
  <2>1. c \in Chunk /\ c # LastClump
    BY TiledFacts DEF Typed
  <2>2. c < LastClump
    BY <2>1, Constants
  <2> QED BY <2>2 DEF Recovered
<1> QED BY <1>1 DEF Calm, InTransit

LEMMA KeptRecovered ==
    ASSUME NEW m, NEW w, Kept(m, w), NEW x, Recovered(m, x)
    PROVE  Recovered(w, x)
  BY DEF Kept, Recovered

LEMMA KeptOthers ==
    ASSUME NEW m, NEW w, Kept(m, w), NEW c
    PROVE  Others(m, w, c)
  BY DEF Kept, Others

LEMMA CreatingStep ==
    ASSUME NEW m, Typed(m), Sound(m), NEW v, NEW s, NEW f, Creating(m, v, s, f)
    PROVE  LET w == Effect(m, Head(s))
               g == FileAfter(f, Head(s))
               o == Head(s)
           IN  /\ s # <<>> /\ Sound(w)
               /\ \/ Creating(w, v, Tail(s), g) /\ o.do # "fsync"
                  \/ Recovering(w, Tail(s), 0) /\ g = "sized" /\ o.do = "fsync"
               /\ o.do \notin {"recover", "coalesce", "blank"}
               /\ \/ w = m /\ o.do \notin Stores
                  \/ o = Magic /\ Walk(w) = Walk(m) /\ Clumps(w) = Clumps(m)
                     /\ (\A a \in Chunk \union Cell : w[a] = m[a]) /\ f = "sized"
                  \/ o = SizeOp0 /\ Walk(w) = {0, LastClump} /\ Walk(m) = {0}
                     /\ v[LastClump] = w[LastClump] /\ (\A a \in DOMAIN m \ {0} : w[a] = m[a])
                     /\ f = "sized"
<1> DEFINE w == Effect(m, Head(s))
           g == FileAfter(f, Head(s))
           o == Head(s)
<1>0. /\ MediumOK(m) /\ DOMAIN m = Chunk \union Cell \union {HDR} /\ 0 \in Chunk /\ LastClump \in Chunk
      /\ LastClump # 0 /\ 0 \in Walk(m)
  BY MediumFacts, Constants, TiledFacts DEF Typed, Sound
<1>1. CASE s = Making
  <2>1. s # <<>> /\ o = [do |-> "creat", at |-> HDR] /\ Tail(s) = Allocating
    BY <1>1, MakingIs
  <2>a. o \in FileOps /\ o.do = "creat"
    BY <2>1 DEF FileOps
  <2>2. w = m
    BY <2>a, EffectNone
  <2>3. Creating(m, v, Allocating, g)
    <3>1. m[0] = Blank /\ v[0] = Blank
      <4>1. Making # Stamping /\ Making # Syncing
        BY MakingIs DEF Magic, CellOp
      <4> QED BY <4>1, <1>1 DEF Creating
    <3> QED BY <3>1 DEF Creating
  <2>b. o.do \notin Stores
    BY <2>a DEF Stores
  <2> HIDE DEF w, o, g
  <2> QED BY <2>1, <2>2, <2>3, <2>a, <2>b DEF w, o, g
<1>2. CASE s = Allocating
  <2>1. s # <<>> /\ o = [do |-> "fallocate", at |-> HDR] /\ Tail(s) = Sizing
    BY <1>2, MakingIs
  <2>a. o \in FileOps /\ o.do = "fallocate"
    BY <2>1 DEF FileOps
  <2>2. w = m /\ g = "sized"
    <3>1. w = m
      BY <2>a, EffectNone
    <3>2. g = "sized"
      BY <2>a DEF FileAfter
    <3> QED BY <3>1, <3>2
  <2>3. Creating(m, v, Sizing, g)
    <3>1. m[0] = Blank /\ v[0] = Blank
      <4>1. Allocating # Stamping /\ Allocating # Syncing
        BY MakingIs DEF Magic, CellOp
      <4> QED BY <4>1, <1>2 DEF Creating
    <3> QED BY <3>1, <2>2 DEF Creating
  <2>b. o.do \notin Stores
    BY <2>a DEF Stores
  <2> HIDE DEF w, o, g
  <2> QED BY <2>1, <2>2, <2>3, <2>a, <2>b DEF w, o, g
<1>3. CASE s = Sizing
  <2>0. m[0] = Blank /\ v[0] = Blank /\ f = "sized"
    <3>1. Sizing # Stamping /\ Sizing # Syncing /\ Sizing # Making /\ Sizing # Allocating
      BY MakingIs DEF Magic, CellOp, SizeOp0
    <3> QED BY <3>1, <1>3 DEF Creating
  <2>1. s # <<>> /\ o = SizeOp0 /\ Tail(s) = Stamping
    BY <1>3, MakingIs
  <2>2. w = [m EXCEPT ![0] = [m[0] EXCEPT !.size = LastClump, !.state = "FREE"]]
    <3>1. o.do = "size" /\ o.at = 0 /\ o.size = LastClump /\ o.state = "FREE"
      BY <2>1 DEF SizeOp0
    <3>2. w = [m EXCEPT ![0] = WrittenTo(m, o)]
      BY <3>1 DEF Effect, Stores
    <3>3. WrittenTo(m, o) = [m[0] EXCEPT !.size = LastClump, !.state = "FREE"]
      <4> HIDE DEF o
      <4> QED BY <3>1 DEF WrittenTo
    <3> QED BY <3>2, <3>3
  <2>3. w[0] = Whole
    <3>1. w[0] = [Blank EXCEPT !.size = LastClump, !.state = "FREE"]
      <4>1. w[0] = [m[0] EXCEPT !.size = LastClump, !.state = "FREE"]
        <5> HIDE DEF w
        <5> QED BY <2>2, <1>0
      <4> QED BY <4>1, <2>0
    <3>2. PICK F : F = [i \in Slot |-> NULL]
      OBVIOUS
    <3>3. Blank = [size |-> 0, state |-> "FREE", off |-> F, ptr |-> F]
      BY <3>2 DEF Blank
    <3>4. [Blank EXCEPT !.size = LastClump, !.state = "FREE"] = [Blank EXCEPT !.size = LastClump]
      <4>1. PICK n : n = LastClump
        OBVIOUS
      <4>2. [[size |-> 0, state |-> "FREE", off |-> F, ptr |-> F] EXCEPT !.size = n, !.state = "FREE"]
            = [[size |-> 0, state |-> "FREE", off |-> F, ptr |-> F] EXCEPT !.size = n]
        <5> DEFINE r == [size |-> 0, state |-> "FREE", off |-> F, ptr |-> F]
        <5>1. [r EXCEPT !.size = n] = [size |-> n, state |-> "FREE", off |-> F, ptr |-> F]
          OBVIOUS
        <5>2. [[r EXCEPT !.size = n] EXCEPT !.state = "FREE"] = [size |-> n, state |-> "FREE", off |-> F, ptr |-> F]
          <6>1. PICK x : x = [size |-> n, state |-> "FREE", off |-> F, ptr |-> F]
            OBVIOUS
          <6>2. x.state = "FREE" /\ x = [x EXCEPT !.state = x.state]
            BY <6>1
          <6>3. [x EXCEPT !.state = "FREE"] = x
            BY <6>2
          <6> QED BY <5>1, <6>1, <6>3
        <5>3. [r EXCEPT !.size = n, !.state = "FREE"] = [[r EXCEPT !.size = n] EXCEPT !.state = "FREE"]
          OBVIOUS
        <5> QED BY <5>1, <5>2, <5>3
      <4> QED BY <4>1, <4>2, <3>3
    <3> HIDE DEF w
    <3> QED BY <3>1, <3>4 DEF Whole
  <2>4. Typed(w)
    <3>1. SizeOp0 \in Ops
      BY Constants DEF SizeOp0, Ops, SizeOps, States
    <3> QED BY <2>1, <3>1, EffectTyped
  <2>5. g = f
    BY <2>1 DEF FileAfter, SizeOp0
  <2>6. \A a \in DOMAIN m \ {0} : w[a] = m[a]
    BY <2>2
  <2>7. \A d \in Cell : w[d] = NULL
    BY <2>6, <1>0, Constants DEF Creating
  <2>8. \A c \in Chunk \ {0} : w[c] = Blank /\ v[c] = Blank
    BY <2>6, <1>0 DEF Creating
  <2> HIDE DEF w
  <2>9. Creating(w, v, Stamping, g)
    BY <2>0, <2>3, <2>5, <2>7, <2>8 DEF Creating
  <2>10. w[0].size = LastClump /\ w[0].state = "FREE" /\ w[LastClump].size = 0
    BY <2>3, <2>8, <1>0 DEF Whole, Blank
  <2>11. Walk(w) = {0, LastClump} /\ Sound(w)
    BY <2>4, <2>7, <2>10, SoundFirst DEF Typed
  <2>12. Walk(m) = {0}
    <3>1. m[0].size = 0 /\ \A d \in Cell : m[d] = NULL
      BY <2>0 DEF Blank, Creating
    <3> QED BY <3>1, <1>0, SoundNew
  <2>13. o.do = "size"
    BY <2>1 DEF SizeOp0
  <2>14. w[LastClump] = v[LastClump]
    BY <2>8, <1>0
  <2> QED BY <2>0, <2>1, <2>6, <2>9, <2>11, <2>12, <2>13, <2>14 DEF w
<1>4. CASE s = Stamping
  <2>0. m[0] = Whole /\ f = "sized"
    <3>1. Sizing # Stamping /\ Making # Stamping /\ Allocating # Stamping
      BY MakingIs DEF Magic, CellOp, SizeOp0
    <3> QED BY <3>1, <1>4 DEF Creating
  <2>1. s # <<>> /\ o = Magic /\ Tail(s) = Syncing
    BY <1>4, MakingIs
  <2>2. w = [m EXCEPT ![HDR] = "*PMEMALLOC_POOL"]
    <3>1. o.do = "cell" /\ o.at = HDR /\ o.val = "*PMEMALLOC_POOL"
      BY <2>1 DEF Magic, CellOp
    <3>2. w = [m EXCEPT ![HDR] = WrittenTo(m, o)]
      BY <3>1 DEF Effect, Stores
    <3>3. WrittenTo(m, o) = "*PMEMALLOC_POOL"
      <4> HIDE DEF o
      <4> QED BY <3>1 DEF WrittenTo
    <3> QED BY <3>2, <3>3
  <2>3. Typed(w)
    <3>1. Magic \in Ops
      BY DEF Ops
    <3> QED BY <2>1, <3>1, EffectTyped
  <2>4. \A a \in Chunk \union Cell : w[a] = m[a]
    BY <2>2, <1>0, Constants
  <2>5. g = f /\ o.do = "cell"
    BY <2>1 DEF FileAfter, Magic, CellOp
  <2> HIDE DEF w
  <2>6. Creating(w, v, Syncing, g)
    BY <2>0, <2>4, <2>5, <1>0 DEF Creating
  <2>7. Walk(w) = Walk(m) /\ Clumps(w) = Clumps(m) /\ Sound(w)
    <3>1. \A a \in Walk(m) \union Cell : w[a] = m[a]
      BY <2>4, TiledFacts DEF Sound, Typed
    <3> QED BY <3>1, <2>3, SoundSame DEF Typed
  <2> QED BY <2>0, <2>1, <2>4, <2>5, <2>6, <2>7 DEF w
<1>5. CASE s = Syncing
  <2>0. m[0] = Whole /\ f = "sized"
    <3>1. Sizing # Syncing /\ Making # Syncing /\ Allocating # Syncing
      BY MakingIs DEF SizeOp0
    <3> QED BY <3>1, <1>5 DEF Creating
  <2>1. s # <<>> /\ o = [do |-> "fsync", at |-> HDR] /\ Tail(s) = RecoverFrom(0)
    BY <1>5, MakingIs
  <2>2. w = m /\ g = "sized"
    <3>1. o \in FileOps /\ o.do = "fsync"
      BY <2>1 DEF FileOps
    <3>2. w = m
      BY <3>1, EffectNone
    <3>3. g = "sized"
      BY <3>1, <2>0 DEF FileAfter
    <3> QED BY <3>2, <3>3
  <2>3. Recovering(m, RecoverFrom(0), 0)
    <3>1. Recovered(m, 0)
      <4>1. \A b \in Clumps(m) : b \in Chunk
        BY TiledFacts DEF Sound, Typed
      <4> QED BY <4>1, Constants DEF Recovered
    <3>2. RecoverFrom(0) = <<>> \o RecoverFrom(0) /\ <<>> \in Seq(Persists)
      BY <1>0, RecoverFromIs
    <3> QED BY <3>1, <3>2, <1>0 DEF Recovering
  <2>b. o.do \notin Stores /\ o.do = "fsync"
    BY <2>1 DEF Stores
  <2> HIDE DEF w, o, g
  <2> QED BY <2>1, <2>2, <2>3, <2>b DEF w, o, g
<1> QED BY <1>1, <1>2, <1>3, <1>4, <1>5 DEF Creating

LEMMA HeadOf ==
    ASSUME NEW X, NEW q \in Seq(X), NEW r \in Seq(Ops), r # <<>>
    PROVE  q \o r # <<>> /\ Head(q \o r) \in X \union {Head(r)}
<1>1. CASE q = <<>>
  BY <1>1, Peel
<1>2. CASE q # <<>>
  BY <1>2, Peel
<1> QED BY <1>1, <1>2

LEMMA FinishingHead ==
    ASSUME NEW m, Typed(m), Sound(m), NEW c, NEW rest \in Flow, NEW s, Finishing(m, s, c, rest)
    PROVE  s # <<>> /\ Head(s).do \in Working
<1>0. c \in Clumps(m) /\ c \in Chunk /\ Tiled(m)
  BY TiledFacts DEF Finishing, Executing, Clearing, InTransit, Sound, Typed
<1>1. /\ Ending(m, c, rest) \in Seq(Ops) /\ Ending(m, c, rest) # <<>>
      /\ Head(Ending(m, c, rest)).do = "size"
  BY <1>0, EndingIs DEF Flow
<1>2. \A o \in Persists \union Clears(c) : o.do \in Working
  BY DEF Persists, Clears, ClearOp, Working
<1>3. "size" \in Working
  BY DEF Working
<1>4. PICK e : e = Ending(m, c, rest)
  OBVIOUS
<1>5. CASE Clearing(m, s, c, rest)
  <2>1. PICK q \in Seq(Clears(c) \union Persists) : s = q \o e
    BY <1>4, <1>5 DEF Clearing
  <2>2. s # <<>> /\ Head(s) \in Clears(c) \union Persists \union {Head(e)}
    BY <2>1, <1>1, <1>4, HeadOf
  <2> QED BY <2>2, <1>1, <1>2, <1>3, <1>4
<1>6. CASE Executing(m, s, c, rest)
  <2>1. PICK q \in Seq(Links(m[c], Target(m, c)) \union Persists) : s = q \o (ClearOn(c) \o e)
    BY <1>4, <1>6 DEF Executing
  <2>2. PICK l : l = ClearOn(c)
    OBVIOUS
  <2>3. l \in Seq(Clears(c) \union Persists) /\ l \in Seq(Ops)
    BY <2>2, <1>0, ClearIs DEF Flow
  <2>4. l \o e # <<>> /\ Head(l \o e) \in Clears(c) \union Persists \union {Head(e)}
    BY <2>3, <1>1, <1>4, HeadOf
  <2>5. l \o e \in Seq(Ops)
    BY <2>3, <1>1, <1>4
  <2>6. PICK r : r = l \o e
    OBVIOUS
  <2>7. s # <<>> /\ Head(s) \in Links(m[c], Target(m, c)) \union Persists \union {Head(r)}
    BY <2>1, <2>2, <2>4, <2>5, <2>6, HeadOf
  <2>8. \A o \in Links(m[c], Target(m, c)) : o.do \in Working
    BY DEF Links, CellOp, Working
  <2> QED BY <2>4, <2>6, <2>7, <2>8, <1>1, <1>2, <1>3, <1>4
<1> QED BY <1>5, <1>6 DEF Finishing

\* Up to the next scan step.
LEMMA CoalescingStep ==
    ASSUME NEW m, Typed(m), Sound(m), NEW s, Coalescing(m, s), s # <<>>,
           Head(s).do # "coalesce"
    PROVE  LET w == Effect(m, Head(s)) IN
           /\ Coalescing(w, Tail(s)) /\ Sound(w) /\ Kept(m, w)
           /\ Head(s).do \in Working
<1> DEFINE w == Effect(m, Head(s))
<1>1. ASSUME NEW c \in Chunk, Scanning(m, s, c)
      PROVE  /\ Coalescing(w, Tail(s)) /\ Sound(w) /\ Kept(m, w)
             /\ Head(s).do \in Working
  <2>1. Head(s) \in Persists /\ Scanning(m, Tail(s), c)
    BY <1>1, ScanningStep
  <2>2. w = m
    BY <2>1, EffectNone
  <2>3. Kept(m, m)
    BY DEF Kept, SameCells
  <2>4. Head(s).do \in Working
    BY <2>1 DEF Persists, Working
  <2> HIDE DEF w
  <2> QED BY <2>1, <2>2, <2>3, <2>4 DEF Coalescing
<1>2. ASSUME NEW c \in Chunk, NEW e \in Chunk, Uniting(m, s, c, e)
      PROVE  /\ Coalescing(w, Tail(s)) /\ Sound(w) /\ Kept(m, w)
             /\ Head(s).do \in Working
  <2>1. Sound(w) /\ Kept(m, w) /\ Scanning(w, Tail(s), e)
    BY <1>2, UnitingStep
  <2>2. Head(s).do \in Working
    <3> DEFINE o == [do |-> "size", at |-> c, size |-> e - c, state |-> "FREE"]
               r == Persist(c) \o Do("coalesce", e)
    <3>1. r \in Seq(Ops)
      <4>1. Persist(c) \in Seq(Ops) /\ Do("coalesce", e) \in Seq(Ops)
        BY PersistIs, ScanIs DEF Flow
      <4> QED BY <4>1
    <3>2. s = <<o>> \o r
      BY <1>2 DEF Uniting, PutSize
    <3>3. o.do \in Working
      BY DEF Working
    <3> HIDE DEF o, r
    <3> QED BY <3>1, <3>2, <3>3, OneStep
  <2> HIDE DEF w
  <2> QED BY <2>1, <2>2 DEF Coalescing
<1>3. ~Settled(m, s)
  BY DEF Settled
<1> HIDE DEF w
<1> QED BY <1>1, <1>2, <1>3 DEF Coalescing, w

LEMMA MendingStep ==
    ASSUME NEW m, Typed(m), Sound(m), NEW s, Mending(m, s), s # <<>>,
           Head(s).do \notin {"recover", "coalesce"}
    PROVE  LET w == Effect(m, Head(s)) IN
           /\ Mending(w, Tail(s)) /\ Sound(w) /\ Walk(w) \subseteq Walk(m)
           /\ Head(s).do \in Working
<1> DEFINE w == Effect(m, Head(s))
<1>0. MediumOK(m) /\ Tiled(m) /\ Walk(m) \subseteq Chunk
  BY TiledFacts DEF Typed, Sound
<1>1. ASSUME NEW c \in Chunk, Recovering(m, s, c)
      PROVE  /\ Mending(w, Tail(s)) /\ Sound(w) /\ Walk(w) \subseteq Walk(m)
             /\ Head(s).do \in Working
  <2>1. PICK q \in Seq(Persists) : s = q \o RecoverFrom(c)
    BY <1>1 DEF Recovering
  <2>2. RecoverFrom(c) \in Seq(Ops) /\ RecoverFrom(c) # <<>> /\ Head(RecoverFrom(c)).do = "recover"
    BY RecoverFromIs
  <2>3. PICK r : r = RecoverFrom(c)
    OBVIOUS
  <2>4. q # <<>>
    <3> SUFFICES ASSUME q = <<>> PROVE FALSE
      OBVIOUS
    <3>1. s = r
      BY <2>1, <2>2, <2>3, Peel
    <3> QED BY <3>1, <2>2, <2>3
  <2>5. Head(s) \in Persists /\ Tail(q) \in Seq(Persists) /\ Tail(s) = Tail(q) \o r
    BY <2>1, <2>2, <2>3, <2>4, Peel
  <2>6. w = m
    BY <2>5, EffectNone
  <2>7. Recovering(m, Tail(s), c)
    BY <2>3, <2>5, <1>1 DEF Recovering
  <2>8. Head(s).do \in Working
    BY <2>5 DEF Persists, Working
  <2> HIDE DEF w
  <2> QED BY <2>6, <2>7, <2>8 DEF Mending
<1>2. ASSUME NEW c \in Chunk, RecoveringAt(m, s, c)
      PROVE  /\ Mending(w, Tail(s)) /\ Sound(w) /\ Walk(w) \subseteq Walk(m)
             /\ Head(s).do \in Working
  <2>1. PICK rest : rest = RecoverFrom(c + m[c].size)
    OBVIOUS
  <2>2. c \in Clumps(m) /\ Recovered(m, c) /\ Finishing(m, s, c, rest) /\ c + m[c].size \in Chunk
        /\ c + m[c].size \in Walk(m) /\ m[c].size \in Nat /\ c \in Nat
    BY <1>0, <1>2, <2>1, TiledFacts, Constants DEF RecoveringAt
  <2>3. rest \in Flow
    BY <2>1, <2>2, RecoverFromIs
  <2>4. Head(s).do \in Working
    BY <2>2, <2>3, FinishingHead
  <2>5. /\ Finishing(w, Tail(s), c, rest) \/ Finished(w, Tail(s), c, rest)
        /\ Frame(m, w, c)
    BY <2>2, <2>3, FinishingStep
  <2> HIDE DEF w
  <2>6. /\ Sound(w) /\ Walk(w) = Walk(m) /\ Clumps(w) = Clumps(m) /\ w[c].size = m[c].size
        /\ \A b \in Clumps(m) \ {c} : w[b] = m[b]
    BY <2>5 DEF Frame, Same
  <2>7. Recovered(w, c)
    <3>1. \A b \in Clumps(m) : b < c => b # c
      BY <2>2, TiledFacts, <1>0
    <3> QED BY <2>2, <2>6, <3>1 DEF Recovered
  <2>8. CASE Finishing(w, Tail(s), c, rest)
    <3>1. RecoveringAt(w, Tail(s), c)
      BY <2>1, <2>2, <2>6, <2>7, <2>8 DEF RecoveringAt
    <3> QED BY <3>1, <2>4, <2>6 DEF Mending
  <2>9. CASE Finished(w, Tail(s), c, rest)
    <3>1. w[c].state \in {"ACTIVE", "FREE"} /\ Tail(s) = Persist(c) \o rest
      BY <2>9 DEF Finished
    <3>2. Persist(c) \in Seq(Persists)
      BY PersistIs
    <3>3. Recovered(w, c + m[c].size)
      <4> SUFFICES ASSUME NEW b \in Clumps(w), b < c + m[c].size
                   PROVE  w[b].state \in {"FREE", "ACTIVE"}
        BY DEF Recovered
      <4>1. b \in Walk(m) /\ b \in Nat
        BY <2>6, TiledFacts, <1>0, Constants
      <4>2. ~(c < b)
        <5> SUFFICES ASSUME c < b PROVE FALSE
          OBVIOUS
        <5>1. c \in Walk(m) /\ c + m[c].size <= b
          BY <4>1, <2>2, TiledFacts, <1>0
        <5> QED BY <5>1, <2>2, <4>1
      <4>3. b = c \/ b < c
        BY <4>1, <4>2, <2>2
      <4> QED BY <4>3, <2>7, <3>1 DEF Recovered
    <3>4. Recovering(w, Tail(s), c + m[c].size)
      BY <3>1, <3>2, <3>3, <2>1, <2>2, <2>6 DEF Recovering
    <3> QED BY <3>4, <2>2, <2>4, <2>6 DEF Mending
  <2> QED BY <2>5, <2>8, <2>9
<1>3. CASE Coalescing(m, s) /\ Recovered(m, LastClump)
  <2>1. Coalescing(w, Tail(s)) /\ Sound(w) /\ Kept(m, w) /\ Head(s).do \in Working
    BY <1>3, CoalescingStep
  <2> HIDE DEF w
  <2>2. Recovered(w, LastClump) /\ Walk(w) \subseteq Walk(m)
    BY <2>1, <1>3, KeptRecovered DEF Kept
  <2>3. Mending(w, Tail(s))
    <3>1. PICK r : r = Tail(s)
      OBVIOUS
    <3>2. Mending(w, r)
      BY <2>1, <2>2, <3>1 DEF Mending
    <3> QED BY <3>1, <3>2
  <2> QED BY <2>1, <2>2, <2>3 DEF w
<1> HIDE DEF w
<1> QED BY <1>1, <1>2, <1>3 DEF Mending, w

-----------------------------------------------------------------------------
(* The series that the calls and the recovery begin *)

LEMMA StateOpIs ==
    ASSUME NEW m, Typed(m), Tiled(m), NEW c \in Clumps(m), NEW st \in States
    PROVE  /\ PutSize(c, m[c].size, st) \in Seq(Ops) /\ Persist(c) \in Seq(Ops)
           /\ PutSize(c, m[c].size, st) \o Persist(c) \in Flow
           /\ c \in Chunk /\ m[c].size \in Chunk /\ c + m[c].size <= LastClump
<1>1. c \in Chunk /\ m[c].size \in Chunk /\ c + m[c].size <= LastClump
  BY TiledFacts, MediumFacts, Constants DEF Typed, Goes
<1>2. [do |-> "size", at |-> c, size |-> m[c].size, state |-> st] \in Ops
  BY <1>1 DEF Ops, SizeOps
<1>3. PutSize(c, m[c].size, st) \in Seq(Ops)
  BY <1>2 DEF PutSize
<1>4. Persist(c) \in Seq(Ops)
  BY <1>1, PersistIs DEF Flow
<1>5. PutSize(c, m[c].size, st) \o Persist(c) \in Flow
  <2>1. PICK n : n = m[c].size
    OBVIOUS
  <2>2. c \in Chunk /\ n \in Chunk /\ c + n <= LastClump
    BY <1>1, <2>1
  <2>3. PutSize(c, n, st) \o Persist(c) \in Flow
    BY ONLY <2>2, st \in States, FlowStore
  <2> QED BY <2>1, <2>3
<1> QED BY <1>1, <1>3, <1>4, <1>5

\* Finish, and what follows it.
LEMMA FinishIs ==
    ASSUME Typed(mem), Tiled(mem), NEW c \in Clumps(mem), NEW st \in States, NEW p,
           \A i \in OnList(mem[c]) : mem[c].ptr[i] = p, NEW rest \in Flow
    PROVE  /\ Finish(c, st) \o rest =
                ExecuteSteps(mem[c]) \o (ClearOn(c) \o (PutSize(c, mem[c].size, st) \o (Persist(c) \o rest)))
           /\ Finish(c, st) \in Seq(Ops) /\ Finish(c, st) \in Flow
           /\ ExecuteSteps(mem[c]) \in Seq(Links(mem[c], p) \union Persists)
           /\ Links(mem[c], p) \subseteq Range(ExecuteSteps(mem[c]))
<1> DEFINE e == ExecuteSteps(mem[c])
           l == ClearOn(c)
           a == PutSize(c, mem[c].size, st)
           b == Persist(c)
<1>1. a \in Seq(Ops) /\ b \in Seq(Ops) /\ a \o b \in Flow /\ c \in Chunk
  BY StateOpIs
<1>2. l \in Flow /\ e \in Flow /\ e \in Seq(Links(mem[c], p) \union Persists)
      /\ Links(mem[c], p) \subseteq Range(e)
  BY <1>1, ClearIs, ExecuteIs DEF Typed
<1>3. ExecuteOn(c) = e
  BY DEF ExecuteOn, ExecuteSteps
<1>4. Finish(c, st) = (e \o l) \o (a \o b)
  BY <1>3 DEF Finish, SetState
<1> HIDE DEF e, l, a, b
<1>5. e \in Seq(Ops) /\ l \in Seq(Ops) /\ rest \in Seq(Ops) /\ e \o l \in Flow
  BY <1>2, FlowConcat DEF Flow
<1>6. Finish(c, st) \in Flow /\ Finish(c, st) \in Seq(Ops)
  <2>1. (e \o l) \o (a \o b) \in Flow
    BY <1>1, <1>5, FlowConcat
  <2> QED BY <2>1, <1>4 DEF Flow
<1>7. PICK x : x = e \o l
  OBVIOUS
<1>8. PICK y : y = a \o (b \o rest)
  OBVIOUS
<1>9. x \in Seq(Ops) /\ y \in Seq(Ops)
  <2>1. x \in Seq(Ops)
    BY <1>5, <1>7, Regroup
  <2>2. b \o rest \in Seq(Ops)
    BY <1>1, <1>5, Regroup
  <2>3. y \in Seq(Ops)
    BY <1>1, <1>8, <2>2, Regroup
  <2> QED BY <2>1, <2>3
<1>10. (x \o (a \o b)) \o rest = x \o y
  <2>1. x \in Seq(Ops) /\ a \in Seq(Ops) /\ b \in Seq(Ops) /\ rest \in Seq(Ops)
    BY <1>1, <1>5, <1>9
  <2>2. (x \o (a \o b)) \o rest = x \o (a \o (b \o rest))
    <3>1. PICK u : u = a \o b
      OBVIOUS
    <3>2. a \in Seq(Ops) /\ b \in Seq(Ops) /\ rest \in Seq(Ops)
      BY <2>1
    <3>3. (a \o b) \o rest = a \o (b \o rest) /\ a \o b \in Seq(Ops)
      BY ONLY <3>2, Regroup
    <3>4. x \in Seq(Ops) /\ u \in Seq(Ops) /\ rest \in Seq(Ops)
      BY <2>1, <3>1, <3>3
    <3>5. (x \o u) \o rest = x \o (u \o rest)
      BY ONLY <3>4, Regroup
    <3> QED BY <3>1, <3>3, <3>5
  <2> QED BY <2>2, <1>8
<1>11. x \o y = e \o (l \o y)
  BY <1>5, <1>7, <1>9, Regroup, SMTT(30)
<1> QED BY <1>2, <1>4, <1>6, <1>7, <1>8, <1>10, <1>11 DEF e, l, a, b

\* What pmemalloc_recover does at the clump c.
LEMMA RecoverScan ==
    ASSUME Typed(mem), Sound(mem), NEW c \in Walk(mem), Recovered(mem, c)
    PROVE  LET s == RecoverSteps(c) \o Do("coalesce", 0) IN s \in Flow /\ Mending(mem, s)
<1> DEFINE s == RecoverSteps(c) \o Do("coalesce", 0)
           k == Do("coalesce", 0)
           d == Do("recover", c + mem[c].size)
           rest == RecoverFrom(c + mem[c].size)
<1>0. /\ MediumOK(mem) /\ Tiled(mem) /\ PointersOK(mem) /\ c \in Chunk
      /\ \A b \in Clumps(mem) : ClumpOK(mem, b)
      /\ k \in Flow /\ k \in Seq(Ops) /\ 0 \in Chunk /\ 0 \in Walk(mem)
  BY TiledFacts, ScanIs, Constants DEF Sound, Typed
<1>1. CASE mem[c].size = 0
  <2>1. s = k
    <3>1. s = <<>> \o k
      BY <1>1 DEF RecoverSteps
    <3> HIDE DEF k, s
    <3> QED BY <3>1, <1>0
  <2>2. Recovered(mem, LastClump)
    <3>1. c \in {0, LastClump}
      BY <1>0, <1>1 DEF Tiled
    <3>2. CASE c = LastClump
      BY <3>2
    <3>3. CASE c = 0
      <4>1. ASSUME NEW b \in Clumps(mem) PROVE FALSE
        <5>1. b # 0 /\ b \in Walk(mem) /\ b \in Nat
          BY <1>1, <3>3, <1>0, TiledFacts, Constants DEF Clumps
        <5>2. 0 < b
          BY <5>1
        <5>3. 0 \in Clumps(mem)
          BY <5>1, <5>2, <1>0, TiledFacts
        <5> QED BY <5>3, <1>1, <3>3 DEF Clumps
      <4> QED BY <4>1 DEF Recovered
    <3> QED BY <3>1, <3>2, <3>3
  <2>3. Scanning(mem, k, 0)
    <3>1. Apart(mem, 0)
      <4>1. \A b \in Clumps(mem) : b \in Nat
        BY <1>0, TiledFacts, Constants
      <4> QED BY <4>1 DEF Apart
    <3>2. k = <<>> \o k /\ <<>> \in Seq(Persists)
      <4> HIDE DEF k
      <4> QED BY <1>0
    <3> QED BY <3>1, <3>2, <1>0 DEF Scanning
  <2> HIDE DEF s, k
  <2>4. Coalescing(mem, s)
    BY <2>1, <2>3, <1>0 DEF Coalescing
  <2>5. Mending(mem, s)
    BY <2>2, <2>4 DEF Mending
  <2> QED BY <2>1, <2>5, <1>0 DEF s
<1>2. CASE mem[c].size # 0
  <2>0. c \in Clumps(mem) /\ c + mem[c].size \in Walk(mem) /\ c + mem[c].size \in Chunk
        /\ mem[c].state \in States /\ ClumpOK(mem, c) /\ mem[c].size \in Nat \ {0} /\ c \in Nat
    <3>1. c \in Clumps(mem)
      BY <1>2 DEF Clumps
    <3> QED BY <3>1, <1>0, TiledFacts, Constants
  <2>1. /\ d \in Flow /\ d \in Seq(Ops) /\ rest = d \o k /\ rest \in Flow /\ rest \in Seq(Ops)
    BY <2>0, ScanIs, RecoverFromIs DEF RecoverFrom
  <2>2. ASSUME NEW g \in Seq(Ops), RecoverSteps(c) = g \o d
        PROVE  s = g \o rest
    <3>1. s = (g \o d) \o k
      BY <2>2
    <3>2. g \in Seq(Ops) /\ d \in Seq(Ops) /\ k \in Seq(Ops)
      BY <2>1, <2>2, <1>0
    <3>3. rest = d \o k
      BY <2>1
    <3> HIDE DEF s, d, k, rest
    <3>4. (g \o d) \o k = g \o (d \o k)
      BY ONLY <3>2, Regroup
    <3> QED BY <3>1, <3>3, <3>4
  <2>3. CASE mem[c].state = "RESERVED"
    <3> DEFINE a == PutSize(c, mem[c].size, "FREE")
               b == Persist(c)
               l == ClearOn(c)
               g == l \o (a \o b)
    <3>1. l \in Flow /\ l \in Seq(Clears(c) \union Persists) /\ Clears(c) \subseteq Range(l)
      BY <1>0, ClearIs
    <3>2. a \in Seq(Ops) /\ b \in Seq(Ops) /\ a \o b \in Flow
      BY <2>0, <1>0, StateOpIs DEF States
    <3>3. RecoverSteps(c) = g \o d
      BY <1>2, <2>3 DEF RecoverSteps, SetState
    <3>4. g \in Flow /\ g \in Seq(Ops)
      <4> HIDE DEF l, a, b
      <4>1. g \in Flow
        BY <3>1, <3>2, FlowConcat
      <4> QED BY <4>1 DEF Flow
    <3>5. s = g \o rest
      <4> HIDE DEF g, s, rest, d
      <4> QED BY <3>3, <3>4, <2>2
    <3>6. s = l \o Ending(mem, c, rest)
      <4>1. Ending(mem, c, rest) = a \o (b \o rest)
        BY <2>3 DEF Ending, FinalOf
      <4>2. l \in Seq(Ops)
        BY <3>1 DEF Flow
      <4> HIDE DEF l, a, b, s, rest
      <4>3. (l \o (a \o b)) \o rest = l \o (a \o (b \o rest))
        <5>1. l \in Seq(Ops) /\ a \in Seq(Ops) /\ b \in Seq(Ops) /\ rest \in Seq(Ops)
          BY <4>2, <3>2, <2>1
        <5>2. PICK u : u = a \o b
          OBVIOUS
        <5>3. a \in Seq(Ops) /\ b \in Seq(Ops) /\ rest \in Seq(Ops)
          BY <5>1
        <5>4. (a \o b) \o rest = a \o (b \o rest) /\ a \o b \in Seq(Ops)
          BY ONLY <5>3, Regroup
        <5>5. l \in Seq(Ops) /\ u \in Seq(Ops) /\ rest \in Seq(Ops)
          BY <5>1, <5>2, <5>4
        <5>6. (l \o u) \o rest = l \o (u \o rest)
          BY ONLY <5>5, Regroup
        <5> QED BY <5>2, <5>4, <5>6
      <4> QED BY <4>1, <4>3, <3>5
    <3>7. Handed(mem, c)
      <4> SUFFICES ASSUME NEW e \in Cell, mem[e] = c PROVE FALSE
        BY <2>3 DEF Handed
      <4>1. mem[e] # NULL
        BY <1>0, Constants
      <4>2. mem[mem[e]].state \in {"ACTIVATING", "ACTIVE", "FREEING"}
        BY <4>1, <1>0 DEF PointersOK
      <4> QED BY <4>2, <2>3
    <3> HIDE DEF s, l, rest
    <3>8. Clearing(mem, s, c, rest)
      BY <3>1, <3>6, <3>7, <2>0, <2>3 DEF Clearing
    <3>9. RecoveringAt(mem, s, c)
      BY <3>8, <2>0 DEF RecoveringAt, Finishing, rest
    <3>10. s \in Flow
      <4> HIDE DEF g
      <4> QED BY <3>4, <3>5, <2>1, FlowConcat
    <3> QED BY <3>9, <3>10, <1>0 DEF Mending, s
  <2>4. ASSUME NEW st \in {"ACTIVE", "FREE"}, mem[c].state \in {"ACTIVATING", "FREEING"},
               st = FinalOf(mem, c), RecoverSteps(c) = Finish(c, st) \o d
        PROVE  s \in Flow /\ Mending(mem, s)
    <3>1. st \in States /\ c \in InTransit(mem)
      BY <2>0, <2>4 DEF States, InTransit
    <3>2. \A i \in OnList(mem[c]) : mem[c].ptr[i] = Target(mem, c)
      BY <2>0, <2>4 DEF ClumpOK, ActivatingOK, FreeingOK, ListSets, Target
    <3>3. /\ Finish(c, st) \o rest =
                ExecuteSteps(mem[c]) \o (ClearOn(c) \o (PutSize(c, mem[c].size, st) \o (Persist(c) \o rest)))
          /\ Finish(c, st) \in Seq(Ops) /\ Finish(c, st) \in Flow
          /\ ExecuteSteps(mem[c]) \in Seq(Links(mem[c], Target(mem, c)) \union Persists)
          /\ Links(mem[c], Target(mem, c)) \subseteq Range(ExecuteSteps(mem[c]))
      <4>1. PICK p : p = Target(mem, c)
        OBVIOUS
      <4>2. Typed(mem) /\ Tiled(mem) /\ c \in Clumps(mem) /\ st \in States /\ rest \in Flow
            /\ \A i \in OnList(mem[c]) : mem[c].ptr[i] = p
        BY <3>1, <3>2, <2>0, <2>1, <1>0, <4>1
      <4> HIDE DEF rest
      <4> QED BY ONLY <4>1, <4>2, FinishIs
    <3>4. s = Finish(c, st) \o rest
      <4> HIDE DEF s, rest, d
      <4> QED BY <3>3, <2>2, <2>4
    <3>5. s = ExecuteSteps(mem[c]) \o (ClearOn(c) \o Ending(mem, c, rest))
      <4> HIDE DEF s, rest
      <4> QED BY <3>3, <3>4, <2>4 DEF Ending
    <3>6. \A e \in Named(mem[c]) : CellOp(e, Target(mem, c)) \in Range(ExecuteSteps(mem[c]))
      BY <3>3 DEF Links
    <3> HIDE DEF s, rest
    <3>7. Executing(mem, s, c, rest)
      BY <3>1, <3>3, <3>5, <3>6 DEF Executing
    <3>8. RecoveringAt(mem, s, c)
      BY <3>7, <2>0 DEF RecoveringAt, Finishing, rest
    <3>9. s \in Flow
      BY <3>3, <3>4, <2>1, FlowConcat
    <3> QED BY <3>8, <3>9, <1>0 DEF Mending
  <2>5. CASE mem[c].state = "ACTIVATING"
    <3>1. RecoverSteps(c) = Finish(c, "ACTIVE") \o d
      BY <1>2, <2>5 DEF RecoverSteps
    <3> HIDE DEF s, d
    <3> QED BY <3>1, <2>4, <2>5 DEF FinalOf, s
  <2>6. CASE mem[c].state = "FREEING"
    <3>1. RecoverSteps(c) = Finish(c, "FREE") \o d
      BY <1>2, <2>6 DEF RecoverSteps
    <3> HIDE DEF s, d
    <3> QED BY <3>1, <2>4, <2>6 DEF FinalOf, s
  <2>7. CASE mem[c].state \in {"FREE", "ACTIVE"}
    <3>1. RecoverSteps(c) = <<>> \o d
      BY <1>2, <2>7 DEF RecoverSteps
    <3>2. s = rest
      <4>1. s = <<>> \o rest
        <5>1. <<>> \in Seq(Ops)
          OBVIOUS
        <5> HIDE DEF s, d, rest
        <5> QED BY <5>1, <3>1, <2>2
      <4> HIDE DEF s, rest
      <4> QED BY <4>1, <2>1
    <3>3. Recovered(mem, c + mem[c].size)
      <4> SUFFICES ASSUME NEW b \in Clumps(mem), b < c + mem[c].size
                   PROVE  mem[b].state \in {"FREE", "ACTIVE"}
        BY DEF Recovered
      <4>1. b \in Walk(mem) /\ b \in Nat
        BY TiledFacts, <1>0, Constants
      <4>2. ~(c < b)
        <5> SUFFICES ASSUME c < b PROVE FALSE
          OBVIOUS
        <5>1. c + mem[c].size <= b
          BY <4>1, TiledFacts, <1>0
        <5> QED BY <5>1, <2>0, <4>1
      <4>3. b = c \/ b < c
        BY <4>1, <4>2, <2>0
      <4> QED BY <4>3, <2>7 DEF Recovered
    <3>4. Recovering(mem, s, c + mem[c].size)
      <4>1. s = <<>> \o RecoverFrom(c + mem[c].size) /\ <<>> \in Seq(Persists)
        <5> HIDE DEF s
        <5> QED BY <3>2, <2>1
      <4> HIDE DEF s, rest
      <4> QED BY <4>1, <3>3, <2>0 DEF Recovering
    <3> HIDE DEF s, rest
    <3> QED BY <3>2, <3>4, <2>0, <2>1 DEF Mending, s
  <2> QED BY <2>0, <2>3, <2>5, <2>6, <2>7 DEF States
<1> QED BY <1>1, <1>2

LEMMA StartIs ==
    ASSUME Typed(mem), Sound(mem), NEW c, NEW st, Ready(mem, c, st), NEW rest \in Flow,
           NEW q \in Seq(Persists)
    PROVE  LET g == SetState(c, st) \o Finish(c, OutOf(st)) IN
           /\ q \o (g \o rest) \in Flow /\ Starting(mem, q \o (g \o rest), c, st, rest)
           /\ g \in Seq(Ops)
           /\ g \o rest = Onset(mem, c, st, rest)
<1> DEFINE a == PutSize(c, mem[c].size, st)
           b == Persist(c)
           f == Finish(c, OutOf(st))
           w == Way(mem[c], c, st, rest)
<1>0. /\ Tiled(mem) /\ c \in Clumps(mem) /\ c \in Chunk /\ MediumOK(mem) /\ ClumpOK(mem, c)
      /\ st \in States /\ OutOf(st) \in States
  BY TiledFacts DEF Sound, Typed, Ready, States, OutOf
<1>1. a \in Seq(Ops) /\ b \in Seq(Ops) /\ a \o b \in Flow
  BY <1>0, StateOpIs
<1>2. \A i \in OnList(mem[c]) : mem[c].ptr[i] = IF st = "ACTIVATING" THEN c ELSE NULL
  BY <1>0 DEF Ready, ClumpOK, ActiveOK, ListSets
<1>3. f \o rest = ExecuteSteps(mem[c]) \o (ClearOn(c) \o (PutSize(c, mem[c].size, OutOf(st)) \o (Persist(c) \o rest)))
      /\ f \in Seq(Ops)
  <2>1. PICK p : p = IF st = "ACTIVATING" THEN c ELSE NULL
    OBVIOUS
  <2>2. PICK t : t = OutOf(st)
    OBVIOUS
  <2>3. Typed(mem) /\ Tiled(mem) /\ c \in Clumps(mem) /\ t \in States /\ rest \in Flow
        /\ \A i \in OnList(mem[c]) : mem[c].ptr[i] = p
    BY <1>0, <1>2, <2>1, <2>2
  <2>4. Finish(c, t) \o rest = ExecuteSteps(mem[c]) \o (ClearOn(c) \o (PutSize(c, mem[c].size, t) \o (Persist(c) \o rest)))
        /\ Finish(c, t) \in Seq(Ops)
    BY ONLY <2>3, FinishIs, ZenonT(40)
  <2> QED BY <2>2, <2>4
<1>4. w = b \o (f \o rest)
  BY <1>3 DEF Way
<1>5. a \o w \in Flow
  BY <1>0, WayIs
<1> HIDE DEF a, b, f, w
<1>6. rest \in Seq(Ops)
  BY DEF Flow
<1>7. SetState(c, st) = a \o b
  BY DEF SetState, a, b
<1>8. PICK u : u = a \o b
  OBVIOUS
<1>9. u \in Seq(Ops)
  BY <1>1, <1>8, Regroup
<1>10. (u \o f) \o rest = u \o (f \o rest) /\ u \o f \in Seq(Ops) /\ f \o rest \in Seq(Ops)
  <2>1. u \in Seq(Ops) /\ f \in Seq(Ops) /\ rest \in Seq(Ops)
    BY <1>3, <1>6, <1>9
  <2> QED BY ONLY <2>1, Regroup, SMTT(30)
<1>11. PICK y : y = f \o rest
  OBVIOUS
<1>12. (a \o b) \o y = a \o (b \o y)
  <2>1. a \in Seq(Ops) /\ b \in Seq(Ops) /\ y \in Seq(Ops)
    BY <1>1, <1>10, <1>11
  <2> QED BY ONLY <2>1, Regroup, SMTT(30)
<1>13. (SetState(c, st) \o f) \o rest = a \o w
  BY <1>4, <1>7, <1>8, <1>10, <1>11, <1>12
<1>14. q \in Flow
  <2>1. q \in Seq(Persists \union ScanOps \union BlankOps \union FileOps)
    <3>1. \A i \in 1..Len(q) : q[i] \in Persists
      OBVIOUS
    <3> QED BY <3>1
  <2> QED BY <2>1, FlowPlain
<1>15. PICK z : z = a \o w
  OBVIOUS
<1>16. q \o z \in Flow
  BY <1>5, <1>14, <1>15, FlowConcat
<1>17. Starting(mem, q \o z, c, st, rest)
  BY <1>15 DEF Starting, a, w
<1>18. (SetState(c, st) \o f) \o rest = Onset(mem, c, st, rest)
  BY <1>13 DEF a, w, Onset
<1> QED BY <1>7, <1>8, <1>10, <1>13, <1>15, <1>16, <1>17, <1>18 DEF f

LEMMA ActivateIs ==
    ASSUME Typed(mem), Sound(mem), NEW c, Ready(mem, c, "ACTIVATING")
    PROVE  /\ ActivateSteps(c) \in Flow
           /\ Starting(mem, ActivateSteps(c), c, "ACTIVATING", <<>>)
           /\ \A k \in 1..mem[c].size : PersistOp(c + k) \in Range(ActivateSteps(c))
           /\ \E q \in Seq(Persists) :
                /\ ActivateSteps(c) = q \o Onset(mem, c, "ACTIVATING", <<>>)
                /\ \A k \in 1..mem[c].size : PersistOp(c + k) \in Range(q)
<1> DEFINE q == PersistData(c)
           a == SetState(c, "ACTIVATING")
           f == Finish(c, "ACTIVE")
           g == a \o f
<1>0. /\ Tiled(mem) /\ c \in Clumps(mem) /\ c \in Chunk /\ mem[c].size \in Nat
      /\ c + mem[c].size <= LastClump /\ MediumOK(mem)
  BY TiledFacts DEF Sound, Typed, Ready, Goes
<1>1. /\ q \in Seq(Persists) /\ q \in Flow
      /\ \A k \in 1..mem[c].size : PersistOp(c + k) \in Range(q)
  BY <1>0, PersistDataIs DEF PersistData
<1>2. <<>> \in Flow /\ OutOf("ACTIVATING") = "ACTIVE"
  BY FlowEmpty DEF OutOf
<1>3. /\ q \o (g \o <<>>) \in Flow /\ Starting(mem, q \o (g \o <<>>), c, "ACTIVATING", <<>>)
      /\ g \in Seq(Ops)
      /\ g \o <<>> = Onset(mem, c, "ACTIVATING", <<>>)
  <2> HIDE DEF q
  <2> QED BY <1>1, <1>2, StartIs
<1>4. g \o <<>> = g
  <2> HIDE DEF g
  <2> QED BY <1>3
<1>5. ActivateSteps(c) = q \o g
  <2>1. q \in Seq(Ops) /\ a \in Seq(Ops) /\ f \in Seq(Ops)
    <3>1. q \in Seq(Ops)
      BY <1>1 DEF Flow
    <3>2. a \in Seq(Ops)
      <4>1. "ACTIVATING" \in States
        BY DEF States
      <4>2. PutSize(c, mem[c].size, "ACTIVATING") \o Persist(c) \in Flow
        BY <1>0, <4>1, StateOpIs
      <4> QED BY <4>2 DEF Flow, SetState
    <3>3. f \in Seq(Ops)
      <4>1. \A i \in OnList(mem[c]) : mem[c].ptr[i] = c
        BY DEF Ready, ListSets
      <4>2. "ACTIVE" \in States
        BY DEF States
      <4> QED BY <4>1, <4>2, <1>0, <1>2, FinishIs
    <3> QED BY <3>1, <3>2, <3>3
  <2>2. ActivateSteps(c) = (q \o a) \o f
    BY DEF ActivateSteps
  <2> HIDE DEF q, a, f
  <2>3. (q \o a) \o f = q \o (a \o f)
    BY ONLY <2>1, Regroup
  <2> QED BY <2>2, <2>3
<1>6. \A k \in 1..mem[c].size : PersistOp(c + k) \in Range(ActivateSteps(c))
  <2>1. Range(q \o g) = Range(q) \union Range(g)
    <3>1. q \in Seq(Ops) /\ g \in Seq(Ops)
      BY <1>1, <1>3 DEF Flow
    <3> HIDE DEF q, g
    <3> QED BY ONLY <3>1, RangeConcat
  <2> HIDE DEF q, g
  <2> QED BY <2>1, <1>1, <1>5
<1> HIDE DEF q, g
<1>7. \E z \in Seq(Persists) :
            /\ ActivateSteps(c) = z \o Onset(mem, c, "ACTIVATING", <<>>)
            /\ \A k \in 1..mem[c].size : PersistOp(c + k) \in Range(z)
  <2>1. ActivateSteps(c) = q \o Onset(mem, c, "ACTIVATING", <<>>)
    BY <1>3, <1>4, <1>5
  <2> USE <1>1
  <2> WITNESS q \in Seq(Persists)
  <2> QED BY <2>1, <1>1
<1> QED BY <1>3, <1>4, <1>5, <1>6, <1>7

LEMMA FreeIs ==
    ASSUME Typed(mem), Sound(mem), NEW c, Ready(mem, c, "FREEING")
    PROVE  FreeSteps(c) \in Flow /\ Starting(mem, FreeSteps(c), c, "FREEING", Do("coalesce", 0))
<1> DEFINE g == SetState(c, "FREEING") \o Finish(c, "FREE")
           k == Do("coalesce", 0)
           s == g \o k
<1>1. FreeSteps(c) = s
  BY DEF FreeSteps, Ready
<1>2. k \in Flow /\ k \in Seq(Ops) /\ <<>> \in Seq(Persists) /\ OutOf("FREEING") = "FREE"
  BY ScanIs, Constants DEF OutOf
<1>3. /\ <<>> \o s \in Flow /\ Starting(mem, <<>> \o s, c, "FREEING", k) /\ g \in Seq(Ops)
  BY <1>2, StartIs
<1>4. s \in Seq(Ops)
  <2> HIDE DEF g, k
  <2> QED BY <1>2, <1>3
<1>5. <<>> \o s = s
  <2> HIDE DEF s
  <2> QED BY <1>4
<1> HIDE DEF s
<1> QED BY <1>1, <1>3, <1>5

LEMMA DiscardIs ==
    ASSUME Typed(mem), Sound(mem), NEW c \in Clumps(mem), mem[c].state = "RESERVED"
    PROVE  FreeSteps(c) \in Flow /\ Clearing(mem, FreeSteps(c), c, Do("coalesce", 0))
<1> DEFINE a == PutSize(c, mem[c].size, "FREE")
           b == Persist(c)
           k == Do("coalesce", 0)
           s == a \o (b \o k)
<1>0. Tiled(mem) /\ PointersOK(mem) /\ MediumOK(mem) /\ c \in Chunk
  BY TiledFacts DEF Sound, Typed
<1>1. a \in Seq(Ops) /\ b \in Seq(Ops) /\ a \o b \in Flow
  BY <1>0, StateOpIs DEF States
<1>2. k \in Flow /\ k \in Seq(Ops)
  BY ScanIs, Constants
<1>3. FreeSteps(c) = (a \o b) \o k
  BY DEF FreeSteps, SetState
<1> HIDE DEF a, b, k
<1>4. (a \o b) \o k \in Flow
  BY <1>1, <1>2, FlowConcat
<1>5. (a \o b) \o k = s /\ b \o k \in Seq(Ops)
  <2>1. a \in Seq(Ops) /\ b \in Seq(Ops) /\ k \in Seq(Ops)
    BY <1>1, <1>2
  <2> QED BY ONLY <2>1, Regroup, SMTT(30)
<1>6. Handed(mem, c)
  <2> SUFFICES ASSUME NEW e \in Cell, mem[e] = c PROVE FALSE
    BY DEF Handed
  <2>1. mem[e] # NULL
    BY <1>0, Constants
  <2>2. mem[mem[e]].state \in {"ACTIVATING", "ACTIVE", "FREEING"}
    BY <2>1, <1>0 DEF PointersOK
  <2> QED BY <2>2
<1>7. s = Ending(mem, c, k)
  BY DEF Ending, FinalOf, a, b
<1>8. s \in Seq(Ops)
  BY <1>4, <1>5 DEF Flow
<1> HIDE DEF s
<1>9. s = <<>> \o Ending(mem, c, k) /\ <<>> \in Seq(Clears(c) \union Persists)
  BY <1>7, <1>8
<1>10. Clearing(mem, s, c, k)
  BY <1>6, <1>9 DEF Clearing
<1> QED BY <1>3, <1>4, <1>5, <1>10 DEF k

LEMMA ReserveIs ==
    ASSUME Typed(mem), Sound(mem), NEW c \in Clumps(mem), mem[c].state = "FREE",
           NEW n \in Nat, 0 < n, n <= mem[c].size
    PROVE  /\ ReserveSteps(c, n) \in Flow /\ Reserving(mem, ReserveSteps(c, n), c, n)
           /\ mem[c].size - n >= 2 => PersistOp(c + n) \in Range(ReserveSteps(c, n))
<1> DEFINE s == ReserveSteps(c, n)
           r == ResetOn(c)
           t == Taking(mem, c, n)
<1>0. Tiled(mem) /\ MediumOK(mem) /\ c \in Chunk
  BY TiledFacts DEF Sound, Typed
<1>1. /\ r \in Flow /\ r \in Seq(Resets(c) \union Persists) /\ Clears(c) \subseteq Range(r)
      /\ r \in Seq(Ops)
  BY <1>0, ResetIs DEF Flow
<1>2. t \in Flow /\ r \o t \in Flow /\ t \in Seq(Ops)
  BY <1>0, PlacingIs DEF Flow
<1>3. Take(c, n) = t
  BY DEF Take, Taking, Portion
<1>4. CASE mem[c].size - n >= 2
  <2> DEFINE x == Do("blank", c + n)
             a == PutSize(c + n, mem[c].size - n, "FREE")
             b == Persist(c + n)
             p == Placing(mem, c, n)
  <2>1. /\ c + n \in Chunk /\ mem[c].size - n \in Chunk
        /\ c + n + (mem[c].size - n) <= LastClump
        /\ p \in Flow /\ x \o p \in Flow /\ PersistOp(c + n) \in Range(p)
    BY <1>0, <1>4, PlacingIs
  <2>2. x \in Seq(Ops) /\ a \in Seq(Ops) /\ b \in Seq(Ops)
    <3>1. PICK y, z : y = c + n /\ z = mem[c].size - n
      OBVIOUS
    <3>2. y \in Chunk /\ z \in Chunk /\ y + z <= LastClump
      BY <2>1, <3>1
    <3>3. [do |-> "blank", at |-> y] \in Ops /\ [do |-> "size", at |-> y, size |-> z, state |-> "FREE"] \in Ops
      BY <3>2 DEF Ops, BlankOps, SizeOps, States
    <3>4. Persist(y) \in Seq(Ops)
      BY <3>2, PersistIs DEF Flow
    <3> QED BY <3>1, <3>3, <3>4 DEF Do, PutSize
  <2>3. s = (((x \o a) \o b) \o r) \o t
    BY <1>3, <1>4 DEF ReserveSteps, Split
  <2>4. p = a \o (b \o (r \o t))
    BY DEF Placing
  <2> HIDE DEF x, a, b, p, s, r, t
  <2>5. PICK u, v, w : u = x \o a /\ v = u \o b /\ w = r \o t
    OBVIOUS
  <2>6. u \in Seq(Ops) /\ w \in Seq(Ops)
    BY <2>2, <2>5, <1>1, <1>2, Regroup
  <2>7. v \in Seq(Ops)
    BY <2>2, <2>5, <2>6, Regroup
  <2>8. (v \o r) \o t = v \o (r \o t)
    <3>1. v \in Seq(Ops) /\ r \in Seq(Ops) /\ t \in Seq(Ops)
      BY <2>7, <1>1, <1>2
    <3> QED BY ONLY <3>1, Regroup
  <2>9. (u \o b) \o w = u \o (b \o w) /\ b \o w \in Seq(Ops)
    <3>1. u \in Seq(Ops) /\ b \in Seq(Ops) /\ w \in Seq(Ops)
      BY <2>2, <2>6
    <3> QED BY ONLY <3>1, Regroup
  <2>10. PICK y : y = b \o w
    OBVIOUS
  <2>11. (x \o a) \o y = x \o (a \o y)
    <3>1. x \in Seq(Ops) /\ a \in Seq(Ops) /\ y \in Seq(Ops)
      BY <2>2, <2>9, <2>10
    <3> QED BY ONLY <3>1, Regroup
  <2>12. s = x \o p
    BY <2>3, <2>4, <2>5, <2>8, <2>9, <2>10, <2>11
  <2>13. PersistOp(c + n) \in Range(x \o p)
    <3>1. x \in Seq(Ops) /\ p \in Seq(Ops)
      BY <2>1, <2>2 DEF Flow
    <3>2. Range(x \o p) = Range(x) \union Range(p)
      BY ONLY <3>1, RangeConcat
    <3> QED BY <3>2, <2>1
  <2>14. Reserving(mem, s, c, n)
    BY <2>12, <1>4 DEF Reserving, x, p
  <2> QED BY <2>1, <2>12, <2>13, <2>14 DEF s
<1>5. CASE ~(mem[c].size - n >= 2)
  <2>1. s = r \o t
    <3>1. s = (<<>> \o r) \o t
      BY <1>3, <1>5 DEF ReserveSteps, Split
    <3>2. <<>> \o r = r
      <4> HIDE DEF r
      <4> QED BY <1>1
    <3> QED BY <3>1, <3>2
  <2>2. WillClear(mem, c, r)
    BY <1>1 DEF WillClear, Clears
  <2>3. Portion(mem, c, n) = mem[c].size
    BY <1>5 DEF Portion
  <2> HIDE DEF s, r
  <2>4. Reserving(mem, s, c, n)
    BY <2>1, <2>2, <2>3, <1>1 DEF Reserving
  <2> QED BY <2>1, <2>4, <1>2, <1>5 DEF s
<1> QED BY <1>4, <1>5
=============================================================================
