---------------------- MODULE LLSCLockFreeQueue_proof ----------------------
(***************************************************************************)
(* Theorems of the LL/SC queue, for any threads, nodes and values.  The    *)
(* argument is about versions: the end at version v stands at the v-th     *)
(* node ever linked, a thread that holds version v knows that node and, in *)
(* SC, the one after it, and the slot an SC writes still holds the node's  *)
(* predecessor only while the version is the one the thread read.          *)
(***************************************************************************)
EXTENDS LLSCLockFreeQueue, FiniteSetTheorems, TLAPS
-----------------------------------------------------------------------------
(* Sums: a sum is the cardinality of a set of pairs *)

\* The sum of a function on s, as the number of pairs below its graph.
Under(f, s) == UNION {{x} \X (1..f[x]) : x \in s}

Total(f, s) == Cardinality(Under(f, s))

LEMMA UnderFinite ==
    ASSUME NEW s, IsFiniteSet(s), NEW f, \A x \in s : f[x] \in Nat
    PROVE  IsFiniteSet(Under(f, s)) /\ Total(f, s) \in Nat
<1> DEFINE C == {{x} \X (1..f[x]) : x \in s}
<1>1. \A x \in s : IsFiniteSet({x} \X (1..f[x]))
  <2> TAKE x \in s
  <2>1. IsFiniteSet({x})
    BY FS_Singleton
  <2>2. 1 \in Int /\ f[x] \in Int
    OBVIOUS
  <2>3. IsFiniteSet(1..f[x])
    BY <2>2, FS_Interval
  <2> QED BY <2>1, <2>3, FS_Product
<1>2. IsFiniteSet(C)
  <2>1. [x \in s |-> {x} \X (1..f[x])] \in Surjection(s, C)
    BY DEF Surjection
  <2> QED BY <2>1, FS_Surjection
<1>3. IsFiniteSet(UNION C)
  BY <1>1, <1>2, FS_UNION
<1> QED BY <1>3, FS_CardinalityType DEF Under, Total

\* One summand more.
LEMMA TotalAdd ==
    ASSUME NEW s, IsFiniteSet(s), NEW f, \A y \in s : f[y] \in Nat, NEW x \in s
    PROVE  Total(f, s) = f[x] + Total(f, s \ {x})
<1> DEFINE A == {x} \X (1..f[x])
           B == Under(f, s \ {x})
<1>1. IsFiniteSet(s \ {x})
  BY FS_RemoveElement
<1>2. IsFiniteSet(B) /\ Cardinality(B) \in Nat
  BY <1>1, UnderFinite DEF Total
<1>3. IsFiniteSet(A) /\ Cardinality(A) = f[x]
  <2>1. IsFiniteSet({x}) /\ Cardinality({x}) = 1
    BY FS_Singleton
  <2>2. IsFiniteSet(1..f[x]) /\ Cardinality(1..f[x]) = f[x]
    BY FS_Interval
  <2>3. IsFiniteSet(A) /\ Cardinality(A) = Cardinality({x}) * Cardinality(1..f[x])
    BY <2>1, <2>2, FS_Product
  <2> QED BY <2>1, <2>2, <2>3
<1>4. Under(f, s) = A \union B /\ A \cap B = {}
  BY DEF Under
<1> HIDE DEF A, B
<1>5. Cardinality(A \union B) = Cardinality(A) + Cardinality(B) - Cardinality(A \cap B)
  BY <1>2, <1>3, FS_Union
<1>6. Cardinality(A \cap B) = 0
  BY <1>4, FS_EmptySet
<1>7. Total(f, s) = f[x] + Cardinality(B)
  BY <1>2, <1>3, <1>4, <1>5, <1>6 DEF Total
<1> QED BY <1>7 DEF B, Total

LEMMA TotalNone ==
    ASSUME NEW f PROVE Total(f, {}) = 0
BY FS_EmptySet DEF Total, Under

LEMMA TotalSame ==
    ASSUME NEW s, NEW f, NEW g, \A x \in s : f[x] = g[x]
    PROVE  Total(f, s) = Total(g, s)
<1>1. {{x} \X (1..f[x]) : x \in s} = {{x} \X (1..g[x]) : x \in s}
  OBVIOUS
<1> QED BY <1>1 DEF Total, Under

\* A change of one summand.
LEMMA TotalChange ==
    ASSUME NEW s, IsFiniteSet(s), NEW f, NEW g, NEW x \in s, NEW d \in Nat,
           \A y \in s : f[y] \in Nat, g[x] = f[x] + d,
           \A y \in s \ {x} : g[y] = f[y]
    PROVE  Total(g, s) = Total(f, s) + d
<1>1. \A y \in s : g[y] \in Nat
  OBVIOUS
<1>2. Total(g, s) = g[x] + Total(g, s \ {x}) /\ Total(f, s) = f[x] + Total(f, s \ {x})
  BY <1>1, TotalAdd
<1>3. Total(g, s \ {x}) = Total(f, s \ {x})
  BY TotalSame
<1>4. IsFiniteSet(s \ {x})
  BY FS_RemoveElement
<1>5. Total(f, s \ {x}) \in Nat /\ f[x] \in Nat
  BY <1>4, UnderFinite
<1> QED BY <1>2, <1>3, <1>5

\* The recursion of the folds with +: take away an element and add its summand.
FoldsTo(h, f, S) ==
    h = [s \in SUBSET S |->
            IF s = {} THEN 0
            ELSE f[CHOOSE x \in s : TRUE] + h[s \ {CHOOSE x \in s : TRUE}]]

LEMMA TotalFolds ==
    ASSUME NEW S, IsFiniteSet(S), NEW f, \A y \in S : f[y] \in Nat
    PROVE  FoldsTo([s \in SUBSET S |-> Total(f, s)], f, S)
<1> DEFINE g == [s \in SUBSET S |-> Total(f, s)]
<1>1. ASSUME NEW s \in SUBSET S, s # {}
      PROVE  g[s] = f[CHOOSE x \in s : TRUE] + g[s \ {CHOOSE x \in s : TRUE}]
  <2>1. IsFiniteSet(s) /\ \A y \in s : f[y] \in Nat
    BY FS_Subset
  <2>2. PICK x \in s : x = CHOOSE y \in s : TRUE
    BY <1>1
  <2>3. Total(f, s) = f[x] + Total(f, s \ {x})
    BY <2>1, TotalAdd
  <2> QED BY <2>2, <2>3
<1>2. g[{}] = 0
  BY TotalNone
<1>3. g = [s \in SUBSET S |->
            IF s = {} THEN 0
            ELSE f[CHOOSE x \in s : TRUE] + g[s \ {CHOOSE x \in s : TRUE}]]
  BY <1>1, <1>2
<1> QED BY <1>3 DEF FoldsTo

\* A fold with + is the sum, in whatever order it takes the summands.
LEMMA FoldsToTotal ==
    ASSUME NEW S, IsFiniteSet(S), NEW f, \A y \in S : f[y] \in Nat,
           NEW h, FoldsTo(h, f, S)
    PROVE  h[S] = Total(f, S)
<1>1. ASSUME NEW s \in SUBSET S
      PROVE  IsFiniteSet(s) /\ \A y \in s : f[y] \in Nat
  BY FS_Subset
<1>2. \A s \in SUBSET S : h[s] = IF s = {} THEN 0
            ELSE f[CHOOSE x \in s : TRUE] + h[s \ {CHOOSE x \in s : TRUE}]
  BY DEF FoldsTo
<1> DEFINE Wrong == {s \in SUBSET S : h[s] # Total(f, s)}
<1>3. SUFFICES ASSUME Wrong # {} PROVE FALSE
  OBVIOUS
<1>4. Wrong \subseteq FiniteSubsetsOf(S)
  BY <1>1 DEF FiniteSubsetsOf
<1>5. PICK s \in Wrong : \A r \in Wrong : <<r, s>> \notin StrictSubsetOrdering(S)
  BY <1>3, <1>4, WFMin, FS_StrictSubsetOrderingWellFounded
<1>6. s # {}
  BY <1>2, <1>5, TotalNone
<1>7. PICK x \in s : x = CHOOSE y \in s : TRUE
  BY <1>6
<1>8. h[s] = f[x] + h[s \ {x}]
  BY <1>2, <1>5, <1>6, <1>7
<1>9. s \ {x} \in SUBSET S /\ s \in SUBSET S
  BY <1>5
<1>10. <<s \ {x}, s>> \in StrictSubsetOrdering(S)
  BY <1>7, <1>9 DEF StrictSubsetOrdering
<1>11. h[s \ {x}] = Total(f, s \ {x})
  BY <1>5, <1>9, <1>10
<1>12. Total(f, s) = f[x] + Total(f, s \ {x})
  BY <1>1, <1>9, TotalAdd
<1> QED BY <1>5, <1>8, <1>11, <1>12
-----------------------------------------------------------------------------
(* The inductive invariant *)

Looking == {"ll_entry", "ll_node", "ll_cas"}
InSC == {"sc_slot", "sc_read", "sc_cas", "transfer"}
Leaving == {"release", "nlp"}
Emptying == {"unlink", "unlink_cas"}
Label == Looking \union InSC \union Leaving \union Emptying
            \union {"idle", "link", "next", "value", "ret"}

Local == [op : {"none", "enq", "deq"}, ver : Nat, mynode : Addr, nd : Addr,
          target : Addr, success : BOOLEAN, e : Nat \X Int]

Typed ==
    /\ TypeOK
    /\ pc \in [Threads -> Label] /\ loc \in [Threads -> Local]
    /\ sawEmpty \in [Threads -> BOOLEAN]

\* The linked nodes, from the dummy on, are a list in both directions.
Listed ==
    /\ chain[1] = 0 /\ pred[0] = 1
    /\ \A i \in 1..Len(chain) : chain[i] # 1 /\ chain[i] < allocated
    /\ \A i, j \in 1..Len(chain) : chain[i] = chain[j] => i = j
    /\ \A i \in 1..(Len(chain) - 1) :
        next[chain[i]] = chain[i + 1] /\ pred[chain[i + 1]] = chain[i]
    /\ next[chain[Len(chain)]] = NULL
    /\ \A n \in Node : (\A i \in 1..Len(chain) : chain[i] # n) => next[n] = NULL

\* What precedes the node of version v.
Before(v) == IF v = 0 THEN 1 ELSE chain[v]

\* EndsFollowList, in terms of the list alone.
EndAt(x) ==
    /\ var[x].ver + 1 <= Len(chain)
    /\ Current(x) = chain[var[x].ver + 1]
    /\ \/ Other(x) = Before(var[x].ver)
       \/ var[x].ver + 2 <= Len(chain) /\ Other(x) = chain[var[x].ver + 2]

Followed == (\A x \in Ends : EndAt(x)) /\ Len(chain) <= var["tail"].ver + 2

\* cas never stores a flag, so that no node is ever freed.
Unflagged == freed = {} /\ \A n \in Node : exit[n].nlP = FALSE /\ exit[n].toBeFreed = FALSE

Private ==
    \A t \in Threads :
        /\ loc[t].nd # NULL => loc[t].nd < allocated
        /\ \A u \in Threads : loc[t].nd # NULL /\ loc[t].nd = loc[u].nd => t = u

\* t holds the version and the node of its LL, which the end may have left behind.
At(t) == loc[t].ver <= var[End(t)].ver /\ loc[t].mynode = chain[loc[t].ver + 1]

\* The node t makes current is the one after the node it holds.
Helps(t) == loc[t].ver + 2 <= Len(chain) /\ loc[t].target = chain[loc[t].ver + 2]

\* The other slot holds that node: t or a faster thread has written it.
Won(t) == loc[t].ver = var[End(t)].ver => Other(End(t)) = chain[loc[t].ver + 2]

\* The node of a pending enq.
Fresh(t) ==
    /\ loc[t].nd \in Node /\ 2 <= loc[t].nd /\ loc[t].nd < allocated
    /\ \A i \in 1..Len(chain) : chain[i] # loc[t].nd

Found(t) == Helps(t) /\ sawEmpty[t] = FALSE
Empty(t) == loc[t].target = NULL /\ sawEmpty[t] = TRUE /\ loc[t].success = FALSE

\* What a thread knows of the queue, step by step of its call.
KnowsVersion(t) ==
    /\ pc[t] \in {"ll_node", "ll_cas"} => loc[t].e[1] <= var[End(t)].ver
    /\ pc[t] = "ll_cas" /\ loc[t].e[1] = var[End(t)].ver =>
        loc[t].mynode = chain[loc[t].e[1] + 1]
    /\ pc[t] \in InSC \union Leaving \union Emptying \union {"link", "next"} => At(t)
    /\ pc[t] \in InSC => Helps(t)
    /\ pc[t] \in {"sc_read", "sc_cas", "transfer"} => Won(t)
    /\ pc[t] = "sc_cas" => loc[t].e[1] = loc[t].ver

KnowsEnq(t) ==
    loc[t].op = "enq" =>
        /\ sawEmpty[t] = FALSE
        /\ pc[t] \notin Emptying \union {"idle", "next", "value"}
        /\ pc[t] \in Looking \union {"link"} => Fresh(t) /\ loc[t].target # loc[t].nd
        /\ pc[t] \in InSC \union Leaving => Helps(t) /\ (loc[t].target = loc[t].nd \/ Fresh(t))
        /\ pc[t] = "ret" => loc[t].nd = NULL \/ loc[t].target = loc[t].nd

KnowsDeq(t) ==
    loc[t].op = "deq" =>
        /\ pc[t] \notin {"idle", "link"}
        /\ pc[t] \in Looking \union {"next"} \union InSC => sawEmpty[t] = FALSE
        /\ pc[t] \in Looking \union {"next", "sc_slot"} => loc[t].success = FALSE
        /\ pc[t] \in Leaving => Found(t) \/ Empty(t)
        /\ pc[t] \in Emptying => Empty(t)
        /\ pc[t] = "value" => Found(t) /\ loc[t].success = TRUE
        /\ pc[t] = "ret" => (Found(t) /\ loc[t].success = TRUE) \/ Empty(t)

KnowsIdle(t) ==
    /\ loc[t].op = "none" => pc[t] = "idle"
    /\ pc[t] = "idle" => loc[t] = NoLocals /\ sawEmpty[t] = FALSE

KnowsOf(t) == KnowsVersion(t) /\ KnowsEnq(t) /\ KnowsDeq(t) /\ KnowsIdle(t)

Inv == Typed /\ Listed /\ Followed /\ Unflagged /\ Private /\ \A t \in Threads : KnowsOf(t)

-----------------------------------------------------------------------------
(* The state, as the provers need it *)

LEMMA Slots ==
    \A v \in Nat : /\ v % 2 \in 0..1 /\ 1 - (v % 2) \in 0..1
                   /\ (v + 1) % 2 = 1 - (v % 2) /\ 1 - ((v + 1) % 2) = v % 2
                   /\ v % 2 # 1 - (v % 2)
                   /\ \A i \in 0..1 : i = v % 2 \/ i = 1 - (v % 2)
OBVIOUS

LEMMA AppendFacts ==
    ASSUME NEW S, NEW s \in Seq(S), NEW x \in S
    PROVE  /\ Append(s, x) \in Seq(S)
           /\ Len(s) \in Nat
           /\ Len(Append(s, x)) = Len(s) + 1
           /\ \A i \in 1..Len(s) : Append(s, x)[i] = s[i]
           /\ Append(s, x)[Len(s) + 1] = x
OBVIOUS

LEMMA Basics ==
    ASSUME Typed
    PROVE  /\ Len(chain) \in Nat /\ 1 <= Len(chain)
           /\ \A i \in 1..Len(chain) : chain[i] \in Node
           /\ allocated \in Nat /\ 2 <= allocated /\ allocated <= MaxNodes
           /\ NULL \notin Node /\ 0 \in Node /\ 1 \in Node /\ Node \subseteq Nat
           /\ \A t \in Threads : End(t) \in Ends
           /\ \A x \in Ends : /\ var[x].ver \in Nat /\ var[x].count \in Int
                              /\ \A i \in 0..1 : var[x].ptr[i] \in Node
                              /\ Current(x) \in Node /\ Other(x) \in Node
<1>1. Len(chain) \in Nat /\ 1 <= Len(chain) /\ \A i \in 1..Len(chain) : chain[i] \in Node
  BY DEF Typed, TypeOK
<1>2. /\ allocated \in Nat /\ 2 <= allocated /\ allocated <= MaxNodes
      /\ NULL \notin Node /\ 0 \in Node /\ 1 \in Node /\ Node \subseteq Nat
  BY LLSCAssumption DEF Typed, TypeOK, Node
<1>3. \A t \in Threads : End(t) \in Ends
  BY DEF End, Ends
<1>4. \A x \in Ends : /\ var[x].ver \in Nat /\ var[x].count \in Int
                      /\ \A i \in 0..1 : var[x].ptr[i] \in Node
  BY DEF Typed, TypeOK
<1>5. \A x \in Ends : Current(x) \in Node /\ Other(x) \in Node
  BY <1>4, Slots DEF Current, Other
<1> QED BY <1>1, <1>2, <1>3, <1>4, <1>5

LEMMA LocalFacts ==
    ASSUME Typed, NEW t \in Threads
    PROVE  /\ loc[t] \in Local /\ pc[t] \in Label /\ sawEmpty[t] \in BOOLEAN
           /\ loc[t].op \in {"none", "enq", "deq"} /\ loc[t].ver \in Nat
           /\ loc[t].mynode \in Addr /\ loc[t].nd \in Addr /\ loc[t].target \in Addr
           /\ loc[t].success \in BOOLEAN /\ loc[t].e \in Nat \X Int
           /\ loc[t].e[1] \in Nat /\ loc[t].e[2] \in Int
<1>1. loc[t] \in Local /\ pc[t] \in Label /\ sawEmpty[t] \in BOOLEAN
  BY DEF Typed
<1>2. loc[t].e \in Nat \X Int
  BY <1>1 DEF Local
<1> QED BY <1>1, <1>2 DEF Local

\* A thread that holds a node holds a linked one, and its predecessor is there.
LEMMA HeldNode ==
    ASSUME Typed, Listed, Followed, NEW t \in Threads, At(t)
    PROVE  /\ loc[t].ver + 1 <= Len(chain) /\ loc[t].mynode \in Node
           /\ loc[t].mynode < allocated
           /\ pred[loc[t].mynode] = Before(loc[t].ver) /\ pred[loc[t].mynode] \in Node
           /\ next[loc[t].mynode] = IF loc[t].ver + 1 = Len(chain) THEN NULL
                                    ELSE chain[loc[t].ver + 2]
<1> DEFINE v == loc[t].ver
<1>1. v \in Nat /\ v + 1 <= Len(chain)
  BY LocalFacts, Basics DEF At, Followed, EndAt
<1>2. loc[t].mynode = chain[v + 1] /\ v + 1 \in 1..Len(chain)
  BY <1>1, Basics DEF At
<1>3. loc[t].mynode \in Node /\ loc[t].mynode < allocated
  BY <1>2, Basics DEF Listed
<1>4. pred[loc[t].mynode] = Before(v) /\ Before(v) \in Node
  <2>1. CASE v = 0
    BY <2>1, <1>2, Basics DEF Listed, Before
  <2>2. CASE v # 0
    <3>1. v \in 1..(Len(chain) - 1) /\ v \in 1..Len(chain)
      BY <1>1, <2>2, Basics
    <3> QED BY <3>1, <2>2, <1>2, Basics DEF Listed, Before
  <2> QED BY <2>1, <2>2
<1>5. next[loc[t].mynode] = IF v + 1 = Len(chain) THEN NULL ELSE chain[v + 2]
  <2>1. CASE v + 1 = Len(chain)
    BY <2>1, <1>2 DEF Listed
  <2>2. CASE v + 1 # Len(chain)
    <3>0. Len(chain) \in Nat
      BY Basics
    <3>1. v + 1 \in 1..(Len(chain) - 1) /\ (v + 1) + 1 = v + 2
      <4> HIDE DEF v
      <4> QED BY <1>1, <2>2, <3>0
    <3>2. next[chain[v + 1]] = chain[v + 2]
      BY <3>1 DEF Listed
    <3> QED BY <3>2, <2>2, <1>2
  <2> QED BY <2>1, <2>2
<1> QED BY <1>1, <1>2, <1>3, <1>4, <1>5
-----------------------------------------------------------------------------
(* What one thread may do to the others *)

OnlyMoves(t) ==
    \A u \in Threads \ {t} : pc'[u] = pc[u] /\ loc'[u] = loc[u] /\ sawEmpty'[u] = sawEmpty[u]

\* The list only grows, by the node of t, and the ends only move forward.
Respects(t) ==
    /\ Len(chain') \in Nat /\ Len(chain') >= Len(chain)
    /\ \A i \in 1..Len(chain) : chain'[i] = chain[i]
    /\ \A i \in 1..Len(chain') : i > Len(chain) =>
        chain'[i] = loc[t].nd /\ loc[t].nd # NULL
    /\ allocated' \in Nat /\ allocated' >= allocated
    /\ \A x \in Ends :
        /\ var'[x].ver \in Nat /\ var'[x].ver >= var[x].ver
        /\ var'[x].ver = var[x].ver /\ var[x].ver + 2 <= Len(chain)
                /\ Other(x) = chain[var[x].ver + 2]
            => Other(x)' = chain[var[x].ver + 2]

LEMMA OthersKnow ==
    ASSUME Inv, NEW t \in Threads, OnlyMoves(t), Respects(t)
    PROVE  \A u \in Threads \ {t} : KnowsOf(u)'
<1> SUFFICES ASSUME NEW u \in Threads \ {t} PROVE KnowsOf(u)'
  OBVIOUS
<1>a. Typed /\ Listed /\ Followed /\ Private /\ KnowsOf(u)
  BY DEF Inv
<1>1. pc'[u] = pc[u] /\ loc'[u] = loc[u] /\ sawEmpty'[u] = sawEmpty[u] /\ End(u)' = End(u)
  BY DEF OnlyMoves, End
<1>2. At(u) => At(u)'
  <2> SUFFICES ASSUME At(u) PROVE At(u)'
    OBVIOUS
  <2>1. loc[u].ver + 1 \in 1..Len(chain) /\ loc[u].ver \in Nat
    BY <1>a, HeldNode, LocalFacts, Basics
  <2>2. var'[End(u)].ver >= var[End(u)].ver /\ var'[End(u)].ver \in Nat /\ var[End(u)].ver \in Nat
    BY <1>a, Basics DEF Respects
  <2>3. chain'[loc[u].ver + 1] = chain[loc[u].ver + 1]
    BY <2>1 DEF Respects
  <2>4. loc[u].ver <= var'[End(u)].ver
    BY <2>1, <2>2 DEF At
  <2>5. At(u)' <=> loc'[u].ver <= var'[End(u)'].ver /\ loc'[u].mynode = chain'[loc'[u].ver + 1]
    BY DEF At
  <2> QED BY <1>1, <2>3, <2>4, <2>5 DEF At
<1>3. Helps(u) => Helps(u)'
  <2> SUFFICES ASSUME Helps(u) PROVE Helps(u)'
    OBVIOUS
  <2>1. loc[u].ver + 2 \in 1..Len(chain)
    BY <1>a, LocalFacts, Basics, SMTT(30) DEF Helps
  <2>2. chain'[loc[u].ver + 2] = chain[loc[u].ver + 2]
    BY <2>1 DEF Respects
  <2>3. Len(chain) \in Nat /\ Len(chain') \in Nat /\ Len(chain') >= Len(chain)
    BY <1>a, Basics DEF Respects
  <2>4. Helps(u)' <=> /\ loc'[u].ver + 2 <= Len(chain')
                      /\ loc'[u].target = chain'[loc'[u].ver + 2]
    BY DEF Helps
  <2>5. loc[u].ver + 2 <= Len(chain')
    BY <2>1, <2>3
  <2> QED BY <1>1, <2>2, <2>4, <2>5 DEF Helps
<1>4. At(u) /\ Helps(u) /\ Won(u) => Won(u)'
  <2> SUFFICES ASSUME At(u), Helps(u), Won(u), loc[u].ver = var'[End(u)].ver
               PROVE  Other(End(u))' = chain'[loc[u].ver + 2]
    BY <1>1 DEF Won
  <2>1. var'[End(u)].ver >= var[End(u)].ver /\ var'[End(u)].ver \in Nat /\ var[End(u)].ver \in Nat
    BY <1>a, Basics DEF Respects
  <2>2. loc[u].ver = var[End(u)].ver /\ var'[End(u)].ver = var[End(u)].ver
    BY <2>1, <1>a, LocalFacts DEF At
  <2>3. Other(End(u)) = chain[var[End(u)].ver + 2] /\ var[End(u)].ver + 2 <= Len(chain)
    BY <2>2 DEF Won, Helps
  <2>4. Other(End(u))' = chain[var[End(u)].ver + 2]
    <3>1. PICK x \in Ends : x = End(u)
      BY <1>a, Basics
    <3>2. Other(x)' = chain[var[x].ver + 2]
      BY <2>2, <2>3, <3>1 DEF Respects
    <3> QED BY <1>1, <3>1, <3>2 DEF Other
  <2>5. var[End(u)].ver + 2 \in 1..Len(chain)
    BY <2>1, <2>3, <1>a, Basics
  <2> QED BY <2>2, <2>4, <2>5 DEF Respects
<1>5. Fresh(u) => Fresh(u)'
  <2> SUFFICES ASSUME Fresh(u) PROVE Fresh(u)'
    OBVIOUS
  <2>1. loc[u].nd \in Nat /\ loc[u].nd < allocated' /\ loc[u].nd # NULL
    BY <1>a, Basics DEF Fresh, Respects
  <2>2. loc[u].nd # loc[t].nd
    BY <1>a, <2>1 DEF Private
  <2>3. \A i \in 1..Len(chain') : chain'[i] # loc[u].nd
    <3> SUFFICES ASSUME NEW i \in 1..Len(chain') PROVE chain'[i] # loc[u].nd
      OBVIOUS
    <3>1. CASE i \in 1..Len(chain)
      BY <3>1 DEF Fresh, Respects
    <3>2. CASE i > Len(chain)
      BY <3>2, <2>2 DEF Respects
    <3> QED BY <3>1, <3>2, <1>a, Basics DEF Respects
  <2> QED BY <1>1, <2>1, <2>3 DEF Fresh
<1>6. KnowsVersion(u)'
  <2>1. var'[End(u)].ver >= var[End(u)].ver /\ var'[End(u)].ver \in Nat /\ var[End(u)].ver \in Nat
        /\ loc[u].e[1] \in Nat
    BY <1>a, Basics, LocalFacts DEF Respects
  <2>2. pc[u] \in {"ll_node", "ll_cas"} => loc[u].e[1] <= var'[End(u)].ver
    BY <1>a, <2>1 DEF KnowsOf, KnowsVersion
  <2>3. pc[u] = "ll_cas" /\ loc[u].e[1] = var'[End(u)].ver =>
            loc[u].mynode = chain'[loc[u].e[1] + 1]
    <3> SUFFICES ASSUME pc[u] = "ll_cas", loc[u].e[1] = var'[End(u)].ver
                 PROVE  loc[u].mynode = chain'[loc[u].e[1] + 1]
      OBVIOUS
    <3>1. loc[u].e[1] = var[End(u)].ver
      BY <2>1, <1>a DEF KnowsOf, KnowsVersion
    <3>2. loc[u].mynode = chain[loc[u].e[1] + 1]
      BY <3>1, <1>a DEF KnowsOf, KnowsVersion
    <3>3. loc[u].e[1] + 1 \in 1..Len(chain)
      BY <3>1, <2>1, <1>a, Basics DEF Followed, EndAt
    <3> QED BY <3>2, <3>3 DEF Respects
  <2>4. pc[u] \in InSC \union Leaving \union Emptying \union {"link", "next"} => At(u)'
    BY <1>a, <1>2 DEF KnowsOf, KnowsVersion
  <2>5. pc[u] \in InSC => Helps(u)'
    BY <1>a, <1>3 DEF KnowsOf, KnowsVersion
  <2>6. pc[u] \in {"sc_read", "sc_cas", "transfer"} => Won(u)'
    BY <1>a, <1>4 DEF KnowsOf, KnowsVersion, InSC
  <2>7. pc[u] = "sc_cas" => loc[u].e[1] = loc[u].ver
    BY <1>a DEF KnowsOf, KnowsVersion
  <2> QED BY <1>1, <2>2, <2>3, <2>4, <2>5, <2>6, <2>7 DEF KnowsVersion
<1>7. KnowsEnq(u)'
  BY <1>a, <1>1, <1>3, <1>5 DEF KnowsOf, KnowsEnq
<1>8. KnowsDeq(u)'
  <2>1. Found(u) => Found(u)'
    BY <1>1, <1>3 DEF Found
  <2>2. Empty(u) => Empty(u)'
    BY <1>1 DEF Empty
  <2> QED BY <1>a, <1>1, <2>1, <2>2 DEF KnowsOf, KnowsDeq
<1>9. KnowsIdle(u)'
  BY <1>a, <1>1 DEF KnowsOf, KnowsIdle
<1> QED BY <1>6, <1>7, <1>8, <1>9 DEF KnowsOf

LEMMA StepOf ==
    ASSUME Inv, NEW t \in Threads, OnlyMoves(t), Respects(t), KnowsOf(t)',
           Typed', Listed', Followed', Unflagged', Private'
    PROVE  Inv'
<1>1. \A u \in Threads : KnowsOf(u)'
  BY OthersKnow
<1> QED BY <1>1 DEF Inv

\* The list and the slots stay; counts and tags may change.
Still ==
    /\ UNCHANGED <<next, pred, allocated, chain>>
    /\ \A x \in Ends : var'[x].ver = var[x].ver /\ var'[x].ptr = var[x].ptr

LEMMA StillShape ==
    ASSUME Still
    PROVE  \A x \in Ends : Current(x)' = Current(x) /\ Other(x)' = Other(x)
BY DEF Still, Current, Other

LEMMA StillKnows ==
    ASSUME Typed, Still, NEW t \in Threads
    PROVE  /\ loc'[t].op = loc[t].op /\ loc'[t].ver = loc[t].ver
                /\ loc'[t].mynode = loc[t].mynode /\ At(t) => At(t)'
           /\ loc'[t].ver = loc[t].ver /\ loc'[t].target = loc[t].target /\ Helps(t)
                => Helps(t)'
           /\ loc'[t].op = loc[t].op /\ loc'[t].ver = loc[t].ver /\ Won(t) => Won(t)'
           /\ loc'[t].nd = loc[t].nd /\ Fresh(t) => Fresh(t)'
<1>1. End(t) \in Ends /\ (loc'[t].op = loc[t].op => End(t)' = End(t))
  BY Basics DEF End
<1>2. var'[End(t)].ver = var[End(t)].ver
  BY <1>1 DEF Still
<1>3. loc'[t].op = loc[t].op => Other(End(t))' = Other(End(t))
  BY <1>1 DEF Still, Other
<1> QED BY <1>1, <1>2, <1>3 DEF Still, At, Helps, Won, Fresh

LEMMA QuietStep ==
    ASSUME Inv, NEW t \in Threads, Typed', Still, Unflagged', OnlyMoves(t), KnowsOf(t)',
           loc'[t].nd = loc[t].nd \/ loc'[t].nd = NULL
    PROVE  Inv'
<1>a. Typed /\ Listed /\ Followed /\ Private
  BY DEF Inv
<1>1. Listed'
  BY <1>a DEF Still, Listed
<1>2. Followed'
  <2>1. \A x \in Ends : EndAt(x)'
    <3> SUFFICES ASSUME NEW x \in Ends PROVE EndAt(x)'
      OBVIOUS
    <3>1. Current(x)' = Current(x) /\ Other(x)' = Other(x)
      BY StillShape
    <3>2. Before(var[x].ver)' = Before(var[x].ver)
      BY DEF Still, Before
    <3> QED BY <1>a, <3>1, <3>2 DEF Followed, EndAt, Still
  <2> QED BY <2>1, <1>a DEF Followed, Still, Ends
<1>3. Private'
  BY <1>a DEF Private, OnlyMoves, Still
<1>4. Respects(t)
  <2>1. \A x \in Ends : Other(x)' = Other(x)
    BY StillShape
  <2> QED BY <1>a, <2>1, Basics DEF Respects, Still
<1> QED BY <1>1, <1>2, <1>3, <1>4, StepOf
-----------------------------------------------------------------------------
(* The steps that leave the list and the slots *)

\* var' of a step that changes a count.
LEMMA CountOnly ==
    ASSUME Typed, NEW x \in Ends, NEW c \in Int, var' = [var EXCEPT ![x].count = c]
    PROVE  /\ var' \in [Ends -> [ptr : [0..1 -> Node], ver : Nat, count : Int]]
           /\ \A y \in Ends : var'[y].ver = var[y].ver /\ var'[y].ptr = var[y].ptr
BY DEF Typed, TypeOK

LEMMA LLEntryInv == ASSUME Inv, NEW t \in Threads, LLEntry(t) PROVE Inv'
<1>a. Typed /\ Followed /\ Unflagged /\ KnowsOf(t)
  BY DEF Inv
<1>b. loc[t] \in Local /\ pc[t] = "ll_entry" /\ End(t) \in Ends
  BY <1>a, LocalFacts, Basics DEF LLEntry
<1> DEFINE r == [loc[t] EXCEPT !.e = Entry(End(t))]
<1>c. r.e = <<var[End(t)].ver, var[End(t)].count>> /\ r \in Local
      /\ r.e[1] = var[End(t)].ver
      /\ r.op = loc[t].op /\ r.ver = loc[t].ver /\ r.mynode = loc[t].mynode
      /\ r.nd = loc[t].nd /\ r.target = loc[t].target /\ r.success = loc[t].success
  BY <1>a, <1>b, Basics DEF Local, Entry
<1>1. /\ loc' = [loc EXCEPT ![t] = r] /\ pc' = [pc EXCEPT ![t] = "ll_node"]
      /\ UNCHANGED <<var, nodes, history>>
  BY DEF LLEntry, Goto
<1> HIDE DEF r
<1>2. loc'[t] = r /\ pc'[t] = "ll_node" /\ sawEmpty'[t] = sawEmpty[t]
  BY <1>a, <1>1 DEF Typed, history
<1>3. Typed' /\ OnlyMoves(t)
  BY <1>a, <1>1, <1>b, <1>c DEF Typed, TypeOK, nodes, history, Label, Looking, OnlyMoves
<1>4. Still /\ Unflagged'
  BY <1>a, <1>1 DEF Still, Unflagged, nodes, history
<1>5. End(t)' = End(t) /\ var'[End(t)].ver = var[End(t)].ver /\ var[End(t)].ver \in Nat
  BY <1>1, <1>2, <1>c, <1>a, <1>b, Basics DEF End
<1>6. KnowsOf(t)'
  <2>1. KnowsVersion(t)'
    BY <1>2, <1>5, <1>c DEF KnowsVersion, InSC, Leaving, Emptying
  <2>2. KnowsEnq(t)'
    BY <1>2, <1>c, <1>a, <1>b, <1>4, StillKnows
       DEF KnowsOf, KnowsEnq, InSC, Leaving, Emptying, Looking
  <2>3. KnowsDeq(t)' /\ KnowsIdle(t)'
    BY <1>2, <1>c, <1>a, <1>b
       DEF KnowsOf, KnowsDeq, KnowsIdle, InSC, Leaving, Emptying, Looking
  <2> QED BY <2>1, <2>2, <2>3 DEF KnowsOf
<1> QED BY <1>2, <1>3, <1>4, <1>6, <1>c, QuietStep

LEMMA LLNodeInv == ASSUME Inv, NEW t \in Threads, LLNode(t) PROVE Inv'
<1>a. Typed /\ Followed /\ Unflagged /\ KnowsOf(t)
  BY DEF Inv
<1>b. loc[t] \in Local /\ pc[t] = "ll_node" /\ End(t) \in Ends
      /\ loc[t].e[1] \in Nat /\ loc[t].e[1] % 2 \in 0..1
  BY <1>a, LocalFacts, Basics, Slots DEF LLNode
<1> DEFINE m == var[End(t)].ptr[loc[t].e[1] % 2]
           r == [loc[t] EXCEPT !.mynode = m]
<1>c. m \in Addr /\ (loc[t].e[1] = var[End(t)].ver => m = chain[loc[t].e[1] + 1])
  BY <1>a, <1>b, Basics DEF Addr, Current, Followed, EndAt
<1>1. /\ loc' = [loc EXCEPT ![t] = r] /\ pc' = [pc EXCEPT ![t] = "ll_cas"]
      /\ UNCHANGED <<var, nodes, history>>
  BY DEF LLNode, Goto
<1> HIDE DEF m
<1>d. r.mynode = m /\ r \in Local /\ r.e = loc[t].e
      /\ r.op = loc[t].op /\ r.ver = loc[t].ver
      /\ r.nd = loc[t].nd /\ r.target = loc[t].target /\ r.success = loc[t].success
  BY <1>b, <1>c DEF Local
<1> HIDE DEF r
<1>2. loc'[t] = r /\ pc'[t] = "ll_cas" /\ sawEmpty'[t] = sawEmpty[t]
  BY <1>a, <1>1 DEF Typed, history
<1>3. Typed' /\ OnlyMoves(t)
  BY <1>a, <1>1, <1>b, <1>d DEF Typed, TypeOK, nodes, history, Label, Looking, OnlyMoves
<1>4. Still /\ Unflagged'
  BY <1>a, <1>1 DEF Still, Unflagged, nodes, history
<1>5. End(t)' = End(t) /\ var' = var /\ chain' = chain
  BY <1>1, <1>2, <1>d DEF End, history
<1>6. KnowsOf(t)'
  <2>1. KnowsVersion(t)'
    BY <1>2, <1>5, <1>a, <1>b, <1>c, <1>d DEF KnowsOf, KnowsVersion, InSC, Leaving, Emptying
  <2>2. KnowsEnq(t)'
    BY <1>2, <1>d, <1>a, <1>b, <1>4, StillKnows
       DEF KnowsOf, KnowsEnq, InSC, Leaving, Emptying, Looking
  <2>3. KnowsDeq(t)' /\ KnowsIdle(t)'
    BY <1>2, <1>d, <1>a, <1>b
       DEF KnowsOf, KnowsDeq, KnowsIdle, InSC, Leaving, Emptying, Looking
  <2> QED BY <2>1, <2>2, <2>3 DEF KnowsOf
<1> QED BY <1>2, <1>3, <1>4, <1>6, <1>d, QuietStep

LEMMA LLCasInv == ASSUME Inv, NEW t \in Threads, LLCas(t) PROVE Inv'
<1>a. Typed /\ Followed /\ Unflagged /\ KnowsOf(t)
  BY DEF Inv
<1>b. loc[t] \in Local /\ pc[t] = "ll_cas" /\ End(t) \in Ends
      /\ loc[t].e[1] \in Nat /\ loc[t].op \in {"none", "enq", "deq"}
  BY <1>a, LocalFacts, Basics DEF LLCas
<1>1. CASE Entry(End(t)) # loc[t].e
  <2>1. pc' = [pc EXCEPT ![t] = "ll_entry"] /\ UNCHANGED <<var, loc, nodes, history>>
    BY <1>1 DEF LLCas, Goto
  <2>2. loc'[t] = loc[t] /\ pc'[t] = "ll_entry" /\ sawEmpty'[t] = sawEmpty[t]
    BY <1>a, <2>1 DEF Typed, history
  <2>3. Typed' /\ OnlyMoves(t)
    BY <1>a, <2>1 DEF Typed, TypeOK, nodes, history, Label, Looking, OnlyMoves
  <2>4. Still /\ Unflagged'
    BY <1>a, <2>1 DEF Still, Unflagged, nodes, history
  <2>5. KnowsOf(t)'
    <3>1. KnowsVersion(t)'
      BY <2>2 DEF KnowsVersion, InSC, Leaving, Emptying
    <3>2. KnowsEnq(t)'
      BY <2>2, <1>a, <1>b, <2>4, StillKnows
         DEF KnowsOf, KnowsEnq, InSC, Leaving, Emptying, Looking
    <3>3. KnowsDeq(t)' /\ KnowsIdle(t)'
      BY <2>2, <1>a, <1>b
         DEF KnowsOf, KnowsDeq, KnowsIdle, InSC, Leaving, Emptying, Looking
    <3> QED BY <3>1, <3>2, <3>3 DEF KnowsOf
  <2> QED BY <2>2, <2>3, <2>4, <2>5, QuietStep
<1>2. CASE Entry(End(t)) = loc[t].e
  <2> DEFINE z == <<0, 0>>
             r == [loc[t] EXCEPT !.ver = loc[t].e[1], !.e = z]
             l == IF loc[t].op = "enq" THEN "link" ELSE "next"
  <2>1. /\ var' = [var EXCEPT ![End(t)].count = var[End(t)].count + 1]
        /\ loc' = [loc EXCEPT ![t] = r]
        /\ pc' = [pc EXCEPT ![t] = l]
        /\ UNCHANGED <<nodes, history>>
    BY <1>2 DEF LLCas, Goto
  <2>z. z \in Nat \X Int
    OBVIOUS
  <2>c. loc[t].e[1] = var[End(t)].ver /\ loc[t].mynode = chain[loc[t].e[1] + 1]
    BY <1>2, <1>a, <1>b DEF Entry, KnowsOf, KnowsVersion
  <2>d. r \in Local /\ r.ver = loc[t].e[1] /\ r.mynode = loc[t].mynode
        /\ r.op = loc[t].op /\ r.nd = loc[t].nd /\ r.target = loc[t].target
        /\ r.success = loc[t].success
    <3> HIDE DEF z
    <3> QED BY <2>z, <1>b DEF Local
  <2> HIDE DEF r
  <2>e. l \in Label /\ (loc[t].op = "enq" => l = "link") /\ (loc[t].op # "enq" => l = "next")
    BY DEF Label
  <2> HIDE DEF l
  <2>2. loc'[t] = r /\ pc'[t] = l /\ sawEmpty'[t] = sawEmpty[t]
    BY <1>a, <2>1 DEF Typed, history
  <2>f. /\ var' \in [Ends -> [ptr : [0..1 -> Node], ver : Nat, count : Int]]
        /\ \A y \in Ends : var'[y].ver = var[y].ver /\ var'[y].ptr = var[y].ptr
    <3>1. var[End(t)].count + 1 \in Int
      BY <1>a, <1>b, Basics
    <3> QED BY <3>1, <2>1, <1>a, <1>b, CountOnly
  <2>3. Typed' /\ OnlyMoves(t)
    BY <1>a, <2>1, <2>d, <2>e, <2>f DEF Typed, TypeOK, nodes, history, OnlyMoves
  <2>4. Still /\ Unflagged'
    BY <1>a, <2>1, <2>f DEF Still, Unflagged, nodes, history
  <2>5. KnowsOf(t)'
    <3>0. End(t)' = End(t) /\ var'[End(t)].ver = var[End(t)].ver /\ var[End(t)].ver \in Nat
          /\ chain' = chain
      BY <2>1, <2>2, <2>d, <2>f, <1>a, <1>b, Basics DEF End, history
    <3>1. KnowsVersion(t)'
      BY <2>2, <3>0, <2>c, <2>d, <2>e DEF KnowsVersion, At, InSC, Leaving, Emptying
    <3>2. KnowsEnq(t)'
      BY <2>2, <2>d, <2>e, <1>a, <1>b, <2>4, StillKnows
         DEF KnowsOf, KnowsEnq, InSC, Leaving, Emptying, Looking
    <3>3. KnowsDeq(t)' /\ KnowsIdle(t)'
      BY <2>2, <2>d, <2>e, <1>a, <1>b
         DEF KnowsOf, KnowsDeq, KnowsIdle, InSC, Leaving, Emptying, Looking
    <3> QED BY <3>1, <3>2, <3>3 DEF KnowsOf
  <2> QED BY <2>2, <2>3, <2>4, <2>5, <2>d, QuietStep
<1> QED BY <1>1, <1>2

LEMMA DeqNextInv == ASSUME Inv, NEW t \in Threads, DeqNext(t) PROVE Inv'
<1>a. Typed /\ Listed /\ Followed /\ Unflagged /\ KnowsOf(t)
  BY DEF Inv
<1> DEFINE n == next[loc[t].mynode]
           r == [loc[t] EXCEPT !.target = n]
           l == IF n = NULL THEN "unlink" ELSE "sc_slot"
<1>b. loc[t] \in Local /\ pc[t] = "next" /\ End(t) \in Ends /\ At(t)
  BY <1>a, LocalFacts, Basics DEF DeqNext, KnowsOf, KnowsVersion
<1>c. /\ n \in Addr
      /\ n # NULL => loc[t].ver + 2 <= Len(chain) /\ n = chain[loc[t].ver + 2]
  <2>1. /\ loc[t].ver + 1 <= Len(chain) /\ loc[t].mynode \in Node
        /\ n = IF loc[t].ver + 1 = Len(chain) THEN NULL ELSE chain[loc[t].ver + 2]
    BY <1>a, <1>b, HeldNode
  <2>2. n \in Addr
    BY <2>1, <1>a DEF Typed, TypeOK
  <2> HIDE DEF n
  <2> QED BY <2>1, <2>2, <1>a, Basics, LocalFacts
<1>d. loc[t].op = "deq" /\ loc[t].success = FALSE
  BY <1>a, <1>b, LocalFacts DEF KnowsOf, KnowsEnq, KnowsIdle, KnowsDeq, Looking
<1>1. /\ loc' = [loc EXCEPT ![t] = r] /\ pc' = [pc EXCEPT ![t] = l]
      /\ sawEmpty' = [sawEmpty EXCEPT ![t] = (n = NULL)]
      /\ UNCHANGED <<var, nodes, chain, unlinked>>
  BY DEF DeqNext, Goto
<1> HIDE DEF n
<1>e. r \in Local /\ r.target = n /\ r.mynode = loc[t].mynode /\ r.ver = loc[t].ver
      /\ r.op = loc[t].op /\ r.nd = loc[t].nd /\ r.success = loc[t].success
  BY <1>b, <1>c DEF Local
<1>f. l \in Label /\ (n = NULL => l = "unlink") /\ (n # NULL => l = "sc_slot")
  BY DEF Label, Emptying, InSC
<1> HIDE DEF r, l
<1>2. /\ loc'[t] = r /\ pc'[t] = l
      /\ n = NULL => sawEmpty'[t] = TRUE
      /\ n # NULL => sawEmpty'[t] = FALSE
  BY <1>a, <1>1 DEF Typed
<1>3. Typed' /\ OnlyMoves(t)
  BY <1>a, <1>1, <1>b, <1>e, <1>f DEF Typed, TypeOK, nodes, OnlyMoves
<1>4. Still /\ Unflagged'
  BY <1>a, <1>1 DEF Still, Unflagged, nodes
<1>5. At(t)' /\ (n # NULL => Helps(t)')
  BY <1>2, <1>e, <1>a, <1>b, <1>c, <1>4, StillKnows DEF Helps, Still
<1>6. KnowsOf(t)'
  <2>1. KnowsVersion(t)'
    BY <1>2, <1>5, <1>f DEF KnowsVersion, InSC, Leaving, Emptying
  <2>2. KnowsEnq(t)' /\ KnowsIdle(t)'
    BY <1>2, <1>d, <1>e, <1>f DEF KnowsEnq, KnowsIdle
  <2>3. KnowsDeq(t)'
    BY <1>2, <1>d, <1>e, <1>f
       DEF KnowsDeq, Empty, InSC, Leaving, Emptying, Looking
  <2> QED BY <2>1, <2>2, <2>3 DEF KnowsOf
<1> QED BY <1>2, <1>3, <1>4, <1>6, <1>e, QuietStep

LEMMA SCReadInv == ASSUME Inv, NEW t \in Threads, SCRead(t) PROVE Inv'
<1>a. Typed /\ Followed /\ Unflagged /\ KnowsOf(t)
  BY DEF Inv
<1>b. loc[t] \in Local /\ pc[t] = "sc_read" /\ End(t) \in Ends
  BY <1>a, LocalFacts, Basics DEF SCRead
<1>1. CASE var[End(t)].ver = loc[t].ver
  <2> DEFINE r == [loc[t] EXCEPT !.e = Entry(End(t))]
  <2>1. /\ loc' = [loc EXCEPT ![t] = r] /\ pc' = [pc EXCEPT ![t] = "sc_cas"]
        /\ UNCHANGED <<var, nodes, history>>
    BY <1>1 DEF SCRead, Goto
  <2>c. r \in Local /\ r.e[1] = loc[t].ver
        /\ r.op = loc[t].op /\ r.ver = loc[t].ver /\ r.mynode = loc[t].mynode
        /\ r.nd = loc[t].nd /\ r.target = loc[t].target /\ r.success = loc[t].success
    <3>1. Entry(End(t)) \in Nat \X Int /\ Entry(End(t))[1] = loc[t].ver
      BY <1>1, <1>a, <1>b, Basics DEF Entry
    <3> QED BY <3>1, <1>b DEF Local
  <2> HIDE DEF r
  <2>2. loc'[t] = r /\ pc'[t] = "sc_cas" /\ sawEmpty'[t] = sawEmpty[t]
    BY <1>a, <2>1 DEF Typed, history
  <2>3. Typed' /\ OnlyMoves(t)
    BY <1>a, <2>1, <2>c DEF Typed, TypeOK, nodes, history, Label, InSC, OnlyMoves
  <2>4. Still /\ Unflagged'
    BY <1>a, <2>1 DEF Still, Unflagged, nodes, history
  <2>5. KnowsOf(t)'
    <3>1. KnowsVersion(t)'
      BY <2>2, <2>c, <1>a, <1>b, <2>4, StillKnows
         DEF KnowsOf, KnowsVersion, InSC, Leaving, Emptying
    <3>2. KnowsEnq(t)'
      BY <2>2, <2>c, <1>a, <1>b, <2>4, StillKnows
         DEF KnowsOf, KnowsEnq, InSC, Leaving, Emptying, Looking
    <3>3. KnowsDeq(t)' /\ KnowsIdle(t)'
      BY <2>2, <2>c, <1>a, <1>b
         DEF KnowsOf, KnowsDeq, KnowsIdle, InSC, Leaving, Emptying, Looking
    <3> QED BY <3>1, <3>2, <3>3 DEF KnowsOf
  <2> QED BY <2>2, <2>3, <2>4, <2>5, <2>c, QuietStep
<1>2. CASE var[End(t)].ver # loc[t].ver
  <2> DEFINE r == [loc[t] EXCEPT !.e = <<0, 0>>]
  <2>1. /\ loc' = [loc EXCEPT ![t] = r] /\ pc' = [pc EXCEPT ![t] = "release"]
        /\ UNCHANGED <<var, nodes, history>>
    BY <1>2 DEF SCRead, Goto
  <2>c. r \in Local
        /\ r.op = loc[t].op /\ r.ver = loc[t].ver /\ r.mynode = loc[t].mynode
        /\ r.nd = loc[t].nd /\ r.target = loc[t].target /\ r.success = loc[t].success
    BY <1>b DEF Local
  <2> HIDE DEF r
  <2>2. loc'[t] = r /\ pc'[t] = "release" /\ sawEmpty'[t] = sawEmpty[t]
    BY <1>a, <2>1 DEF Typed, history
  <2>3. Typed' /\ OnlyMoves(t)
    BY <1>a, <2>1, <2>c DEF Typed, TypeOK, nodes, history, Label, Leaving, OnlyMoves
  <2>4. Still /\ Unflagged'
    BY <1>a, <2>1 DEF Still, Unflagged, nodes, history
  <2>5. KnowsOf(t)'
    <3>0. Helps(t) /\ Helps(t)'
      BY <2>2, <2>c, <1>a, <1>b, <2>4, StillKnows DEF KnowsOf, KnowsVersion, InSC
    <3>1. KnowsVersion(t)'
      BY <2>2, <2>c, <1>a, <1>b, <2>4, StillKnows
         DEF KnowsOf, KnowsVersion, InSC, Leaving, Emptying
    <3>2. KnowsEnq(t)'
      BY <2>2, <2>c, <1>a, <1>b, <2>4, StillKnows
         DEF KnowsOf, KnowsEnq, InSC, Leaving, Emptying, Looking
    <3>3. KnowsDeq(t)' /\ KnowsIdle(t)'
      BY <3>0, <2>2, <2>c, <1>a, <1>b
         DEF KnowsOf, KnowsDeq, KnowsIdle, Found, InSC, Leaving, Emptying, Looking
    <3> QED BY <3>1, <3>2, <3>3 DEF KnowsOf
  <2> QED BY <2>2, <2>3, <2>4, <2>5, <2>c, QuietStep
<1> QED BY <1>1, <1>2

-----------------------------------------------------------------------------
(* The steps on an exit tag *)

\* Whatever flags a thread computes, cas stores none of them.
LEMMA StoredNoFlag ==
    ASSUME Typed, Unflagged, NEW n \in Node, NEW post,
           post.count \in Int, post.left \in Int,
           exit' = [exit EXCEPT ![n] = Stored(exit[n], post)]
    PROVE  /\ exit' \in [Node -> [count : Int, left : Int, nlP : BOOLEAN, toBeFreed : BOOLEAN]]
           /\ \A m \in Node : exit'[m].nlP = FALSE /\ exit'[m].toBeFreed = FALSE
<1> DEFINE s == Stored(exit[n], post)
<1>1. exit[n] \in [count : Int, left : Int, nlP : BOOLEAN, toBeFreed : BOOLEAN]
  BY DEF Typed, TypeOK
<1>2. /\ s \in [count : Int, left : Int, nlP : BOOLEAN, toBeFreed : BOOLEAN]
      /\ s.nlP = exit[n].nlP /\ s.toBeFreed = exit[n].toBeFreed
  BY <1>1 DEF Stored
<1> HIDE DEF s
<1>3. exit' = [exit EXCEPT ![n] = s]
  BY DEF s
<1>4. s.nlP = FALSE /\ s.toBeFreed = FALSE
  BY <1>2 DEF Unflagged
<1> QED BY <1>2, <1>3, <1>4 DEF Typed, TypeOK, Unflagged

\* A step of t on an exit tag that leads to label l.
LEMMA TagStep ==
    ASSUME Inv, NEW t \in Threads, NEW l \in Label,
           exit' \in [Node -> [count : Int, left : Int, nlP : BOOLEAN, toBeFreed : BOOLEAN]],
           \A m \in Node : exit'[m].nlP = FALSE /\ exit'[m].toBeFreed = FALSE,
           freed' = {}, pc' = [pc EXCEPT ![t] = l],
           UNCHANGED <<var, next, pred, val, allocated, loc, history>>
    PROVE  /\ Typed' /\ Unflagged' /\ Still /\ OnlyMoves(t)
           /\ loc'[t] = loc[t] /\ sawEmpty'[t] = sawEmpty[t] /\ pc'[t] = l
           /\ KnowsOf(t)' => Inv'
           /\ At(t) => At(t)'
           /\ Helps(t) => Helps(t)'
           /\ Won(t) => Won(t)'
           /\ Fresh(t) => Fresh(t)'
           /\ Found(t) => Found(t)'
           /\ Empty(t) => Empty(t)'
<1>a. Typed
  BY DEF Inv
<1>1. Typed' /\ Unflagged' /\ OnlyMoves(t)
  BY <1>a DEF Typed, TypeOK, Unflagged, OnlyMoves, history
<1>2. Still
  BY DEF Still, history
<1>3. loc'[t] = loc[t] /\ sawEmpty'[t] = sawEmpty[t] /\ pc'[t] = l
  BY <1>a DEF Typed, history
<1>4. KnowsOf(t)' => Inv'
  BY <1>1, <1>2, <1>3, QuietStep
<1>5. (At(t) => At(t)') /\ (Helps(t) => Helps(t)') /\ (Won(t) => Won(t)')
      /\ (Fresh(t) => Fresh(t)')
  BY <1>a, <1>2, <1>3, StillKnows
<1> QED BY <1>1, <1>2, <1>3, <1>4, <1>5 DEF Found, Empty

LEMMA TransferInv == ASSUME Inv, NEW t \in Threads, Transfer(t) PROVE Inv'
<1>a. Typed /\ Listed /\ Followed /\ Unflagged /\ KnowsOf(t)
  BY DEF Inv
<1>b. loc[t] \in Local /\ pc[t] = "transfer" /\ At(t) /\ loc[t].e[2] \in Int
  BY <1>a, LocalFacts DEF Transfer, KnowsOf, KnowsVersion, InSC
<1> DEFINE n == loc[t].mynode
           post == [exit[n] EXCEPT !.count = @ + loc[t].e[2], !.left = @ - 1]
<1>1. /\ exit' = [exit EXCEPT ![n] = Stored(exit[n], post)]
      /\ pc' = [pc EXCEPT ![t] = "sc_read"]
      /\ UNCHANGED <<var, next, pred, val, allocated, freed, loc, history>>
  BY DEF Transfer, Goto
<1>c. n \in Node
  BY <1>a, <1>b, HeldNode
<1>d. exit[n] \in [count : Int, left : Int, nlP : BOOLEAN, toBeFreed : BOOLEAN]
  BY <1>a, <1>c DEF Typed, TypeOK
<1>e. post.count \in Int /\ post.left \in Int
  BY <1>b, <1>d
<1> HIDE DEF n, post
<1>2. /\ exit' \in [Node -> [count : Int, left : Int, nlP : BOOLEAN, toBeFreed : BOOLEAN]]
      /\ \A m \in Node : exit'[m].nlP = FALSE /\ exit'[m].toBeFreed = FALSE
  BY <1>a, <1>1, <1>c, <1>e, StoredNoFlag
<1>3. /\ loc'[t] = loc[t] /\ sawEmpty'[t] = sawEmpty[t] /\ pc'[t] = "sc_read"
      /\ KnowsOf(t)' => Inv'
      /\ (At(t) => At(t)') /\ (Helps(t) => Helps(t)') /\ (Won(t) => Won(t)')
      /\ (Fresh(t) => Fresh(t)')
  <2>1. "sc_read" \in Label /\ freed' = {}
    BY <1>a, <1>1 DEF Label, InSC, Unflagged
  <2> QED BY <2>1, <1>1, <1>2, TagStep
<1>4. KnowsOf(t)'
  <2>1. KnowsVersion(t)'
    BY <1>3, <1>a, <1>b DEF KnowsOf, KnowsVersion, InSC, Leaving, Emptying
  <2>2. KnowsEnq(t)'
    BY <1>3, <1>a, <1>b DEF KnowsOf, KnowsEnq, InSC, Leaving, Emptying, Looking
  <2>3. KnowsDeq(t)' /\ KnowsIdle(t)'
    BY <1>3, <1>a, <1>b DEF KnowsOf, KnowsDeq, KnowsIdle, InSC, Leaving, Emptying, Looking
  <2> QED BY <2>1, <2>2, <2>3 DEF KnowsOf
<1> QED BY <1>3, <1>4

\* Where SC and unlink lead.
LEMMA AfterKnows ==
    ASSUME Inv, NEW t \in Threads, pc[t] \in Leaving, loc'[t] = loc[t],
           sawEmpty'[t] = sawEmpty[t], pc'[t] = After(t),
           Fresh(t) => Fresh(t)', Found(t) => Found(t)', Empty(t) => Empty(t)',
           Helps(t) => Helps(t)'
    PROVE  KnowsOf(t)'
<1>a. Typed /\ KnowsOf(t)
  BY DEF Inv
<1>b. loc[t].op \in {"enq", "deq"} /\ loc[t].success \in BOOLEAN
  BY <1>a, LocalFacts DEF KnowsOf, KnowsIdle, Leaving
<1>1. CASE loc[t].op = "enq"
  <2>1. Helps(t) /\ (loc[t].target = loc[t].nd \/ Fresh(t)) /\ sawEmpty[t] = FALSE
    BY <1>1, <1>a DEF KnowsOf, KnowsEnq
  <2>2. CASE loc[t].target = loc[t].nd
    <3>1. pc'[t] = "ret"
      BY <1>1, <2>2 DEF After
    <3> QED BY <3>1, <1>1, <2>1, <2>2
            DEF KnowsOf, KnowsVersion, KnowsEnq, KnowsDeq, KnowsIdle,
                InSC, Leaving, Emptying, Looking
  <2>3. CASE loc[t].target # loc[t].nd
    <3>1. pc'[t] = "ll_entry"
      BY <1>1, <2>3 DEF After
    <3> QED BY <3>1, <1>1, <2>1, <2>3
            DEF KnowsOf, KnowsVersion, KnowsEnq, KnowsDeq, KnowsIdle,
                InSC, Leaving, Emptying, Looking
  <2> QED BY <2>2, <2>3
<1>2. CASE loc[t].op = "deq"
  <2>1. Found(t) \/ Empty(t)
    BY <1>2, <1>a DEF KnowsOf, KnowsDeq
  <2>2. CASE Empty(t)
    <3>1. pc'[t] = "ret"
      BY <1>2, <2>2 DEF After, Empty
    <3> QED BY <3>1, <1>2, <2>2
            DEF KnowsOf, KnowsVersion, KnowsEnq, KnowsDeq, KnowsIdle,
                InSC, Leaving, Emptying, Looking
  <2>3. CASE Found(t)
    <3>1. loc[t].target # NULL /\ sawEmpty[t] = FALSE
      BY <2>3, <1>a, Basics, LocalFacts DEF Found, Helps
    <3>2. CASE loc[t].success = TRUE
      <4>1. pc'[t] = "value"
        BY <1>2, <3>1, <3>2 DEF After
      <4> QED BY <4>1, <1>2, <2>3, <3>2
              DEF KnowsOf, KnowsVersion, KnowsEnq, KnowsDeq, KnowsIdle,
                  InSC, Leaving, Emptying, Looking
    <3>3. CASE loc[t].success = FALSE
      <4>1. pc'[t] = "ll_entry"
        BY <1>2, <3>1, <3>3 DEF After
      <4> QED BY <4>1, <1>2, <3>1, <3>3
              DEF KnowsOf, KnowsVersion, KnowsEnq, KnowsDeq, KnowsIdle,
                  InSC, Leaving, Emptying, Looking
    <3> QED BY <3>2, <3>3, <1>b
  <2> QED BY <2>1, <2>2, <2>3
<1> QED BY <1>b, <1>1, <1>2

LEMMA ReleaseInv == ASSUME Inv, NEW t \in Threads, Release(t) PROVE Inv'
<1>a. Typed /\ Listed /\ Followed /\ Unflagged /\ KnowsOf(t)
  BY DEF Inv
<1>b. loc[t] \in Local /\ pc[t] = "release" /\ At(t)
  BY <1>a, LocalFacts DEF Release, KnowsOf, KnowsVersion, Leaving
<1> DEFINE n == loc[t].mynode
           post == [exit[n] EXCEPT !.count = @ - 1]
           l == IF Clean(post) THEN "nlp" ELSE After(t)
<1>1. /\ exit' = [exit EXCEPT ![n] = Stored(exit[n], post)]
      /\ pc' = [pc EXCEPT ![t] = l]
      /\ UNCHANGED <<var, next, pred, val, allocated, freed, loc, history>>
  BY DEF Release, Goto
<1>c. n \in Node
  BY <1>a, <1>b, HeldNode
<1>d. exit[n] \in [count : Int, left : Int, nlP : BOOLEAN, toBeFreed : BOOLEAN]
  BY <1>a, <1>c DEF Typed, TypeOK
<1>e. post.count \in Int /\ post.left \in Int
  BY <1>b, <1>d
<1>f. l \in Label /\ l \in {"nlp", After(t)}
  BY DEF After, Label, Looking, Leaving
<1> HIDE DEF n, post, l
<1>2. /\ exit' \in [Node -> [count : Int, left : Int, nlP : BOOLEAN, toBeFreed : BOOLEAN]]
      /\ \A m \in Node : exit'[m].nlP = FALSE /\ exit'[m].toBeFreed = FALSE
  BY <1>a, <1>1, <1>c, <1>e, StoredNoFlag
<1>3. /\ loc'[t] = loc[t] /\ sawEmpty'[t] = sawEmpty[t] /\ pc'[t] = l
      /\ KnowsOf(t)' => Inv'
      /\ (At(t) => At(t)') /\ (Helps(t) => Helps(t)') /\ (Fresh(t) => Fresh(t)')
      /\ (Found(t) => Found(t)') /\ (Empty(t) => Empty(t)')
  <2>1. freed' = {}
    BY <1>a, <1>1 DEF Unflagged
  <2> QED BY <2>1, <1>f, <1>1, <1>2, TagStep
<1>4. CASE l = "nlp"
  <2>1. KnowsVersion(t)'
    BY <1>3, <1>4, <1>b DEF KnowsVersion, InSC, Leaving, Emptying
  <2>2. KnowsEnq(t)'
    BY <1>3, <1>4, <1>a, <1>b DEF KnowsOf, KnowsEnq, InSC, Leaving, Emptying, Looking
  <2>3. KnowsDeq(t)' /\ KnowsIdle(t)'
    BY <1>3, <1>4, <1>a, <1>b
       DEF KnowsOf, KnowsDeq, KnowsIdle, InSC, Leaving, Emptying, Looking
  <2> QED BY <2>1, <2>2, <2>3, <1>3 DEF KnowsOf
<1>5. CASE l = After(t)
  <2>1. pc[t] \in Leaving
    BY <1>b DEF Leaving
  <2> QED BY <2>1, <1>3, <1>5, AfterKnows
<1> QED BY <1>f, <1>4, <1>5

LEMMA SetNLPredInv == ASSUME Inv, NEW t \in Threads, SetNLPred(t) PROVE Inv'
<1>a. Typed /\ Listed /\ Followed /\ Unflagged /\ KnowsOf(t)
  BY DEF Inv
<1>b. loc[t] \in Local /\ pc[t] = "nlp" /\ At(t)
  BY <1>a, LocalFacts DEF SetNLPred, KnowsOf, KnowsVersion, Leaving
<1> DEFINE n == loc[t].mynode
           p == pred[n]
           post == [exit[p] EXCEPT !.nlP = TRUE]
<1>1. /\ exit' = [exit EXCEPT ![p] = Stored(exit[p], post)]
      /\ freed' = freed \union {m \in {n, p} : Freeable(IF m = p THEN post ELSE exit[n])}
      /\ pc' = [pc EXCEPT ![t] = After(t)]
      /\ UNCHANGED <<var, next, pred, val, allocated, loc, history>>
  BY DEF SetNLPred, Goto
<1>c. n \in Node /\ p \in Node
  BY <1>a, <1>b, HeldNode
<1>d. exit[p] \in [count : Int, left : Int, nlP : BOOLEAN, toBeFreed : BOOLEAN]
  BY <1>a, <1>c DEF Typed, TypeOK
<1>e. post.count \in Int /\ post.left \in Int /\ post.toBeFreed = FALSE
      /\ exit[n].nlP = FALSE
  BY <1>a, <1>c, <1>d DEF Unflagged
<1> HIDE DEF n, post, p
<1>2. /\ exit' \in [Node -> [count : Int, left : Int, nlP : BOOLEAN, toBeFreed : BOOLEAN]]
      /\ \A m \in Node : exit'[m].nlP = FALSE /\ exit'[m].toBeFreed = FALSE
  BY <1>a, <1>1, <1>c, <1>e, StoredNoFlag
<1>3. freed' = {}
  BY <1>a, <1>1, <1>e DEF Freeable, Unflagged
<1>4. After(t) \in Label /\ pc[t] \in Leaving
  BY <1>b DEF After, Label, Looking, Leaving
<1>5. /\ loc'[t] = loc[t] /\ sawEmpty'[t] = sawEmpty[t] /\ pc'[t] = After(t)
      /\ KnowsOf(t)' => Inv'
      /\ (Helps(t) => Helps(t)') /\ (Fresh(t) => Fresh(t)')
      /\ (Found(t) => Found(t)') /\ (Empty(t) => Empty(t)')
  BY <1>1, <1>2, <1>3, <1>4, TagStep
<1> QED BY <1>4, <1>5, AfterKnows

LEMMA SetToBeFreedInv == ASSUME Inv, NEW t \in Threads, SetToBeFreed(t) PROVE Inv'
<1>a. Typed /\ Listed /\ Followed /\ Unflagged /\ KnowsOf(t)
  BY DEF Inv
<1>b. loc[t] \in Local /\ pc[t] = "value" /\ loc[t].op \in {"none", "enq", "deq"}
  BY <1>a, LocalFacts DEF SetToBeFreed
<1>k. loc[t].op = "deq" /\ Found(t) /\ loc[t].success = TRUE
  BY <1>a, <1>b DEF KnowsOf, KnowsEnq, KnowsDeq, KnowsIdle
<1> DEFINE n == loc[t].target
           post == [exit[n] EXCEPT !.toBeFreed = TRUE]
<1>1. /\ exit' = [exit EXCEPT ![n] = Stored(exit[n], post)]
      /\ freed' = IF Freeable(post) THEN freed \union {n} ELSE freed
      /\ pc' = [pc EXCEPT ![t] = "ret"]
      /\ UNCHANGED <<var, next, pred, val, allocated, loc, history>>
  BY DEF SetToBeFreed, Goto
<1>c. n \in Node
  BY <1>a, <1>k, Basics, LocalFacts DEF Found, Helps
<1>d. exit[n] \in [count : Int, left : Int, nlP : BOOLEAN, toBeFreed : BOOLEAN]
  BY <1>a, <1>c DEF Typed, TypeOK
<1>e. post.count \in Int /\ post.left \in Int /\ post.nlP = FALSE
  BY <1>a, <1>c, <1>d DEF Unflagged
<1> HIDE DEF n, post
<1>2. /\ exit' \in [Node -> [count : Int, left : Int, nlP : BOOLEAN, toBeFreed : BOOLEAN]]
      /\ \A m \in Node : exit'[m].nlP = FALSE /\ exit'[m].toBeFreed = FALSE
  BY <1>a, <1>1, <1>c, <1>e, StoredNoFlag
<1>3. freed' = {}
  BY <1>a, <1>1, <1>e DEF Freeable, Unflagged
<1>4. "ret" \in Label
  BY DEF Label
<1>5. /\ loc'[t] = loc[t] /\ sawEmpty'[t] = sawEmpty[t] /\ pc'[t] = "ret"
      /\ KnowsOf(t)' => Inv'
      /\ (Found(t) => Found(t)')
  BY <1>1, <1>2, <1>3, <1>4, TagStep
<1>6. KnowsOf(t)'
  BY <1>5, <1>k DEF KnowsOf, KnowsVersion, KnowsEnq, KnowsDeq, KnowsIdle,
                    InSC, Leaving, Emptying, Looking
<1> QED BY <1>5, <1>6

-----------------------------------------------------------------------------
(* unlink, calls and returns *)

LEMMA UnlinkReadInv == ASSUME Inv, NEW t \in Threads, UnlinkRead(t) PROVE Inv'
<1>a. Typed /\ Followed /\ Unflagged /\ KnowsOf(t)
  BY DEF Inv
<1>b. loc[t] \in Local /\ pc[t] = "unlink" /\ "head" \in Ends /\ loc[t].op \in {"none", "enq", "deq"}
  BY <1>a, LocalFacts DEF UnlinkRead, Ends
<1>k. loc[t].op = "deq" /\ Empty(t) /\ At(t)
  BY <1>a, <1>b DEF KnowsOf, KnowsVersion, KnowsEnq, KnowsDeq, KnowsIdle, Emptying
<1> DEFINE r == [loc[t] EXCEPT !.e = Entry("head")]
<1>1. /\ loc' = [loc EXCEPT ![t] = r] /\ pc' = [pc EXCEPT ![t] = "unlink_cas"]
      /\ UNCHANGED <<var, nodes, history>>
  BY DEF UnlinkRead, Goto
<1>c. r \in Local
      /\ r.op = loc[t].op /\ r.ver = loc[t].ver /\ r.mynode = loc[t].mynode
      /\ r.nd = loc[t].nd /\ r.target = loc[t].target /\ r.success = loc[t].success
  <2>1. Entry("head") \in Nat \X Int
    BY <1>a, <1>b, Basics DEF Entry
  <2> QED BY <2>1, <1>b DEF Local
<1> HIDE DEF r
<1>2. loc'[t] = r /\ pc'[t] = "unlink_cas" /\ sawEmpty'[t] = sawEmpty[t]
  BY <1>a, <1>1 DEF Typed, history
<1>3. Typed' /\ OnlyMoves(t)
  BY <1>a, <1>1, <1>c DEF Typed, TypeOK, nodes, history, Label, Emptying, OnlyMoves
<1>4. Still /\ Unflagged'
  BY <1>a, <1>1 DEF Still, Unflagged, nodes, history
<1>5. At(t)' /\ Empty(t)'
  BY <1>2, <1>c, <1>k, <1>a, <1>4, StillKnows DEF Empty
<1>6. KnowsOf(t)'
  BY <1>2, <1>5, <1>c, <1>k
     DEF KnowsOf, KnowsVersion, KnowsEnq, KnowsDeq, KnowsIdle,
         InSC, Leaving, Emptying, Looking
<1> QED BY <1>2, <1>3, <1>4, <1>6, <1>c, QuietStep

LEMMA UnlinkCasInv == ASSUME Inv, NEW t \in Threads, UnlinkCas(t) PROVE Inv'
<1>a. Typed /\ Followed /\ Unflagged /\ KnowsOf(t)
  BY DEF Inv
<1>b. loc[t] \in Local /\ pc[t] = "unlink_cas" /\ "head" \in Ends
      /\ loc[t].op \in {"none", "enq", "deq"}
  BY <1>a, LocalFacts DEF UnlinkCas, Ends
<1>k. loc[t].op = "deq" /\ Empty(t) /\ At(t)
  BY <1>a, <1>b DEF KnowsOf, KnowsVersion, KnowsEnq, KnowsDeq, KnowsIdle, Emptying
<1> DEFINE r == [loc[t] EXCEPT !.e = <<0, 0>>]
           l == IF Entry("head") = loc[t].e THEN "ret" ELSE "release"
<1>1. /\ loc' = [loc EXCEPT ![t] = r] /\ pc' = [pc EXCEPT ![t] = l]
      /\ \/ var' = var
         \/ var' = [var EXCEPT !["head"].count = var["head"].count - 1]
      /\ UNCHANGED <<nodes, chain, sawEmpty>>
  BY DEF UnlinkCas, Goto
<1>c. r \in Local
      /\ r.op = loc[t].op /\ r.ver = loc[t].ver /\ r.mynode = loc[t].mynode
      /\ r.nd = loc[t].nd /\ r.target = loc[t].target /\ r.success = loc[t].success
  BY <1>b DEF Local
<1>d. l \in Label /\ l \in {"ret", "release"}
  BY DEF Label, Leaving
<1> HIDE DEF r, l
<1>2. loc'[t] = r /\ pc'[t] = l /\ sawEmpty'[t] = sawEmpty[t]
  BY <1>a, <1>1 DEF Typed
<1>f. /\ var' \in [Ends -> [ptr : [0..1 -> Node], ver : Nat, count : Int]]
      /\ \A y \in Ends : var'[y].ver = var[y].ver /\ var'[y].ptr = var[y].ptr
  <2>1. var["head"].count - 1 \in Int
    BY <1>a, <1>b, Basics
  <2>2. CASE var' = var
    BY <2>2, <1>a DEF Typed, TypeOK
  <2>3. CASE var' = [var EXCEPT !["head"].count = var["head"].count - 1]
    BY <2>1, <2>3, <1>a, <1>b, CountOnly
  <2> QED BY <1>1, <2>2, <2>3
<1>3. Typed' /\ OnlyMoves(t)
  BY <1>a, <1>1, <1>c, <1>d, <1>f DEF Typed, TypeOK, nodes, OnlyMoves
<1>4. Still /\ Unflagged'
  BY <1>a, <1>1, <1>f DEF Still, Unflagged, nodes
<1>5. At(t)' /\ Empty(t)'
  BY <1>2, <1>c, <1>k, <1>a, <1>4, StillKnows DEF Empty
<1>6. KnowsOf(t)'
  BY <1>2, <1>5, <1>c, <1>d, <1>k
     DEF KnowsOf, KnowsVersion, KnowsEnq, KnowsDeq, KnowsIdle,
         InSC, Leaving, Emptying, Looking
<1> QED BY <1>2, <1>3, <1>4, <1>6, <1>c, QuietStep

\* A call that begins without memory, or a deq that begins.
LEMMA BeginInv ==
    ASSUME Inv, NEW t \in Threads, EnqNoMemory(t) \/ DeqCall(t)
    PROVE  Inv'
<1>a. Typed /\ Followed /\ Unflagged /\ KnowsOf(t)
  BY DEF Inv
<1>b. loc[t] \in Local /\ pc[t] = "idle" /\ loc[t] = NoLocals /\ sawEmpty[t] = FALSE
  BY <1>a, LocalFacts DEF EnqNoMemory, DeqCall, KnowsOf, KnowsIdle
<1>k. loc[t].op = "none" /\ loc[t].nd = NULL /\ loc[t].target = NULL /\ loc[t].success = FALSE
  BY <1>b DEF NoLocals
<1>1. PICK o \in {"enq", "deq"} :
        /\ loc' = [loc EXCEPT ![t] = [loc[t] EXCEPT !.op = o]]
        /\ pc' = [pc EXCEPT ![t] = IF o = "enq" THEN "ret" ELSE "ll_entry"]
        /\ UNCHANGED <<var, nodes, history>>
  <2>1. CASE EnqNoMemory(t)
    BY <2>1 DEF EnqNoMemory, Goto
  <2>2. CASE DeqCall(t)
    BY <2>2 DEF DeqCall, Goto
  <2> QED BY <2>1, <2>2
<1> DEFINE r == [loc[t] EXCEPT !.op = o]
<1>c. r \in Local /\ r.op = o
      /\ r.nd = NULL /\ r.target = NULL /\ r.success = FALSE
  BY <1>b, <1>k DEF Local
<1>d. loc' = [loc EXCEPT ![t] = r]
  BY <1>1
<1> HIDE DEF r
<1>2. loc'[t] = r /\ pc'[t] = (IF o = "enq" THEN "ret" ELSE "ll_entry") /\ sawEmpty'[t] = FALSE
  BY <1>a, <1>b, <1>1, <1>d DEF Typed, history
<1>3. Typed' /\ OnlyMoves(t)
  <2>1. TypeOK' /\ sawEmpty' = sawEmpty
    BY <1>a, <1>1 DEF Typed, TypeOK, nodes, history
  <2>2. pc' = [pc EXCEPT ![t] = pc'[t]] /\ pc'[t] \in Label
    BY <1>a, <1>1 DEF Typed, Label, Looking
  <2>3. OnlyMoves(t)
    BY <1>a, <2>1, <2>2, <1>d DEF Typed, OnlyMoves
  <2>4. pc' \in [Threads -> Label] /\ loc' \in [Threads -> Local]
    BY <1>a, <2>2, <1>d, <1>c DEF Typed
  <2> QED BY <1>a, <2>1, <2>3, <2>4 DEF Typed
<1>4. Still /\ Unflagged'
  BY <1>a, <1>1 DEF Still, Unflagged, nodes, history
<1>6. KnowsOf(t)'
  BY <1>2, <1>c
     DEF KnowsOf, KnowsVersion, KnowsEnq, KnowsDeq, KnowsIdle,
         InSC, Leaving, Emptying, Looking
<1> QED BY <1>2, <1>3, <1>4, <1>6, <1>c, QuietStep

LEMMA ReturnInv == ASSUME Inv, NEW t \in Threads, Return(t) PROVE Inv'
<1>a. Typed /\ Followed /\ Unflagged /\ KnowsOf(t)
  BY DEF Inv
<1>1. /\ loc' = [loc EXCEPT ![t] = NoLocals] /\ pc' = [pc EXCEPT ![t] = "idle"]
      /\ sawEmpty' = [sawEmpty EXCEPT ![t] = FALSE]
      /\ UNCHANGED <<var, nodes, chain, unlinked>>
  BY DEF Return, Goto
<1>b. NoLocals \in Local /\ NoLocals.op = "none" /\ NoLocals.nd = NULL
  BY DEF NoLocals, Local, Addr
<1>2. loc'[t] = NoLocals /\ pc'[t] = "idle" /\ sawEmpty'[t] = FALSE
  BY <1>a, <1>1 DEF Typed
<1>3. Typed' /\ OnlyMoves(t)
  BY <1>a, <1>1, <1>b DEF Typed, TypeOK, nodes, Label, OnlyMoves
<1>4. Still /\ Unflagged'
  BY <1>a, <1>1 DEF Still, Unflagged, nodes
<1>6. KnowsOf(t)'
  BY <1>2, <1>b
     DEF KnowsOf, KnowsVersion, KnowsEnq, KnowsDeq, KnowsIdle,
         InSC, Leaving, Emptying, Looking
<1> QED BY <1>2, <1>3, <1>4, <1>6, <1>b, QuietStep

LEMMA EnqCallInv ==
    ASSUME Inv, NEW t \in Threads, NEW v \in Val, EnqCall(t, v)
    PROVE  Inv'
<1>a. Typed /\ Listed /\ Followed /\ Unflagged /\ Private /\ KnowsOf(t)
  BY DEF Inv
<1>b. loc[t] \in Local /\ pc[t] = "idle" /\ loc[t] = NoLocals /\ sawEmpty[t] = FALSE
  BY <1>a, LocalFacts DEF EnqCall, KnowsOf, KnowsIdle
<1>k. loc[t].op = "none" /\ loc[t].nd = NULL /\ loc[t].target = NULL /\ loc[t].success = FALSE
  BY <1>b DEF NoLocals
<1> DEFINE r == [loc[t] EXCEPT !.op = "enq", !.nd = allocated]
<1>1. /\ loc' = [loc EXCEPT ![t] = r] /\ pc' = [pc EXCEPT ![t] = "ll_entry"]
      /\ allocated < MaxNodes /\ allocated' = allocated + 1
      /\ val' = [val EXCEPT ![allocated] = v]
      /\ exit' = [exit EXCEPT ![allocated] = Tag(0, 2)]
      /\ UNCHANGED <<var, next, pred, freed, history>>
  BY DEF EnqCall, Goto
<1>2. allocated \in Node /\ 2 <= allocated
  BY <1>a, <1>1, Basics, LLSCAssumption DEF Node
<1>c. r \in Local /\ r.op = "enq" /\ r.nd = allocated /\ r.target = NULL /\ r.success = FALSE
  BY <1>b, <1>k, <1>2 DEF Local, Addr
<1> HIDE DEF r
<1>3. loc'[t] = r /\ pc'[t] = "ll_entry" /\ sawEmpty'[t] = FALSE
  BY <1>a, <1>b, <1>1 DEF Typed, history
<1>d. /\ Tag(0, 2) \in [count : Int, left : Int, nlP : BOOLEAN, toBeFreed : BOOLEAN]
      /\ Tag(0, 2).nlP = FALSE /\ Tag(0, 2).toBeFreed = FALSE
  BY DEF Tag
<1>4. Typed' /\ OnlyMoves(t)
  <2>1. exit' \in [Node -> [count : Int, left : Int, nlP : BOOLEAN, toBeFreed : BOOLEAN]]
    BY <1>a, <1>1, <1>d DEF Typed, TypeOK
  <2>2. allocated' \in 2..MaxNodes
    BY <1>a, <1>1, Basics, LLSCAssumption
  <2> QED BY <1>a, <1>1, <1>c, <2>1, <2>2 DEF Typed, TypeOK, history, Label, Looking, OnlyMoves
<1>5. Unflagged'
  BY <1>a, <1>1, <1>d DEF Unflagged, Typed, TypeOK
<1>6. Listed' /\ Followed'
  <2>1. Listed'
    BY <1>a, <1>1, Basics DEF Listed, history
  <2>2. var' = var /\ chain' = chain
    BY <1>1 DEF history
  <2> QED BY <2>1, <2>2, <1>a DEF Followed, EndAt, Current, Other, Before
<1>7. Private'
  <2>1. \A u \in Threads \ {t} : loc'[u] = loc[u]
    BY <1>4 DEF OnlyMoves
  <2>2. \A u \in Threads : loc[u].nd # NULL => loc[u].nd \in Nat /\ loc[u].nd < allocated
    BY <1>a, Basics, LocalFacts DEF Private, Addr
  <2> QED BY <2>1, <2>2, <1>3, <1>c, <1>1, <1>a, Basics DEF Private
<1>8. Respects(t)
  BY <1>a, <1>1, Basics DEF Respects, history, Other
<1>9. Fresh(t)'
  BY <1>1, <1>2, <1>3, <1>c, <1>a, Basics DEF Fresh, Listed, history
<1>10. KnowsOf(t)'
  <2>1. loc'[t].target # loc'[t].nd
    BY <1>3, <1>c, <1>2, <1>a, Basics
  <2> QED BY <2>1, <1>3, <1>9, <1>c
     DEF KnowsOf, KnowsVersion, KnowsEnq, KnowsDeq, KnowsIdle,
         InSC, Leaving, Emptying, Looking
<1> QED BY <1>4, <1>5, <1>6, <1>7, <1>8, <1>10, StepOf

-----------------------------------------------------------------------------
(* The steps that change the list or a slot *)

\* The cas on next succeeds only at the last node, when no newer version of tail
\* exists: the list stays a list.
LEMMA LinkedList ==
    ASSUME Inv, NEW t \in Threads, EnqLink(t), next[loc[t].mynode] = NULL
    PROVE  /\ Typed' /\ Listed' /\ Followed'
           /\ loc[t].ver + 1 = Len(chain) /\ loc[t].ver = var["tail"].ver
           /\ chain' = Append(chain, loc[t].nd) /\ Len(chain') = Len(chain) + 1
           /\ \A i \in 1..Len(chain) : chain'[i] = chain[i]
           /\ chain'[Len(chain) + 1] = loc[t].nd
<1>a. Typed /\ Listed /\ Followed /\ KnowsOf(t)
  BY DEF Inv
<1>b. loc[t] \in Local /\ pc[t] = "link" /\ At(t) /\ loc[t].op \in {"none", "enq", "deq"}
  BY <1>a, LocalFacts DEF EnqLink, KnowsOf, KnowsVersion
<1>k. loc[t].op = "enq" /\ Fresh(t) /\ End(t) = "tail"
  BY <1>a, <1>b DEF KnowsOf, KnowsEnq, KnowsDeq, KnowsIdle, End
<1> DEFINE n == loc[t].mynode
           nd == loc[t].nd
           r == [loc[t] EXCEPT !.target = nd]
           L == Len(chain)
<1>1. /\ pred' = [pred EXCEPT ![nd] = n] /\ next' = [next EXCEPT ![n] = nd]
      /\ chain' = Append(chain, nd) /\ loc' = [loc EXCEPT ![t] = r]
      /\ pc' = [pc EXCEPT ![t] = "sc_slot"]
      /\ UNCHANGED <<var, val, exit, allocated, freed, sawEmpty, unlinked>>
  BY DEF EnqLink, Goto
<1>2. n \in Node /\ nd \in Node /\ nd # 0 /\ nd # 1 /\ nd < allocated /\ L \in Nat /\ 1 <= L
  BY <1>a, <1>b, <1>k, HeldNode, Basics DEF Fresh, Listed
<1>3. loc[t].ver + 1 = L
  <2>1. loc[t].ver + 1 <= L /\ loc[t].ver \in Nat
    BY <1>a, <1>b, HeldNode, LocalFacts
  <2>2. CASE loc[t].ver + 1 # L
    <3>1. loc[t].ver + 2 \in 1..L
      BY <2>1, <2>2, <1>2
    <3>2. n = chain[loc[t].ver + 2] \/ next[n] = chain[loc[t].ver + 2]
      BY <2>2, <1>a, <1>b, HeldNode
    <3>3. next[n] \in Node
      BY <3>1, <2>2, <1>a, <1>b, HeldNode, Basics
    <3> QED BY <3>3, <1>a, Basics
  <2> QED BY <2>2
<1>4. loc[t].ver = var["tail"].ver
  <2>1. loc[t].ver <= var["tail"].ver /\ var["tail"].ver + 1 <= L /\ var["tail"].ver \in Nat
    BY <1>a, <1>b, <1>k, Basics DEF At, Followed, EndAt, Ends
  <2> QED BY <2>1, <1>3, <1>a, LocalFacts
<1>5. n = chain[L] /\ \A i \in 1..L : chain[i] # nd
  BY <1>3, <1>b, <1>k DEF At, Fresh
<1>6. /\ chain' \in Seq(Node) /\ Len(chain') = L + 1
      /\ \A i \in 1..L : chain'[i] = chain[i]
      /\ chain'[L + 1] = nd
  <2>1. chain \in Seq(Node)
    BY <1>a DEF Typed, TypeOK
  <2> QED BY <2>1, <1>1, <1>2, AppendFacts
<1>7. Typed'
  <2>1. r \in Local
    BY <1>b DEF Local
  <2>2. nd \in Addr /\ n \in Addr
    BY <1>2 DEF Addr
  <2> HIDE DEF r, n, nd, L
  <2>3. next' \in [Node -> Addr] /\ pred' \in [Node -> Addr]
    BY <1>a, <1>1, <2>2 DEF Typed, TypeOK
  <2>4. Len(chain') >= 1
    BY <1>6, <1>2
  <2>5. pc' \in [Threads -> Label] /\ loc' \in [Threads -> Local]
    BY <1>a, <1>1, <2>1 DEF Typed, Label, InSC
  <2>6. /\ var \in [Ends -> [ptr : [0..1 -> Node], ver : Nat, count : Int]]
        /\ val \in [Node -> Val \union {NULL}]
        /\ exit \in [Node -> [count : Int, left : Int, nlP : BOOLEAN, toBeFreed : BOOLEAN]]
        /\ allocated \in 2..MaxNodes /\ freed \subseteq Node
        /\ sawEmpty \in [Threads -> BOOLEAN]
    BY <1>a DEF Typed, TypeOK
  <2> QED BY <1>1, <1>6, <2>3, <2>4, <2>5, <2>6 DEF Typed, TypeOK
<1>8. Listed'
  <2> HIDE DEF n, nd, r, L
  <2>c. \A i \in 1..L : chain[i] \in Node
    BY <1>a, Basics DEF L
  <2>0. /\ \A m \in Node : next'[m] = IF m = n THEN nd ELSE next[m]
        /\ \A m \in Node : pred'[m] = IF m = nd THEN n ELSE pred[m]
    BY <1>a, <1>1, <1>2 DEF Typed, TypeOK
  <2>1. chain'[1] = 0 /\ pred'[0] = 1
    BY <1>a, <1>6, <1>2, <2>0, Basics DEF Listed
  <2>2. \A i \in 1..Len(chain') : chain'[i] # 1 /\ chain'[i] < allocated'
    <3> SUFFICES ASSUME NEW i \in 1..Len(chain') PROVE chain'[i] # 1 /\ chain'[i] < allocated'
      OBVIOUS
    <3>1. CASE i = L + 1
      BY <3>1, <1>6, <1>2, <1>1
    <3>2. CASE i # L + 1
      <4>1. i \in 1..L
        BY <3>2, <1>6, <1>2
      <4> QED BY <4>1, <1>a, <1>6, <1>1 DEF Listed, L
    <3> QED BY <3>1, <3>2
  <2>3. \A i, j \in 1..Len(chain') : chain'[i] = chain'[j] => i = j
    <3> SUFFICES ASSUME NEW i \in 1..Len(chain'), NEW j \in 1..Len(chain'), chain'[i] = chain'[j]
                 PROVE  i = j
      OBVIOUS
    <3>1. (i \in 1..L \/ i = L + 1) /\ (j \in 1..L \/ j = L + 1)
      BY <1>6, <1>2
    <3>2. CASE i \in 1..L /\ j \in 1..L
      BY <3>2, <1>a, <1>6 DEF Listed, L
    <3>3. CASE i = L + 1 \/ j = L + 1
      BY <3>1, <3>3, <1>5, <1>6
    <3> QED BY <3>1, <3>2, <3>3
  <2>4. \A i \in 1..(Len(chain') - 1) :
            next'[chain'[i]] = chain'[i + 1] /\ pred'[chain'[i + 1]] = chain'[i]
    <3> SUFFICES ASSUME NEW i \in 1..L
                 PROVE  next'[chain[i]] = chain'[i + 1] /\ pred'[chain'[i + 1]] = chain[i]
      BY <1>6, <1>2
    <3>1. CASE i = L
      BY <3>1, <1>5, <1>6, <1>2, <2>0
    <3>2. CASE i # L
      <4>1. i \in 1..(L - 1) /\ i + 1 \in 1..L /\ L \in 1..L
        BY <3>2, <1>2
      <4>2. chain[i] # n /\ chain[i + 1] # nd /\ chain[i] \in Node /\ chain[i + 1] \in Node
        BY <4>1, <3>2, <1>5, <2>c, <1>a DEF Listed, L
      <4>3. next[chain[i]] = chain[i + 1] /\ pred[chain[i + 1]] = chain[i]
        BY <4>1, <1>a DEF Listed, L
      <4> QED BY <4>1, <4>2, <4>3, <2>0, <1>6
    <3> QED BY <3>1, <3>2
  <2>5. next'[chain'[Len(chain')]] = NULL
    <3>1. next[nd] = NULL
      BY <1>5, <1>2, <1>a DEF Listed, L
    <3>2. nd # n
      BY <1>5, <1>2
    <3> QED BY <3>1, <3>2, <1>6, <1>2, <2>0
  <2>6. \A m \in Node : (\A i \in 1..Len(chain') : chain'[i] # m) => next'[m] = NULL
    <3> SUFFICES ASSUME NEW m \in Node, \A i \in 1..Len(chain') : chain'[i] # m
                 PROVE  next'[m] = NULL
      OBVIOUS
    <3>1. \A i \in 1..L : i \in 1..Len(chain') /\ chain[i] # m
      BY <1>6, <1>2
    <3>2. m # n /\ next[m] = NULL
      BY <3>1, <1>2, <1>5, <1>a DEF Listed, L
    <3> QED BY <3>2, <2>0
  <2> QED BY <2>1, <2>2, <2>3, <2>4, <2>5, <2>6 DEF Listed
<1>9. Followed'
  <2>1. \A x \in Ends : EndAt(x)'
    <3> SUFFICES ASSUME NEW x \in Ends PROVE EndAt(x)'
      OBVIOUS
    <3>1. var[x].ver \in Nat /\ var[x].ver + 1 <= L /\ var' = var
      BY <1>a, <1>1, Basics DEF Followed, EndAt
    <3>2. Current(x)' = Current(x) /\ Other(x)' = Other(x) /\ Before(var[x].ver)' = Before(var[x].ver)
      BY <3>1, <1>6 DEF Current, Other, Before
    <3>3. var[x].ver + 1 \in 1..L
      BY <3>1, <1>2
    <3>4. EndAt(x)
      BY <1>a DEF Followed
    <3>5. CASE Other(x) = Before(var[x].ver)
      BY <3>1, <3>2, <3>3, <3>4, <3>5, <1>6, <1>2 DEF EndAt
    <3>6. CASE var[x].ver + 2 <= L /\ Other(x) = chain[var[x].ver + 2]
      <4>1. var[x].ver + 2 \in 1..L
        BY <3>1, <3>6, <1>2
      <4> QED BY <4>1, <3>1, <3>2, <3>3, <3>4, <3>6, <1>6, <1>2 DEF EndAt
    <3> QED BY <3>4, <3>5, <3>6 DEF EndAt
  <2>2. Len(chain') <= var'["tail"].ver + 2
    BY <1>1, <1>3, <1>4, <1>6, <1>a, LocalFacts
  <2> QED BY <2>1, <2>2 DEF Followed
<1> QED BY <1>1, <1>3, <1>4, <1>6, <1>7, <1>8, <1>9

LEMMA EnqLinkInv == ASSUME Inv, NEW t \in Threads, EnqLink(t) PROVE Inv'
<1>a. Typed /\ Listed /\ Followed /\ Unflagged /\ Private /\ KnowsOf(t)
  BY DEF Inv
<1>b. loc[t] \in Local /\ pc[t] = "link" /\ At(t) /\ loc[t].op \in {"none", "enq", "deq"}
      /\ loc[t].ver \in Nat
  BY <1>a, LocalFacts DEF EnqLink, KnowsOf, KnowsVersion
<1>k. loc[t].op = "enq" /\ Fresh(t) /\ End(t) = "tail" /\ sawEmpty[t] = FALSE
  BY <1>a, <1>b DEF KnowsOf, KnowsEnq, KnowsDeq, KnowsIdle, End
<1>1. loc[t].nd \in Node /\ loc[t].nd # NULL /\ loc[t].nd # 0
      /\ \A i \in 1..Len(chain) : chain[i] # loc[t].nd
  BY <1>a, <1>k, Basics DEF Fresh
<1>2. PICK x \in Addr :
        /\ loc' = [loc EXCEPT ![t] = [loc[t] EXCEPT !.target = x]]
        /\ next[loc[t].mynode] = NULL => x = loc[t].nd
        /\ next[loc[t].mynode] # NULL =>
            x = next[loc[t].mynode] /\ next' = next /\ chain' = chain
  <2>1. loc[t].mynode \in Node /\ next[loc[t].mynode] \in Addr /\ loc[t].nd \in Addr
    BY <1>a, <1>b, <1>1, HeldNode DEF Typed, TypeOK, Addr
  <2>2. CASE next[loc[t].mynode] = NULL
    BY <2>1, <2>2 DEF EnqLink
  <2>3. CASE next[loc[t].mynode] # NULL
    BY <2>1, <2>3 DEF EnqLink
  <2> QED BY <2>2, <2>3
<1>3. /\ pred' = [pred EXCEPT ![loc[t].nd] = loc[t].mynode]
      /\ pc' = [pc EXCEPT ![t] = "sc_slot"]
      /\ UNCHANGED <<var, val, exit, allocated, freed, sawEmpty, unlinked>>
  BY DEF EnqLink, Goto
<1> DEFINE r == [loc[t] EXCEPT !.target = x]
<1>c. r \in Local /\ r.target = x /\ r.nd = loc[t].nd /\ r.op = "enq"
      /\ r.ver = loc[t].ver /\ r.mynode = loc[t].mynode
  BY <1>b, <1>k DEF Local
<1>d. loc' = [loc EXCEPT ![t] = r]
  BY <1>2
<1> HIDE DEF r
<1>4. loc'[t] = r /\ pc'[t] = "sc_slot" /\ sawEmpty'[t] = FALSE /\ End(t)' = "tail"
  BY <1>a, <1>d, <1>3, <1>c, <1>k DEF Typed, End
<1>5. OnlyMoves(t) /\ Unflagged' /\ Private'
  <2>1. OnlyMoves(t) /\ Unflagged'
    BY <1>a, <1>d, <1>3 DEF OnlyMoves, Unflagged, Typed
  <2> QED BY <2>1, <1>4, <1>c, <1>3, <1>a DEF Private, OnlyMoves
<1>6. CASE next[loc[t].mynode] = NULL
  <2>1. /\ Typed' /\ Listed' /\ Followed' /\ loc[t].ver + 1 = Len(chain)
        /\ Len(chain') = Len(chain) + 1
        /\ \A i \in 1..Len(chain) : chain'[i] = chain[i]
        /\ chain'[Len(chain) + 1] = loc[t].nd
    BY <1>6, LinkedList
  <2>2. Respects(t)
    <3>1. \A i \in 1..Len(chain') : i > Len(chain) => chain'[i] = loc[t].nd
      BY <2>1, <1>a, Basics
    <3>2. \A y \in Ends : Other(y)' = Other(y)
      BY <1>3 DEF Other
    <3> QED BY <3>1, <3>2, <2>1, <1>1, <1>3, <1>a, Basics DEF Respects
  <2>3. At(t)' /\ Helps(t)'
    <3>1. loc[t].ver + 1 \in 1..Len(chain)
      BY <2>1, <1>a, <1>b, Basics
    <3>2. At(t)'
      BY <3>1, <2>1, <1>b, <1>k, <1>c, <1>3, <1>4 DEF At
    <3>3. Helps(t)'
      <4>0. loc[t].ver \in Nat /\ Len(chain) \in Nat
        BY <1>a, Basics, LocalFacts
      <4>1. loc[t].ver \in Nat /\ Len(chain) \in Nat /\ loc[t].ver + 2 = Len(chain) + 1
        BY <2>1, <4>0
      <4>2. x = loc[t].nd
        BY <1>6, <1>2
      <4>3. Helps(t)' <=> /\ loc'[t].ver + 2 <= Len(chain')
                          /\ loc'[t].target = chain'[loc'[t].ver + 2]
        BY DEF Helps
      <4> QED BY <4>1, <4>2, <4>3, <2>1, <1>c, <1>4
    <3> QED BY <3>2, <3>3
  <2>4. KnowsOf(t)'
    BY <2>3, <1>4, <1>c, <1>6, <1>2
       DEF KnowsOf, KnowsVersion, KnowsEnq, KnowsDeq, KnowsIdle,
           InSC, Leaving, Emptying, Looking
  <2> QED BY <2>1, <2>2, <2>4, <1>5, StepOf
<1>7. CASE next[loc[t].mynode] # NULL
  <2>1. x = next[loc[t].mynode] /\ next' = next /\ chain' = chain /\ var' = var
        /\ allocated' = allocated
    BY <1>7, <1>2, <1>3
  <2>2. Typed'
    <3>1. pred' \in [Node -> Addr]
      BY <1>a, <1>b, <1>3, LocalFacts DEF Typed, TypeOK
    <3> QED BY <3>1, <2>1, <1>a, <1>c, <1>d, <1>3 DEF Typed, TypeOK, Label, InSC
  <2>3. Listed'
    <3>1. pred'[0] = pred[0] /\ \A i \in 1..Len(chain) : pred'[chain[i]] = pred[chain[i]]
      BY <1>3, <1>1, <1>a, Basics DEF Typed, TypeOK
    <3>2. \A i \in 1..(Len(chain) - 1) : i + 1 \in 1..Len(chain)
      BY <1>a, Basics
    <3> QED BY <3>1, <3>2, <2>1, <1>a DEF Listed
  <2>4. Followed'
    BY <2>1, <1>a DEF Followed, EndAt, Current, Other, Before
  <2>5. Respects(t)
    BY <2>1, <1>a, Basics DEF Respects, Other
  <2>6. At(t)' /\ Helps(t)' /\ Fresh(t)'
    <3>1. loc[t].ver + 1 <= Len(chain) /\ loc[t].ver + 1 # Len(chain)
          /\ x = chain[loc[t].ver + 2]
      BY <2>1, <1>7, <1>a, <1>b, HeldNode
    <3>2. loc[t].ver + 2 <= Len(chain)
      BY <3>1, <1>b, <1>a, Basics
    <3>3. Helps(t)'
      BY <3>1, <3>2, <2>1, <1>4, <1>c DEF Helps
    <3> QED BY <3>3, <2>1, <1>4, <1>c, <1>b, <1>k DEF At, Fresh
  <2>7. KnowsOf(t)'
    BY <2>6, <1>4, <1>c
       DEF KnowsOf, KnowsVersion, KnowsEnq, KnowsDeq, KnowsIdle,
           InSC, Leaving, Emptying, Looking
  <2> QED BY <2>2, <2>3, <2>4, <2>5, <2>7, <1>5, StepOf
<1> QED BY <1>6, <1>7

\* What SC's cas on the other slot meets: it succeeds only while the version is
\* the one of t's LL and nobody has won it, and if it fails at that version then
\* somebody has.
LEMMA SlotFacts ==
    ASSUME Inv, NEW t \in Threads, pc[t] = "sc_slot"
    PROVE  LET i == 1 - (loc[t].ver % 2)
               ok == var[End(t)].ptr[i] = pred[loc[t].mynode]
           IN  /\ ok => var[End(t)].ver = loc[t].ver /\ Other(End(t)) = Before(loc[t].ver)
               /\ ~ok /\ var[End(t)].ver = loc[t].ver => Other(End(t)) = chain[loc[t].ver + 2]
<1>a. Typed /\ Listed /\ Followed /\ KnowsOf(t)
  BY DEF Inv
<1> DEFINE x == End(t)
           v == loc[t].ver
           w == var[x].ver
           i == 1 - (v % 2)
           L == Len(chain)
<1>1. /\ x \in Ends /\ v \in Nat /\ w \in Nat /\ v <= w /\ w + 1 <= L /\ L \in Nat
      /\ pred[loc[t].mynode] = Before(v) /\ At(t)
  <2>1. At(t)
    BY <1>a DEF KnowsOf, KnowsVersion, InSC
  <2> QED BY <2>1, <1>a, HeldNode, LocalFacts, Basics DEF At, Followed, EndAt
<1>2. EndAt(x)
  BY <1>a, <1>1 DEF Followed
<1>3. CASE v = w
  <2>1. Other(x) = var[x].ptr[i]
    BY <1>3 DEF Other
  <2> QED BY <2>1, <1>1, <1>2, <1>3 DEF EndAt
<1>4. CASE v # w
  <2>1. v < w /\ w >= 1 /\ Before(w) = chain[w]
    BY <1>1, <1>4 DEF Before
  <2>2. i \in 0..1 /\ (i = w % 2 \/ i = 1 - (w % 2))
    BY <1>1, Slots
  <2>3. var[x].ptr[i] = Current(x) \/ var[x].ptr[i] = Other(x)
    BY <2>2 DEF Current, Other
  <2>4. PICK j \in 1..L : v < j /\ var[x].ptr[i] = chain[j]
    <3>1. CASE var[x].ptr[i] = chain[w + 1]
      <4>1. w + 1 \in 1..L /\ v < w + 1
        BY <1>1
      <4> QED BY <4>1, <3>1
    <3>2. CASE var[x].ptr[i] = chain[w]
      <4>1. w \in 1..L
        BY <1>1, <2>1
      <4> QED BY <4>1, <3>2, <2>1
    <3>3. CASE w + 2 <= L /\ var[x].ptr[i] = chain[w + 2]
      <4>1. w + 2 \in 1..L /\ v < w + 2
        BY <1>1, <3>3
      <4> QED BY <4>1, <3>3
    <3> QED BY <3>1, <3>2, <3>3, <2>1, <2>3, <1>2 DEF EndAt
  <2>5. var[x].ptr[i] # Before(v)
    <3>1. CASE v = 0
      BY <3>1, <2>4, <1>a DEF Listed, Before
    <3>2. CASE v # 0
      <4>1. v \in 1..L /\ v # j
        BY <3>2, <1>1, <2>4
      <4> QED BY <4>1, <3>2, <2>4, <1>a DEF Listed, Before
    <3> QED BY <3>1, <3>2
  <2> QED BY <2>5, <1>1, <1>4
<1> QED BY <1>3, <1>4

LEMMA SCSlotInv == ASSUME Inv, NEW t \in Threads, SCSlot(t) PROVE Inv'
<1>a. Typed /\ Listed /\ Followed /\ Unflagged /\ Private /\ KnowsOf(t)
  BY DEF Inv
<1>b. loc[t] \in Local /\ pc[t] = "sc_slot" /\ loc[t].op \in {"none", "enq", "deq"}
      /\ loc[t].ver \in Nat
  BY <1>a, LocalFacts DEF SCSlot
<1>k. At(t) /\ Helps(t)
  BY <1>a, <1>b DEF KnowsOf, KnowsVersion, InSC
<1>x. PICK x \in Ends, n \in Node, i \in 0..1 :
        /\ x = End(t) /\ n = loc[t].target /\ i = 1 - (loc[t].ver % 2)
        /\ n = chain[loc[t].ver + 2] /\ loc[t].ver + 2 <= Len(chain)
  <2>1. End(t) \in Ends
    BY <1>a, Basics
  <2>2. loc[t].ver + 2 \in 1..Len(chain)
    BY <1>a, <1>b, <1>k, Basics DEF Helps
  <2>3. loc[t].target \in Node
    BY <2>2, <1>a, <1>k, Basics DEF Helps
  <2>4. 1 - (loc[t].ver % 2) \in 0..1
    BY <1>b, Slots
  <2> QED BY <2>1, <2>2, <2>3, <2>4, <1>k DEF Helps
<1> DEFINE ok == var[x].ptr[i] = pred[loc[t].mynode]
           r == [loc[t] EXCEPT !.success = ok]
<1>1. /\ var' = IF ok THEN [var EXCEPT ![x].ptr[i] = n] ELSE var
      /\ loc' = [loc EXCEPT ![t] = r]
      /\ pc' = [pc EXCEPT ![t] = "sc_read"]
      /\ UNCHANGED <<nodes, history>>
  BY <1>x DEF SCSlot, Goto
<1>2. /\ ok => var[x].ver = loc[t].ver /\ Other(x) = Before(loc[t].ver)
      /\ ~ok /\ var[x].ver = loc[t].ver => Other(x) = chain[loc[t].ver + 2]
  BY <1>b, <1>x, SlotFacts
<1>c. r \in Local /\ r.op = loc[t].op /\ r.ver = loc[t].ver /\ r.mynode = loc[t].mynode
      /\ r.nd = loc[t].nd /\ r.target = loc[t].target
  <2>1. ok \in BOOLEAN
    OBVIOUS
  <2> HIDE DEF ok
  <2> QED BY <2>1, <1>b DEF Local
<1> HIDE DEF r
<1>4. loc'[t] = r /\ pc'[t] = "sc_read" /\ sawEmpty'[t] = sawEmpty[t] /\ End(t)' = x
  BY <1>a, <1>1, <1>c, <1>x DEF Typed, history, End
<1>5. /\ var' \in [Ends -> [ptr : [0..1 -> Node], ver : Nat, count : Int]]
      /\ \A y \in Ends : var'[y].ver = var[y].ver /\ Current(y)' = Current(y)
      /\ \A y \in Ends : Other(y)' = IF y = x /\ ok THEN n ELSE Other(y)
  <2>1. CASE ~ok
    BY <2>1, <1>1, <1>a DEF Typed, TypeOK, Current, Other
  <2>2. CASE ok
    <3>0. var' = [var EXCEPT ![x].ptr[i] = n] /\ var[x].ver = loc[t].ver
      BY <1>1, <1>2, <2>2
    <3>00. var \in [Ends -> [ptr : [0..1 -> Node], ver : Nat, count : Int]]
      BY <1>a DEF Typed, TypeOK
    <3> HIDE DEF ok
    <3>1. /\ var' \in [Ends -> [ptr : [0..1 -> Node], ver : Nat, count : Int]]
          /\ \A y \in Ends : var'[y].ver = var[y].ver
          /\ \A y \in Ends : y # x => var'[y] = var[y]
          /\ \A j \in 0..1 : var'[x].ptr[j] = IF j = i THEN n ELSE var[x].ptr[j]
      BY <3>0, <3>00, <1>x
    <3>2. i # var[x].ver % 2 /\ i = 1 - (var[x].ver % 2) /\ var[x].ver % 2 \in 0..1
      BY <3>0, <1>b, <1>x, Slots
    <3>3. Current(x)' = Current(x) /\ Other(x)' = n
      BY <3>1, <3>2, <1>x DEF Current, Other
    <3>4. \A y \in Ends : y # x => Current(y)' = Current(y) /\ Other(y)' = Other(y)
      BY <3>1 DEF Current, Other
    <3> QED BY <3>1, <3>3, <3>4, <2>2
  <2> QED BY <2>1, <2>2
<1> HIDE DEF ok
<1>6. Typed' /\ OnlyMoves(t)
  BY <1>a, <1>1, <1>c, <1>5 DEF Typed, TypeOK, nodes, history, Label, InSC, OnlyMoves
<1>7. Unflagged' /\ Private' /\ Listed'
  <2>1. Private'
    BY <1>a, <1>1, <1>4, <1>6, <1>c DEF Private, OnlyMoves, nodes
  <2> QED BY <2>1, <1>a, <1>1 DEF Unflagged, Listed, nodes, history
<1>8. Followed'
  <2>1. chain' = chain
    BY <1>1 DEF history
  <2>2. \A y \in Ends : EndAt(y)'
    <3> SUFFICES ASSUME NEW y \in Ends PROVE EndAt(y)'
      OBVIOUS
    <3>1. EndAt(y) /\ var'[y].ver = var[y].ver /\ Current(y)' = Current(y)
          /\ Before(var[y].ver)' = Before(var[y].ver)
      BY <1>a, <1>5, <2>1 DEF Followed, Before
    <3>2. CASE y = x /\ ok
      <4>1. Other(y)' = chain[var[y].ver + 2] /\ var[y].ver + 2 <= Len(chain)
        BY <3>2, <1>5, <1>2, <1>x
      <4> QED BY <4>1, <3>1, <2>1 DEF EndAt
    <3>3. CASE ~(y = x /\ ok)
      <4>1. Other(y)' = Other(y)
        BY <3>3, <1>5
      <4> QED BY <4>1, <3>1, <2>1 DEF EndAt
    <3> QED BY <3>2, <3>3
  <2> QED BY <2>1, <2>2, <1>5, <1>a DEF Followed, Ends
<1>9. Respects(t)
  <2>1. chain' = chain /\ allocated' = allocated
    BY <1>1 DEF history, nodes
  <2>2. \A y \in Ends : Other(y) = chain[var[y].ver + 2] => Other(y)' = chain[var[y].ver + 2]
    BY <1>5, <1>2, <1>x
  <2>3. Len(chain) \in Nat /\ allocated \in Nat
    BY <1>a, Basics
  <2>4. \A y \in Ends : var'[y].ver = var[y].ver /\ var[y].ver \in Nat
    BY <1>5, <1>a, Basics
  <2>5. \A j \in 1..Len(chain) : ~(j > Len(chain))
    BY <2>3
  <2> HIDE DEF ok
  <2> QED BY <2>1, <2>2, <2>3, <2>4, <2>5 DEF Respects
<1>10. KnowsOf(t)'
  <2>0. chain' = chain /\ allocated' = allocated /\ var'[x].ver = var[x].ver
    BY <1>1, <1>5, <1>x DEF history, nodes
  <2>1. At(t)' /\ Helps(t)' /\ (Fresh(t) => Fresh(t)')
    BY <2>0, <1>4, <1>c, <1>k, <1>x DEF At, Helps, Fresh
  <2>2. Won(t)'
    <3> SUFFICES ASSUME loc[t].ver = var[x].ver PROVE Other(x)' = chain[loc[t].ver + 2]
      BY <2>0, <1>4, <1>c DEF Won
    <3> QED BY <1>2, <1>x, <1>5
  <2> QED BY <2>1, <2>2, <1>4, <1>c, <1>a, <1>b
     DEF KnowsOf, KnowsVersion, KnowsEnq, KnowsDeq, KnowsIdle,
         InSC, Leaving, Emptying, Looking
<1> QED BY <1>6, <1>7, <1>8, <1>9, <1>10, StepOf

LEMMA SCCasInv == ASSUME Inv, NEW t \in Threads, SCCas(t) PROVE Inv'
<1>a. Typed /\ Listed /\ Followed /\ Unflagged /\ Private /\ KnowsOf(t)
  BY DEF Inv
<1>b. loc[t] \in Local /\ pc[t] = "sc_cas" /\ loc[t].op \in {"none", "enq", "deq"}
      /\ loc[t].ver \in Nat
  BY <1>a, LocalFacts DEF SCCas
<1>k. At(t) /\ Helps(t) /\ Won(t) /\ loc[t].e[1] = loc[t].ver
  BY <1>a, <1>b DEF KnowsOf, KnowsVersion, InSC
<1>1. CASE Entry(End(t)) # loc[t].e
  <2>1. pc' = [pc EXCEPT ![t] = "sc_read"] /\ UNCHANGED <<var, nodes, loc, history>>
    BY <1>1 DEF SCCas, Goto
  <2>2. loc'[t] = loc[t] /\ pc'[t] = "sc_read" /\ sawEmpty'[t] = sawEmpty[t]
    BY <1>a, <2>1 DEF Typed, history
  <2>3. Typed' /\ OnlyMoves(t)
    BY <1>a, <2>1 DEF Typed, TypeOK, nodes, history, Label, InSC, OnlyMoves
  <2>4. Still /\ Unflagged'
    BY <1>a, <2>1 DEF Still, Unflagged, nodes, history
  <2>5. At(t)' /\ Helps(t)' /\ Won(t)' /\ (Fresh(t) => Fresh(t)')
    BY <1>a, <1>k, <2>2, <2>4, StillKnows
  <2>6. KnowsOf(t)'
    BY <2>2, <2>5, <1>a, <1>b
       DEF KnowsOf, KnowsVersion, KnowsEnq, KnowsDeq, KnowsIdle,
           InSC, Leaving, Emptying, Looking
  <2> QED BY <2>2, <2>3, <2>4, <2>6, QuietStep
<1>2. CASE Entry(End(t)) = loc[t].e
  <2>x. PICK x \in Ends, v \in Nat : x = End(t) /\ v = loc[t].ver
    BY <1>a, <1>b, Basics
  <2>1. /\ var' = [var EXCEPT ![x].ver = var[x].ver + 1, ![x].count = 0]
        /\ pc' = [pc EXCEPT ![t] = "transfer"]
        /\ UNCHANGED <<nodes, loc, history>>
    BY <1>2, <2>x DEF SCCas, Goto
  <2>2. var[x].ver = v /\ x \in Ends /\ v \in Nat
    BY <1>2, <2>x, <1>b, <1>k, <1>a, Basics DEF Entry
  <2>3. Other(x) = chain[v + 2] /\ v + 2 <= Len(chain)
    BY <2>2, <2>x, <1>k DEF Won, Helps
  <2>4. /\ var' \in [Ends -> [ptr : [0..1 -> Node], ver : Nat, count : Int]]
        /\ var'[x].ver = v + 1 /\ var'[x].ptr = var[x].ptr
        /\ \A y \in Ends : y # x => var'[y] = var[y]
    <3>1. PICK c \in Int : c = 0
      OBVIOUS
    <3>2. var' = [var EXCEPT ![x].ver = var[x].ver + 1, ![x].count = c]
      BY <2>1, <3>1
    <3>3. var \in [Ends -> [ptr : [0..1 -> Node], ver : Nat, count : Int]]
      BY <1>a DEF Typed, TypeOK
    <3>4. var[x].ver + 1 \in Nat /\ var[x].ver + 1 = v + 1
      BY <2>2
    <3> QED BY <3>2, <3>3, <3>4
  <2>v. \A y \in Ends : var'[y].ver \in Nat /\ var'[y].ver >= var[y].ver
    <3> SUFFICES ASSUME NEW y \in Ends
                 PROVE  var'[y].ver \in Nat /\ var'[y].ver >= var[y].ver
      OBVIOUS
    <3>1. var[y].ver \in Nat
      BY <1>a, Basics
    <3>2. CASE y = x
      BY <3>2, <2>2, <2>4
    <3>3. CASE y # x
      <4>1. var'[y].ver = var[y].ver
        BY <3>3, <2>4
      <4> QED BY <4>1, <3>1
    <3> QED BY <3>2, <3>3
  <2>5. Current(x)' = chain[v + 2] /\ Other(x)' = chain[v + 1]
    <3>1. Current(x)' = Other(x) /\ Other(x)' = Current(x)
      BY <2>2, <2>4, Slots DEF Current, Other
    <3> QED BY <3>1, <2>2, <2>3, <1>a DEF Followed, EndAt
  <2>6. \A y \in Ends : y # x => Current(y)' = Current(y) /\ Other(y)' = Other(y)
    BY <2>4 DEF Current, Other
  <2>7. loc' = loc /\ chain' = chain /\ allocated' = allocated /\ pc'[t] = "transfer"
        /\ sawEmpty' = sawEmpty /\ End(t)' = x
    BY <2>1, <2>x, <1>a DEF nodes, history, Typed, End
  <2>8. Typed' /\ OnlyMoves(t) /\ Unflagged' /\ Private' /\ Listed'
    <3>1. Typed'
      BY <1>a, <2>1, <2>4 DEF Typed, TypeOK, nodes, history, Label, InSC
    <3>2. OnlyMoves(t)
      BY <2>1, <2>7, <1>a DEF OnlyMoves, Typed
    <3> QED BY <3>1, <3>2, <1>a, <2>1 DEF Unflagged, Private, Listed, nodes, history
  <2>9. Followed'
    <3>1. \A y \in Ends : EndAt(y)'
      <4> SUFFICES ASSUME NEW y \in Ends PROVE EndAt(y)'
        OBVIOUS
      <4>1. CASE y = x
        <5>1. v + 1 # 0 /\ (v + 1) + 1 = v + 2
          BY <2>2
        <5>2. Before(var[y].ver)' = chain[v + 1]
          BY <4>1, <5>1, <2>4, <2>7 DEF Before
        <5> QED BY <4>1, <5>1, <5>2, <2>3, <2>4, <2>5, <2>7 DEF EndAt
      <4>2. CASE y # x
        <5>1. EndAt(y) /\ var'[y].ver = var[y].ver /\ Before(var[y].ver)' = Before(var[y].ver)
          BY <4>2, <1>a, <2>4, <2>7 DEF Followed, Before
        <5> QED BY <4>2, <5>1, <2>6, <2>7 DEF EndAt
      <4> QED BY <4>1, <4>2
    <3>2. "tail" \in Ends /\ var["tail"].ver \in Nat /\ Len(chain) \in Nat
      BY <1>a, Basics DEF Ends
    <3>3. var'["tail"].ver \in Nat /\ var'["tail"].ver >= var["tail"].ver
      BY <3>2, <2>v
    <3>4. Len(chain) <= var["tail"].ver + 2
      BY <1>a DEF Followed
    <3> QED BY <3>1, <3>2, <3>3, <3>4, <2>7 DEF Followed
  <2>10. Respects(t)
    <3>2. \A y \in Ends : var'[y].ver = var[y].ver => Other(y)' = Other(y)
      BY <2>2, <2>4, <2>6
    <3> QED BY <2>v, <3>2, <2>7, <1>a, Basics DEF Respects
  <2>11. KnowsOf(t)'
    <3>1. End(t)' = x /\ loc'[t] = loc[t] /\ sawEmpty'[t] = sawEmpty[t]
      BY <2>7, <2>x
    <3>2. At(t)'
      BY <3>1, <2>2, <2>4, <2>7, <1>k, <2>x DEF At
    <3>3. Helps(t)' /\ (Fresh(t) => Fresh(t)')
      BY <3>1, <2>7, <2>x, <1>k DEF Helps, Fresh
    <3>4. Won(t)'
      BY <3>1, <2>x, <2>2, <2>4 DEF Won
    <3> QED BY <3>1, <3>2, <3>3, <3>4, <2>7, <1>a, <1>b
         DEF KnowsOf, KnowsVersion, KnowsEnq, KnowsDeq, KnowsIdle,
             InSC, Leaving, Emptying, Looking
  <2> QED BY <2>8, <2>9, <2>10, <2>11, StepOf
<1> QED BY <1>1, <1>2

-----------------------------------------------------------------------------
LEMMA InitInv == Init => Inv
<1> SUFFICES ASSUME Init PROVE Inv
  OBVIOUS
<1>c. /\ NULL \notin Node /\ 0 \in Node /\ 1 \in Node /\ 2 \in 2..MaxNodes
      /\ NoLocals \in Local
  BY LLSCAssumption DEF Node, NoLocals, Local, Addr
<1>d. PICK z \in Nat, one \in Nat : z = 0 /\ one = 1
  OBVIOUS
<1>1. /\ \A n \in Node : next[n] = NULL /\ next \in [Node -> Addr]
      /\ pred \in [Node -> Addr] /\ pred[0] = 1
      /\ val \in [Node -> Val \union {NULL}]
      /\ allocated = 2 /\ freed = {} /\ chain = <<0>>
  BY <1>c DEF Init, Addr
<1>2. \A n \in Node : /\ exit[n] \in [count : Int, left : Int, nlP : BOOLEAN, toBeFreed : BOOLEAN]
                      /\ exit[n].nlP = FALSE /\ exit[n].toBeFreed = FALSE
  BY DEF Init, Tag
<1>3. exit \in [Node -> [count : Int, left : Int, nlP : BOOLEAN, toBeFreed : BOOLEAN]]
  BY <1>2 DEF Init
<1>4. /\ var \in [Ends -> [ptr : [0..1 -> Node], ver : Nat, count : Int]]
      /\ \A x \in Ends : var[x].ver = 0 /\ var[x].ptr[0] = 0 /\ var[x].ptr[1] = 1
  <2>1. [i \in 0..1 |-> i] \in [0..1 -> Node]
    BY <1>c
  <2>2. var = [x \in Ends |-> [ptr |-> [i \in 0..1 |-> i], ver |-> z, count |-> z]]
    BY <1>d DEF Init
  <2> QED BY <2>1, <2>2, <1>d
<1>5. Len(chain) = 1 /\ chain[1] = 0 /\ chain \in Seq(Node)
  BY <1>1, <1>c
<1>6. \A t \in Threads : loc[t] = NoLocals /\ pc[t] = "idle" /\ sawEmpty[t] = FALSE
  BY DEF Init
<1>7. Typed
  <2>1. pc \in [Threads -> Label] /\ loc \in [Threads -> Local] /\ sawEmpty \in [Threads -> BOOLEAN]
    BY <1>c DEF Init, Label
  <2> QED BY <2>1, <1>1, <1>3, <1>4, <1>5, <1>c DEF Typed, TypeOK
<1>8. Listed
  BY <1>1, <1>5, <1>c DEF Listed
<1>9. Followed
  <2>1. \A x \in Ends : Current(x) = 0 /\ Other(x) = 1
    <3>1. 0 % 2 = 0 /\ 1 - (0 % 2) = 1
      OBVIOUS
    <3> QED BY <3>1, <1>4 DEF Current, Other
  <2> QED BY <2>1, <1>4, <1>5 DEF Followed, EndAt, Before, Ends
<1>10. Unflagged /\ Private
  BY <1>1, <1>2, <1>6 DEF Unflagged, Private, NoLocals
<1>11. \A t \in Threads : KnowsOf(t)
  <2>1. NoLocals.op = "none"
    BY DEF NoLocals
  <2> QED BY <2>1, <1>6 DEF KnowsOf, KnowsVersion, KnowsEnq, KnowsDeq, KnowsIdle,
                            InSC, Leaving, Emptying, Looking
<1> QED BY <1>7, <1>8, <1>9, <1>10, <1>11 DEF Inv

LEMMA NextInv == Inv /\ [Next]_vars => Inv'
<1> SUFFICES ASSUME Inv, [Next]_vars PROVE Inv'
  OBVIOUS
<1>1. CASE UNCHANGED vars
  <2>1. /\ UNCHANGED <<var, next, pred, val, exit, allocated, freed, pc, loc, chain, sawEmpty>>
    BY <1>1 DEF vars, nodes, history
  <2>2. Typed' /\ Listed' /\ Unflagged' /\ Private'
    BY <2>1 DEF Inv, Typed, TypeOK, Listed, Unflagged, Private
  <2>3. Followed'
    BY <2>1 DEF Inv, Followed, EndAt, Before, Current, Other
  <2>4. ASSUME NEW t \in Threads
        PROVE  KnowsOf(t)'
    <3>0. KnowsOf(t) /\ Typed
      BY DEF Inv
    <3>1. Still /\ loc'[t] = loc[t] /\ pc'[t] = pc[t] /\ sawEmpty'[t] = sawEmpty[t]
          /\ End(t)' = End(t)
      BY <2>1 DEF Still, End
    <3>2. /\ At(t) => At(t)'
          /\ Helps(t) => Helps(t)'
          /\ Won(t) => Won(t)'
          /\ Fresh(t) => Fresh(t)'
      BY <3>0, <3>1, StillKnows
    <3>3. (Found(t) => Found(t)') /\ (Empty(t) => Empty(t)')
      BY <3>1, <3>2 DEF Found, Empty
    <3>4. KnowsVersion(t)'
      BY <3>0, <3>1, <3>2, <2>1 DEF KnowsOf, KnowsVersion
    <3>5. KnowsEnq(t)' /\ KnowsIdle(t)'
      BY <3>0, <3>1, <3>2 DEF KnowsOf, KnowsEnq, KnowsIdle
    <3>6. KnowsDeq(t)'
      BY <3>0, <3>1, <3>3 DEF KnowsOf, KnowsDeq
    <3> QED BY <3>4, <3>5, <3>6 DEF KnowsOf
  <2> QED BY <2>2, <2>3, <2>4 DEF Inv
<1>2. CASE Next
  <2>1. PICK t \in Threads :
          \/ Step(t) \/ Return(t)
          \/ EnqNoMemory(t) \/ DeqCall(t) \/ \E v \in Val : EnqCall(t, v)
    BY <1>2 DEF Next
  <2>2. CASE Step(t)
    BY <2>2, LLEntryInv, LLNodeInv, LLCasInv, EnqLinkInv, DeqNextInv, SetToBeFreedInv,
       SCSlotInv, SCReadInv, SCCasInv, TransferInv, ReleaseInv, SetNLPredInv,
       UnlinkReadInv, UnlinkCasInv DEF Step
  <2>3. CASE Return(t) \/ EnqNoMemory(t) \/ DeqCall(t)
    BY <2>3, ReturnInv, BeginInv
  <2>4. CASE \E v \in Val : EnqCall(t, v)
    BY <2>4, EnqCallInv
  <2> QED BY <2>1, <2>2, <2>3, <2>4
<1> QED BY <1>1, <1>2

\* The inductive invariant holds in every reachable state, for any number of
\* threads and nodes.
THEOREM Invariance == Spec => []Inv
BY InitInv, NextInv, PTL DEF Spec

\* The variables of the queue keep their types: no SC stores NULL in a slot.
THEOREM TypeCorrect == Spec => []TypeOK
<1>1. Inv => TypeOK
  BY DEF Inv, Typed
<1> QED BY <1>1, Invariance, PTL

\* head and tail always stand at the node of their version, whatever slower
\* threads still do to the slots with versions that are gone.
THEOREM EndsStayOnTheList == Spec => []EndsFollowList
<1>1. Inv => EndsFollowList
  <2> SUFFICES ASSUME Inv PROVE EndsFollowList
    OBVIOUS
  <2>a. Typed /\ Listed /\ Followed
    BY DEF Inv
  <2>1. ASSUME NEW x \in Ends
        PROVE  /\ var[x].ver < Len(chain)
               /\ Current(x) = chain[var[x].ver + 1]
               /\ \/ Other(x) = pred[Current(x)]
                  \/ next[Current(x)] # NULL /\ Other(x) = next[Current(x)]
    <3> DEFINE v == var[x].ver
    <3>1. v \in Nat /\ v + 1 <= Len(chain) /\ Len(chain) \in Nat
          /\ Current(x) = chain[v + 1] /\ EndAt(x)
      BY <2>a, Basics DEF Followed, EndAt
    <3>2. Before(v) = pred[Current(x)]
      <4>1. CASE v = 0
        BY <4>1, <3>1, <2>a DEF Before, Listed
      <4>2. CASE v # 0
        <5>1. v \in 1..(Len(chain) - 1)
          BY <3>1, <4>2
        <5> QED BY <4>2, <5>1, <3>1, <2>a DEF Before, Listed
      <4> QED BY <4>1, <4>2
    <3>3. CASE Other(x) = Before(v)
      BY <3>1, <3>2, <3>3
    <3>4. CASE v + 2 <= Len(chain) /\ Other(x) = chain[v + 2]
      <4>1. v + 1 \in 1..(Len(chain) - 1) /\ (v + 1) + 1 = v + 2 /\ v + 2 \in 1..Len(chain)
        <5> HIDE DEF v
        <5>1. v \in Nat /\ Len(chain) \in Nat /\ v + 2 <= Len(chain)
          BY <3>1, <3>4
        <5> QED BY <5>1
      <4>2. next[Current(x)] = chain[v + 2] /\ chain[v + 2] \in Node
        BY <4>1, <3>1, <2>a, Basics DEF Listed
      <4> QED BY <4>2, <3>1, <3>4, <2>a, Basics
    <3> QED BY <3>1, <3>3, <3>4 DEF EndAt
  <2> QED BY <2>1, <2>a DEF EndsFollowList, Followed
<1> QED BY <1>1, Invariance, PTL

\* No thread touches a freed node, because no node is ever freed: cas stores
\* the first 8 of the exit tag's 12 bytes, and the flags are not among them.
THEOREM NothingUsedAfterFree == Spec => [](NoUseAfterFree /\ freed = {})
<1>1. Inv => NoUseAfterFree /\ freed = {}
  BY DEF Inv, Unflagged, NoUseAfterFree
<1> QED BY <1>1, Invariance, PTL

-----------------------------------------------------------------------------
(* The references *)

Counts == [x \in Ends |-> var[x].count]
Moved == [t \in Threads |-> loc[t].e[2]]
InEntry(n) == {x \in Ends : Current(x) = n}
Moving(n) == {t \in Threads : pc[t] = "transfer" /\ loc[t].mynode = n}
Callers == {t \in Threads : pc[t] # "idle"}

\* ReferencesCounted for one node, with sums that can be taken apart.
Balanced(n) ==
    Cardinality(Holders(n)) =
        exit[n].count + Total(Counts, InEntry(n)) + Total(Moved, Moving(n))

Counted ==
    /\ IsFiniteSet(Callers)
    /\ ~unlinked => /\ \A x \in Ends : var[x].count \in Nat
                    /\ \A t \in Threads : loc[t].e[2] \in Nat
                    /\ \A n \in Node : Balanced(n)

\* The sets and sums of the equation, as the prover needs them.
LEMMA CountFacts ==
    ASSUME Inv, Counted, NEW n \in Node
    PROVE  /\ IsFiniteSet(Holders(n)) /\ Cardinality(Holders(n)) \in Nat
           /\ IsFiniteSet(Moving(n)) /\ IsFiniteSet(InEntry(n))
           /\ exit[n].count \in Int
           /\ \A x \in Ends : Counts[x] = var[x].count
           /\ \A t \in Threads : Moved[t] = loc[t].e[2]
           /\ ~unlinked =>
                /\ \A x \in Ends : Counts[x] \in Nat
                /\ \A t \in Threads : Moved[t] \in Nat
                /\ Total(Counts, InEntry(n)) \in Nat
                /\ Total(Moved, Moving(n)) \in Nat
<1>1. Holders(n) \subseteq Callers /\ Moving(n) \subseteq Callers
  BY DEF Holders, Moving, Callers, Holding
<1>2. IsFiniteSet(Holders(n)) /\ IsFiniteSet(Moving(n))
  BY <1>1, FS_Subset DEF Counted
<1>3. Cardinality(Holders(n)) \in Nat
  BY <1>2, FS_CardinalityType
<1>4. IsFiniteSet(InEntry(n))
  <2>1. IsFiniteSet({"head"})
    BY FS_Singleton
  <2>2. IsFiniteSet({"head"} \cup {"tail"})
    BY <2>1, FS_AddElement
  <2>3. InEntry(n) \subseteq {"head"} \cup {"tail"}
    BY DEF InEntry, Ends
  <2> QED BY <2>2, <2>3, FS_Subset
<1>5. exit[n].count \in Int
  BY DEF Inv, Typed, TypeOK
<1>6. /\ \A x \in Ends : Counts[x] = var[x].count
      /\ \A t \in Threads : Moved[t] = loc[t].e[2]
  BY DEF Counts, Moved
<1>7. ASSUME ~unlinked
      PROVE  /\ \A x \in Ends : Counts[x] \in Nat
             /\ \A t \in Threads : Moved[t] \in Nat
  BY <1>6, <1>7 DEF Counted
<1>8. ASSUME ~unlinked
      PROVE  Total(Counts, InEntry(n)) \in Nat /\ Total(Moved, Moving(n)) \in Nat
  BY <1>2, <1>4, <1>7, <1>8, UnderFinite DEF InEntry, Moving
<1> QED BY <1>2, <1>3, <1>4, <1>5, <1>6, <1>7, <1>8

\* One summand more, in a function that may have changed there.
LEMMA TotalMore ==
    ASSUME NEW s, IsFiniteSet(s), NEW f, NEW g, NEW x, x \notin s,
           g[x] \in Nat, \A y \in s : f[y] \in Nat /\ g[y] = f[y]
    PROVE  Total(g, s \cup {x}) = Total(f, s) + g[x]
<1>1. IsFiniteSet(s \cup {x}) /\ x \in s \cup {x} /\ (s \cup {x}) \ {x} = s
  BY FS_AddElement
<1>2. \A y \in s \cup {x} : g[y] \in Nat
  OBVIOUS
<1>3. Total(g, s \cup {x}) = g[x] + Total(g, s)
  BY <1>1, <1>2, TotalAdd
<1>4. Total(g, s) = Total(f, s) /\ Total(f, s) \in Nat
  BY TotalSame, UnderFinite
<1> QED BY <1>3, <1>4

\* One summand less.
LEMMA TotalLess ==
    ASSUME NEW s, IsFiniteSet(s), NEW f, NEW g, NEW x \in s,
           \A y \in s : f[y] \in Nat, \A y \in s \ {x} : g[y] = f[y]
    PROVE  Total(f, s) = Total(g, s \ {x}) + f[x]
<1>1. Total(f, s) = f[x] + Total(f, s \ {x})
  BY TotalAdd
<1>2. IsFiniteSet(s \ {x})
  BY FS_RemoveElement
<1>3. Total(g, s \ {x}) = Total(f, s \ {x}) /\ Total(f, s \ {x}) \in Nat
  BY <1>2, TotalSame, UnderFinite
<1> QED BY <1>1, <1>3

\* What holds of the callers after any step of t.
LEMMA CallersFinite ==
    ASSUME Counted, NEW t \in Threads, OnlyMoves(t)
    PROVE  IsFiniteSet(Callers')
<1>1. Callers' \subseteq Callers \cup {t}
  BY DEF Callers, OnlyMoves
<1>2. IsFiniteSet(Callers \cup {t})
  BY FS_AddElement DEF Counted
<1> QED BY <1>1, <1>2, FS_Subset

\* A step of t that neither takes nor returns a reference.
LEMMA KeepsReferences ==
    ASSUME Inv, Inv', Counted, NEW t \in Threads, OnlyMoves(t), unlinked' = unlinked,
           \A x \in Ends : Current(x)' = Current(x) /\ var'[x].count = var[x].count,
           ~unlinked => \A n \in Node : exit'[n].count = exit[n].count,
           pc[t] \in Holding <=> pc'[t] \in Holding,
           pc[t] \in Holding => loc'[t].mynode = loc[t].mynode,
           pc[t] # "transfer", pc'[t] # "transfer",
           ~unlinked => loc'[t].e[2] \in Nat
    PROVE  Counted'
<1>1. IsFiniteSet(Callers')
  BY CallersFinite
<1>2. ASSUME ~unlinked
      PROVE  /\ \A x \in Ends : var'[x].count \in Nat
             /\ \A u \in Threads : loc'[u].e[2] \in Nat
  BY <1>2 DEF Counted, OnlyMoves
<1>3. ASSUME ~unlinked, NEW n \in Node PROVE Balanced(n)'
  <2>1. Holders(n)' = Holders(n)
    BY DEF Holders, OnlyMoves
  <2>2. InEntry(n)' = InEntry(n) /\ Moving(n)' = Moving(n)
    BY DEF InEntry, Moving, OnlyMoves
  <2>3. \A x \in InEntry(n) : Counts'[x] = Counts[x]
    BY DEF Counts, InEntry
  <2>4. \A u \in Moving(n) : Moved'[u] = Moved[u]
    BY DEF Moving, Moved, OnlyMoves
  <2>5. Total(Counts', InEntry(n)) = Total(Counts, InEntry(n))
        /\ Total(Moved', Moving(n)) = Total(Moved, Moving(n))
    BY <2>3, <2>4, TotalSame
  <2>6. Balanced(n)
    BY <1>3 DEF Counted
  <2> QED BY <1>3, <2>1, <2>2, <2>5, <2>6 DEF Balanced
<1> QED BY <1>1, <1>2, <1>3 DEF Counted

\* Most steps leave all references where they are.
LEMMA QuietCounts ==
    ASSUME Inv, Inv', Counted, NEW t \in Threads,
           \/ LLEntry(t) \/ LLNode(t) \/ DeqNext(t) \/ SCRead(t) \/ UnlinkRead(t)
           \/ Return(t) \/ EnqNoMemory(t) \/ DeqCall(t) \/ EnqLink(t)
    PROVE  Counted'
<1>a. Typed /\ Typed'
  BY DEF Inv
<1>1. /\ UNCHANGED <<var, exit, unlinked>>
      /\ OnlyMoves(t)
  BY <1>a DEF LLEntry, LLNode, DeqNext, SCRead, UnlinkRead, Return, EnqNoMemory,
     DeqCall, EnqLink, Goto, nodes, history, OnlyMoves, Typed
<1>2. /\ pc[t] \in Holding <=> pc'[t] \in Holding
      /\ pc[t] # "transfer" /\ pc'[t] # "transfer"
  BY <1>a DEF LLEntry, LLNode, DeqNext, SCRead, UnlinkRead, Return, EnqNoMemory,
     DeqCall, EnqLink, Goto, Holding, Typed
<1>3. pc[t] \in Holding => loc'[t].mynode = loc[t].mynode
  <2>1. CASE DeqNext(t) \/ SCRead(t) \/ UnlinkRead(t) \/ EnqLink(t)
    BY <2>1, <1>a DEF DeqNext, SCRead, UnlinkRead, EnqLink, Typed, Local
  <2>2. CASE LLEntry(t) \/ LLNode(t) \/ Return(t) \/ EnqNoMemory(t) \/ DeqCall(t)
    BY <2>2 DEF LLEntry, LLNode, Return, EnqNoMemory, DeqCall, Holding
  <2> QED BY <2>1, <2>2
<1>4. ~unlinked => loc'[t].e[2] \in Nat
  <2> SUFFICES ASSUME ~unlinked PROVE loc'[t].e[2] \in Nat
    OBVIOUS
  <2>1. loc[t].e[2] \in Nat /\ \A x \in Ends : Entry(x)[2] \in Nat
    BY DEF Counted, Entry
  <2>2. loc'[t].e = loc[t].e \/ loc'[t].e = <<0, 0>> \/ \E x \in Ends : loc'[t].e = Entry(x)
    <3>1. CASE LLEntry(t) \/ SCRead(t) \/ UnlinkRead(t)
      <4>1. End(t) \in Ends /\ "head" \in Ends
        BY DEF End, Ends
      <4> QED BY <3>1, <4>1, <1>a DEF LLEntry, SCRead, UnlinkRead, Typed, Local
    <3>2. CASE Return(t)
      BY <3>2, <1>a DEF Return, Typed, NoLocals
    <3>3. CASE LLNode(t) \/ DeqNext(t) \/ EnqNoMemory(t) \/ DeqCall(t) \/ EnqLink(t)
      BY <3>3, <1>a DEF LLNode, DeqNext, EnqNoMemory, DeqCall, EnqLink, Typed, Local
    <3> QED BY <3>1, <3>2, <3>3
  <2>3. <<0, 0>>[2] \in Nat
    OBVIOUS
  <2> QED BY <2>1, <2>2, <2>3
<1>5. \A x \in Ends : Current(x)' = Current(x) /\ var'[x].count = var[x].count
  BY <1>1 DEF Current
<1> QED BY <1>1, <1>2, <1>3, <1>4, <1>5, KeepsReferences

\* Flags are no references.
LEMMA FlagCounts ==
    ASSUME Inv, Inv', Counted, NEW t \in Threads, SetToBeFreed(t) \/ SetNLPred(t)
    PROVE  Counted'
<1>a. Typed /\ Typed'
  BY DEF Inv
<1>1. /\ UNCHANGED <<var, loc, unlinked>> /\ OnlyMoves(t)
      /\ pc[t] \notin Holding /\ pc'[t] \notin Holding
      /\ pc[t] # "transfer" /\ pc'[t] # "transfer"
  BY <1>a DEF SetToBeFreed, SetNLPred, Goto, history, OnlyMoves, Typed, Holding, After
<1>2. \A n \in Node : exit'[n].count = exit[n].count
  <2>1. PICK n, post : /\ exit' = [exit EXCEPT ![n] = Stored(exit[n], post)]
                       /\ post.count = exit[n].count /\ n \in Node
    <3>1. CASE SetToBeFreed(t)
      <4>1. loc[t].target \in Node
        <5>1. KnowsOf(t) /\ pc[t] = "value" /\ loc[t].op \in {"none", "enq", "deq"}
          BY <3>1, <1>a, LocalFacts DEF Inv, SetToBeFreed
        <5>2. Helps(t)
          BY <5>1 DEF KnowsOf, KnowsEnq, KnowsDeq, KnowsIdle, Found
        <5>3. loc[t].ver + 2 \in 1..Len(chain)
          BY <5>2, <1>a, LocalFacts, Basics DEF Helps
        <5> QED BY <5>2, <5>3, <1>a, Basics DEF Helps
      <4>2. exit[loc[t].target] \in [count : Int, left : Int, nlP : BOOLEAN, toBeFreed : BOOLEAN]
        BY <4>1, <1>a DEF Typed, TypeOK
      <4>3. [exit[loc[t].target] EXCEPT !.toBeFreed = TRUE].count = exit[loc[t].target].count
        BY <4>2
      <4> QED BY <3>1, <4>1, <4>3 DEF SetToBeFreed
    <3>2. CASE SetNLPred(t)
      <4>1. pred[loc[t].mynode] \in Node
        <5>1. KnowsOf(t) /\ pc[t] = "nlp" /\ Listed /\ Followed
          BY <3>2 DEF Inv, SetNLPred
        <5>2. At(t)
          BY <5>1 DEF KnowsOf, KnowsVersion, Leaving
        <5> QED BY <5>1, <5>2, <1>a, HeldNode
      <4>2. exit[pred[loc[t].mynode]] \in [count : Int, left : Int, nlP : BOOLEAN, toBeFreed : BOOLEAN]
        BY <4>1, <1>a DEF Typed, TypeOK
      <4>3. [exit[pred[loc[t].mynode]] EXCEPT !.nlP = TRUE].count = exit[pred[loc[t].mynode]].count
        BY <4>2
      <4> QED BY <3>2, <4>1, <4>3 DEF SetNLPred
    <3> QED BY <3>1, <3>2
  <2>2. exit \in [Node -> [count : Int, left : Int, nlP : BOOLEAN, toBeFreed : BOOLEAN]]
    BY <1>a DEF Typed, TypeOK
  <2> QED BY <2>1, <2>2 DEF Stored
<1>3. \A x \in Ends : Current(x)' = Current(x) /\ var'[x].count = var[x].count
  BY <1>1 DEF Current
<1>4. ~unlinked => loc'[t].e[2] \in Nat
  BY <1>1 DEF Counted
<1> QED BY <1>1, <1>2, <1>3, <1>4, KeepsReferences

\* Nobody refers to a node that was not there yet.
LEMMA EnqCallCounts ==
    ASSUME Inv, Inv', Counted, NEW t \in Threads, NEW v \in Val, EnqCall(t, v)
    PROVE  Counted'
<1>a. Typed /\ Typed' /\ Listed /\ Followed
  BY DEF Inv
<1>1. /\ UNCHANGED <<var, unlinked>> /\ OnlyMoves(t)
      /\ exit' = [exit EXCEPT ![allocated] = Tag(0, 2)]
      /\ pc[t] = "idle" /\ pc'[t] = "ll_entry"
      /\ loc'[t].e = loc[t].e
  BY <1>a DEF EnqCall, Goto, history, OnlyMoves, Typed, Local
<1>2. ~unlinked => \A n \in Node : exit'[n].count = exit[n].count
  <2> SUFFICES ASSUME ~unlinked, NEW n \in Node PROVE exit'[n].count = exit[n].count
    OBVIOUS
  <2>1. CASE n # allocated
    BY <2>1, <1>1, <1>a DEF Typed, TypeOK
  <2>2. CASE n = allocated
    <3>0. n \in Nat
      BY Basics, <1>a
    <3>1. \A u \in Threads : pc[u] \in Holding => loc[u].mynode # n
      <4> SUFFICES ASSUME NEW u \in Threads, pc[u] \in Holding PROVE loc[u].mynode # n
        OBVIOUS
      <4>1. At(u)
        BY DEF Inv, KnowsOf, KnowsVersion, InSC, Leaving, Emptying, Holding
      <4> QED BY <4>1, <1>a, <2>2, <3>0, HeldNode
    <3>2. Holders(n) = {} /\ Moving(n) = {}
      BY <3>1 DEF Holders, Moving, Holding
    <3>3. InEntry(n) = {}
      <4>1. \A x \in Ends : var[x].ver + 1 \in 1..Len(chain)
        BY <1>a, Basics DEF Followed, EndAt
      <4>2. \A x \in Ends : Current(x) < allocated
        BY <4>1, <1>a DEF Followed, EndAt, Listed
      <4> QED BY <4>2, <2>2, <3>0 DEF InEntry
    <3>4. 0 = exit[n].count + 0 + 0
      BY <3>2, <3>3, TotalNone, FS_EmptySet DEF Counted, Balanced
    <3>5. exit[n].count \in Int
      BY CountFacts
    <3>6. exit'[n].count = 0
      BY <1>1, <2>2, <1>a DEF Tag, Typed, TypeOK
    <3> QED BY <3>4, <3>5, <3>6
  <2> QED BY <2>1, <2>2
<1>3. \A x \in Ends : Current(x)' = Current(x) /\ var'[x].count = var[x].count
  BY <1>1 DEF Current
<1>4. ~unlinked => loc'[t].e[2] \in Nat
  BY <1>1 DEF Counted
<1> QED BY <1>1, <1>2, <1>3, <1>4, KeepsReferences DEF Holding

\* SC writes the slot that is not current, or a slot with what it held.
LEMMA SCSlotCounts == ASSUME Inv, Inv', Counted, NEW t \in Threads, SCSlot(t) PROVE Counted'
<1>a. Typed /\ Typed' /\ Followed /\ Followed' /\ End(t) \in Ends
  BY Basics DEF Inv
<1>1. /\ UNCHANGED <<exit, chain, unlinked>> /\ OnlyMoves(t)
      /\ pc[t] = "sc_slot" /\ pc'[t] = "sc_read"
      /\ loc'[t].e = loc[t].e /\ loc'[t].mynode = loc[t].mynode
  BY <1>a, SMTT(30) DEF SCSlot, Goto, nodes, history, OnlyMoves, Typed, Local
<1>2. \A x \in Ends : var'[x].ver = var[x].ver /\ var'[x].count = var[x].count
  BY <1>a, ZenonT(40) DEF SCSlot, Typed, TypeOK
<1>3. \A x \in Ends : Current(x)' = Current(x)
  BY <1>a, <1>1, <1>2 DEF Followed, EndAt
<1>4. ~unlinked => loc'[t].e[2] \in Nat
  BY <1>1 DEF Counted
<1> QED BY <1>1, <1>2, <1>3, <1>4, KeepsReferences DEF Holding

\* A cas of an entry tag that fails.
LEMMA FailedCounts ==
    ASSUME Inv, Inv', Counted, NEW t \in Threads,
           LLCas(t) \/ SCCas(t) \/ UnlinkCas(t), Entry(End(t)) # loc[t].e
    PROVE  Counted'
<1>a. Typed /\ Typed'
  BY DEF Inv
<1>u. UnlinkCas(t) => End(t) = "head"
  <2> SUFFICES ASSUME UnlinkCas(t) PROVE End(t) = "head"
    OBVIOUS
  <2>1. loc[t].op # "enq"
    BY DEF Inv, KnowsOf, KnowsEnq, Emptying, UnlinkCas
  <2> QED BY <2>1 DEF End
<1>1. /\ UNCHANGED <<var, exit, unlinked>> /\ OnlyMoves(t)
      /\ pc[t] # "transfer" /\ pc'[t] # "transfer"
      /\ pc[t] \in Holding <=> pc'[t] \in Holding
      /\ loc'[t].mynode = loc[t].mynode
      /\ loc'[t].e = loc[t].e \/ loc'[t].e = <<0, 0>>
  <2>1. CASE LLCas(t)
    BY <2>1, <1>a DEF LLCas, Goto, nodes, history, OnlyMoves, Typed, Holding
  <2>2. CASE SCCas(t)
    BY <2>2, <1>a DEF SCCas, Goto, nodes, history, OnlyMoves, Typed, Holding
  <2>3. CASE UnlinkCas(t)
    BY <2>3, <1>a, <1>u DEF UnlinkCas, Goto, nodes, OnlyMoves, Typed, Holding, Local
  <2> QED BY <2>1, <2>2, <2>3
<1>2. \A x \in Ends : Current(x)' = Current(x) /\ var'[x].count = var[x].count
  BY <1>1 DEF Current
<1>3. ~unlinked => loc'[t].e[2] \in Nat
  <2>1. <<0, 0>>[2] = 0
    OBVIOUS
  <2> QED BY <1>1, <2>1 DEF Counted
<1> QED BY <1>1, <1>2, <1>3, KeepsReferences

\* LL takes a reference to the current node and counts it in the entry tag.
LEMMA LLCasCounts ==
    ASSUME Inv, Inv', Counted, NEW t \in Threads, LLCas(t), Entry(End(t)) = loc[t].e
    PROVE  Counted'
<1>a. Typed /\ Typed' /\ Followed /\ KnowsOf(t)
  BY DEF Inv
<1>x. PICK x \in Ends, k \in Addr : x = End(t) /\ k = loc[t].mynode
  BY <1>a, Basics, LocalFacts
<1>1. /\ var' = [var EXCEPT ![x].count = @ + 1]
      /\ UNCHANGED <<exit, unlinked>> /\ OnlyMoves(t)
      /\ pc[t] \notin Holding /\ pc'[t] \in Holding /\ pc'[t] # "transfer"
      /\ loc'[t].mynode = k /\ loc'[t].e = <<0, 0>>
  BY <1>a, <1>x DEF LLCas, Goto, nodes, history, OnlyMoves, Typed, Local, Holding
<1>2. /\ var'[x].count = var[x].count + 1
      /\ \A y \in Ends : /\ Current(y)' = Current(y)
                         /\ y # x => var'[y].count = var[y].count
  BY <1>1, <1>a DEF Typed, TypeOK, Current
<1>3. Current(x) = k
  <2>1. pc[t] = "ll_cas" /\ loc[t].e[1] = var[x].ver
    BY <1>x DEF LLCas, Entry
  <2> QED BY <2>1, <1>x, <1>a DEF KnowsOf, KnowsVersion, Followed, EndAt
<1>4. IsFiniteSet(Callers')
  BY <1>1, CallersFinite
<1>5. ASSUME ~unlinked
      PROVE  /\ \A y \in Ends : var'[y].count \in Nat
             /\ \A u \in Threads : loc'[u].e[2] \in Nat
  <2>1. <<0, 0>>[2] = 0
    OBVIOUS
  <2> QED BY <1>1, <1>2, <1>5, <2>1 DEF Counted, OnlyMoves
<1>6. ASSUME ~unlinked, NEW n \in Node PROVE Balanced(n)'
  <2>1. InEntry(n)' = InEntry(n) /\ Moving(n)' = Moving(n)
    BY <1>1, <1>2 DEF InEntry, Moving, OnlyMoves, Holding
  <2>2. Total(Moved', Moving(n)) = Total(Moved, Moving(n))
    <3>1. \A u \in Moving(n) : Moved'[u] = Moved[u]
      BY <1>1 DEF Moving, Moved, OnlyMoves, Holding
    <3> QED BY <3>1, TotalSame
  <2>3. Balanced(n)
    BY <1>6 DEF Counted
  <2>4. CASE n = k
    <3>1. Holders(n)' = Holders(n) \cup {t} /\ t \notin Holders(n)
      BY <1>1, <2>4 DEF Holders, OnlyMoves
    <3>2. Cardinality(Holders(n)') = Cardinality(Holders(n)) + 1
      BY <3>1, CountFacts, FS_AddElement
    <3>3. Total(Counts', InEntry(n)) = Total(Counts, InEntry(n)) + 1
      <4>1. x \in InEntry(n)
        BY <1>3, <2>4 DEF InEntry
      <4>2. Counts'[x] = Counts[x] + 1 /\ \A y \in InEntry(n) \ {x} : Counts'[y] = Counts[y]
        BY <1>2 DEF Counts, InEntry
      <4>3. IsFiniteSet(InEntry(n)) /\ \A y \in InEntry(n) : Counts[y] \in Nat
        BY <1>6, CountFacts DEF InEntry
      <4> QED BY <4>1, <4>2, <4>3, TotalChange
    <3> QED BY <1>1, <1>6, <2>1, <2>2, <2>3, <3>2, <3>3, CountFacts DEF Balanced
  <2>5. CASE n # k
    <3>1. Holders(n)' = Holders(n)
      BY <1>1, <2>5 DEF Holders, OnlyMoves
    <3>2. Total(Counts', InEntry(n)) = Total(Counts, InEntry(n))
      <4>1. \A y \in InEntry(n) : Counts'[y] = Counts[y]
        BY <1>2, <1>3, <2>5 DEF Counts, InEntry
      <4> QED BY <4>1, TotalSame
    <3> QED BY <1>1, <2>1, <2>2, <2>3, <3>1, <3>2 DEF Balanced
  <2> QED BY <2>4, <2>5
<1> QED BY <1>1, <1>4, <1>5, <1>6 DEF Counted

\* SC takes the count from the entry tag; the next version starts at none.
LEMMA SCCasCounts ==
    ASSUME Inv, Inv', Counted, NEW t \in Threads, SCCas(t), Entry(End(t)) = loc[t].e
    PROVE  Counted'
<1>a. Typed /\ Typed' /\ Listed /\ Followed /\ KnowsOf(t)
  BY DEF Inv
<1>x. PICK x \in Ends, k \in Addr, v \in Nat :
        x = End(t) /\ k = loc[t].mynode /\ v = loc[t].ver
  BY <1>a, Basics, LocalFacts
<1>1. /\ var' = [var EXCEPT ![x].ver = @ + 1, ![x].count = 0]
      /\ UNCHANGED <<exit, unlinked, loc, chain>> /\ OnlyMoves(t)
      /\ pc[t] = "sc_cas" /\ pc'[t] = "transfer"
  BY <1>a, <1>x DEF SCCas, Goto, nodes, history, OnlyMoves, Typed
<1>2. /\ var'[x].count = 0 /\ var'[x].ver = var[x].ver + 1 /\ var'[x].ptr = var[x].ptr
      /\ \A y \in Ends : y # x => var'[y] = var[y]
  BY <1>1, <1>a DEF Typed, TypeOK
<1>3. At(t) /\ Helps(t) /\ var[x].ver = v /\ var[x].count = loc[t].e[2]
  BY <1>1, <1>x, <1>a DEF KnowsOf, KnowsVersion, InSC, Entry
<1>4. Current(x) = k /\ Current(x)' # k
      /\ \A y \in Ends : y # x => Current(y)' = Current(y)
  <2>1. Current(x) = chain[v + 1] /\ k = chain[v + 1] /\ v + 2 <= Len(chain)
    BY <1>3, <1>x, <1>a DEF Followed, EndAt, At, Helps
  <2>2. EndAt(x)' /\ var'[x].ver + 1 = v + 2
    BY <1>2, <1>3 DEF Inv, Followed
  <2>3. Current(x)' = chain[v + 2]
    BY <2>2, <1>1 DEF EndAt
  <2>4. v + 1 \in 1..Len(chain) /\ v + 2 \in 1..Len(chain) /\ v + 1 # v + 2
    BY <2>1, <1>a, Basics
  <2>5. \A y \in Ends : y # x => Current(y)' = Current(y)
    BY <1>2 DEF Current
  <2> QED BY <2>1, <2>3, <2>4, <2>5, <1>a DEF Listed
<1>5. IsFiniteSet(Callers')
  BY <1>1, CallersFinite
<1>6. ASSUME ~unlinked
      PROVE  /\ \A y \in Ends : var'[y].count \in Nat
             /\ \A u \in Threads : loc'[u].e[2] \in Nat
  <2>1. /\ \A y \in Ends : var[y].count \in Nat
        /\ \A u \in Threads : loc[u].e[2] \in Nat
    BY <1>6 DEF Counted
  <2>2. ASSUME NEW y \in Ends PROVE var'[y].count \in Nat
    <3>1. CASE y = x
      BY <3>1, <1>2
    <3>2. CASE y # x
      BY <3>2, <1>2, <2>1
    <3> QED BY <3>1, <3>2
  <2> QED BY <1>1, <2>1, <2>2
<1>7. ASSUME ~unlinked, NEW n \in Node PROVE Balanced(n)'
  <2>1. Holders(n)' = Holders(n) /\ Balanced(n)
    BY <1>1, <1>7 DEF Holders, OnlyMoves, Holding, Counted
  <2>2. Moved' = Moved
    BY <1>1 DEF Moved
  <2>3. \A y \in Ends : y # x => Counts'[y] = Counts[y]
    BY <1>2 DEF Counts
  <2>4. Counts'[x] = 0
    BY <1>2 DEF Counts
  <2>5. CASE n = k
    <3>1. InEntry(n)' = InEntry(n) \ {x} /\ x \in InEntry(n)
      BY <1>4, <2>5 DEF InEntry
    <3>2. Moving(n)' = Moving(n) \cup {t} /\ t \notin Moving(n)
      BY <1>1, <1>x, <2>5 DEF Moving, OnlyMoves
    <3>3. Total(Counts, InEntry(n)) = Total(Counts', InEntry(n)') + loc[t].e[2]
      <4>1. IsFiniteSet(InEntry(n)) /\ (\A y \in InEntry(n) : Counts[y] \in Nat)
            /\ Counts[x] = loc[t].e[2]
        BY <1>3, <1>7, CountFacts DEF InEntry
      <4>2. \A y \in InEntry(n) \ {x} : Counts'[y] = Counts[y]
        BY <2>3 DEF InEntry
      <4>3. Total(Counts, InEntry(n)) = Total(Counts', InEntry(n) \ {x}) + Counts[x]
        BY <3>1, <4>1, <4>2, TotalLess
      <4> QED BY <3>1, <4>1, <4>3
    <3>4. Total(Moved', Moving(n)') = Total(Moved, Moving(n)) + loc[t].e[2]
      <4>1. IsFiniteSet(Moving(n)) /\ (\A u \in Moving(n) : Moved[u] \in Nat)
            /\ Moved[t] = loc[t].e[2] /\ Moved[t] \in Nat
        BY <1>7, CountFacts DEF Moving
      <4>2. PICK s : s = Moving(n) \cup {t}
        OBVIOUS
      <4>3. IsFiniteSet(s) /\ t \in s /\ s \ {t} = Moving(n)
        BY <3>2, <4>1, <4>2, FS_AddElement
      <4>4. \A u \in s : Moved[u] \in Nat
        BY <4>1, <4>2
      <4>5. Total(Moved, s) = Moved[t] + Total(Moved, s \ {t})
        BY <4>3, <4>4, TotalAdd
      <4>6. Total(Moved, Moving(n)) \in Nat /\ loc[t].e[2] \in Nat
        BY <1>7, <4>1, CountFacts
      <4>7. Total(Moved', Moving(n)') = Total(Moved, s)
        BY <2>2, <3>2, <4>2
      <4>8. Total(Moved, s) = loc[t].e[2] + Total(Moved, Moving(n))
        BY <4>1, <4>3, <4>5
      <4> QED BY <4>6, <4>7, <4>8
    <3>5. Total(Counts', InEntry(n)') \in Nat
      <4>1. IsFiniteSet(InEntry(n) \ {x})
        BY CountFacts, FS_RemoveElement
      <4>2. \A y \in InEntry(n) \ {x} : Counts'[y] \in Nat
        BY <1>7, <2>3, CountFacts DEF InEntry
      <4> QED BY <3>1, <4>1, <4>2, UnderFinite
    <3>6. loc[t].e[2] \in Nat
      BY <1>7 DEF Counted
    <3> QED BY <1>1, <1>7, <2>1, <3>3, <3>4, <3>5, <3>6, CountFacts DEF Balanced
  <2>6. CASE n # k
    <3>1. Moving(n)' = Moving(n)
      BY <1>1, <1>x, <2>6 DEF Moving, OnlyMoves
    <3>2. x \notin InEntry(n)
      BY <1>4, <2>6 DEF InEntry
    <3>3. IsFiniteSet(InEntry(n)) /\ \A y \in InEntry(n) : Counts[y] \in Nat /\ Counts'[y] = Counts[y]
      BY <1>7, <2>3, <3>2, CountFacts DEF InEntry
    <3>4. Total(Counts', InEntry(n)') = Total(Counts, InEntry(n))
      <4>1. CASE Current(x)' = n
        <5>1. InEntry(n)' = InEntry(n) \cup {x}
          BY <1>4, <4>1, <3>2 DEF InEntry
        <5>2. Total(Counts', InEntry(n) \cup {x}) = Total(Counts, InEntry(n)) + Counts'[x]
          <6>1. Counts'[x] \in Nat
            BY <2>4
          <6>2. \A y \in InEntry(n) : Counts[y] \in Nat /\ Counts'[y] = Counts[y]
            BY <3>3
          <6>3. PICK s, f, g : s = InEntry(n) /\ f = Counts /\ g = Counts'
            OBVIOUS
          <6>4. IsFiniteSet(s) /\ x \notin s /\ g[x] \in Nat
            BY <3>2, <3>3, <6>1, <6>3
          <6>5. \A y \in s : f[y] \in Nat /\ g[y] = f[y]
            BY <6>2, <6>3
          <6>6. Total(g, s \cup {x}) = Total(f, s) + g[x]
            BY <6>4, <6>5, TotalMore
          <6> QED BY <6>3, <6>6
        <5>3. Total(Counts, InEntry(n)) \in Nat
          BY <1>7, CountFacts
        <5> QED BY <2>4, <5>1, <5>2, <5>3
      <4>2. CASE Current(x)' # n
        <5>1. InEntry(n)' = InEntry(n)
          BY <1>4, <4>2, <3>2 DEF InEntry
        <5> QED BY <5>1, <3>3, TotalSame
      <4> QED BY <4>1, <4>2
    <3> QED BY <1>1, <2>1, <2>2, <3>1, <3>4 DEF Balanced
  <2> QED BY <2>5, <2>6
<1> QED BY <1>1, <1>5, <1>6, <1>7 DEF Counted

\* transfer moves them to the exit tag.
LEMMA TransferCounts ==
    ASSUME Inv, Inv', Counted, NEW t \in Threads, Transfer(t) PROVE Counted'
<1>a. Typed /\ Typed' /\ Listed /\ Followed /\ KnowsOf(t)
  BY DEF Inv
<1>1. /\ UNCHANGED <<var, unlinked, loc>> /\ OnlyMoves(t)
      /\ pc[t] = "transfer" /\ pc'[t] = "sc_read"
  BY <1>a DEF Transfer, Goto, history, OnlyMoves, Typed
<1>x. PICK k \in Node, d \in Int : k = loc[t].mynode /\ d = loc[t].e[2]
  <2>1. At(t)
    BY <1>1, <1>a DEF KnowsOf, KnowsVersion, InSC
  <2> QED BY <2>1, <1>a, HeldNode, LocalFacts
<1>2. /\ exit'[k].count = exit[k].count + d
      /\ \A n \in Node : n # k => exit'[n] = exit[n]
  <2>1. exit' = [exit EXCEPT ![k] = Stored(@, [exit[k] EXCEPT !.count = @ + d, !.left = @ - 1])]
    BY <1>x DEF Transfer
  <2>2. exit \in [Node -> [count : Int, left : Int, nlP : BOOLEAN, toBeFreed : BOOLEAN]]
    BY <1>a DEF Typed, TypeOK
  <2> QED BY <2>1, <2>2 DEF Stored
<1>3. IsFiniteSet(Callers')
  BY <1>1, CallersFinite
<1>4. ASSUME ~unlinked
      PROVE  /\ \A y \in Ends : var'[y].count \in Nat
             /\ \A u \in Threads : loc'[u].e[2] \in Nat
  BY <1>1, <1>4 DEF Counted
<1>5. ASSUME ~unlinked, NEW n \in Node PROVE Balanced(n)'
  <2>1. Holders(n)' = Holders(n) /\ InEntry(n)' = InEntry(n)
    BY <1>1 DEF Holders, OnlyMoves, Holding, InEntry, Current
  <2>2. Moved' = Moved /\ Counts' = Counts /\ Balanced(n)
    BY <1>1, <1>5 DEF Moved, Counts, Counted
  <2>3. CASE n = k
    <3>1. Moving(n)' = Moving(n) \ {t} /\ t \in Moving(n)
      BY <1>1, <1>x, <2>3 DEF Moving, OnlyMoves
    <3>2. IsFiniteSet(Moving(n)) /\ (\A u \in Moving(n) : Moved[u] \in Nat) /\ Moved[t] = d
      BY <1>5, <1>x, CountFacts DEF Moving
    <3>3. Total(Moved, Moving(n)) = Moved[t] + Total(Moved, Moving(n) \ {t})
      BY <3>1, <3>2, TotalAdd
    <3>4. Total(Moved, Moving(n) \ {t}) \in Nat
      <4>1. IsFiniteSet(Moving(n) \ {t})
        BY <3>2, FS_RemoveElement
      <4> QED BY <4>1, <3>2, UnderFinite
    <3> QED BY <1>1, <1>2, <1>5, <2>1, <2>2, <2>3, <3>1, <3>2, <3>3, <3>4, CountFacts
            DEF Balanced
  <2>4. CASE n # k
    <3>1. Moving(n)' = Moving(n)
      BY <1>1, <1>x, <2>4 DEF Moving, OnlyMoves
    <3> QED BY <1>1, <1>2, <2>1, <2>2, <2>4, <3>1 DEF Balanced
  <2> QED BY <2>3, <2>4
<1> QED BY <1>1, <1>3, <1>4, <1>5 DEF Counted

\* release returns one.
LEMMA ReleaseCounts ==
    ASSUME Inv, Inv', Counted, NEW t \in Threads, Release(t) PROVE Counted'
<1>a. Typed /\ Typed' /\ Listed /\ Followed /\ KnowsOf(t)
  BY DEF Inv
<1>1. /\ UNCHANGED <<var, unlinked, loc>> /\ OnlyMoves(t)
      /\ pc[t] = "release" /\ pc'[t] \notin Holding
  BY <1>a DEF Release, Goto, history, OnlyMoves, Typed, After, Holding
<1>x. PICK k \in Node : k = loc[t].mynode
  <2>1. At(t)
    BY <1>1, <1>a DEF KnowsOf, KnowsVersion, Leaving
  <2> QED BY <2>1, <1>a, HeldNode
<1>2. /\ exit'[k].count = exit[k].count - 1
      /\ \A n \in Node : n # k => exit'[n] = exit[n]
  <2>1. exit' = [exit EXCEPT ![k] = Stored(@, [exit[k] EXCEPT !.count = @ - 1])]
    BY <1>x DEF Release
  <2>2. exit \in [Node -> [count : Int, left : Int, nlP : BOOLEAN, toBeFreed : BOOLEAN]]
    BY <1>a DEF Typed, TypeOK
  <2> QED BY <2>1, <2>2 DEF Stored
<1>3. IsFiniteSet(Callers')
  BY <1>1, CallersFinite
<1>4. ASSUME ~unlinked
      PROVE  /\ \A y \in Ends : var'[y].count \in Nat
             /\ \A u \in Threads : loc'[u].e[2] \in Nat
  BY <1>1, <1>4 DEF Counted
<1>5. ASSUME ~unlinked, NEW n \in Node PROVE Balanced(n)'
  <2>1. Moving(n)' = Moving(n) /\ InEntry(n)' = InEntry(n)
    BY <1>1 DEF Moving, OnlyMoves, Holding, InEntry, Current
  <2>2. Moved' = Moved /\ Counts' = Counts /\ Balanced(n)
    BY <1>1, <1>5 DEF Moved, Counts, Counted
  <2>3. CASE n = k
    <3>1. Holders(n)' = Holders(n) \ {t} /\ t \in Holders(n)
      BY <1>1, <1>x, <2>3 DEF Holders, OnlyMoves, Holding
    <3>2. Cardinality(Holders(n)') = Cardinality(Holders(n)) - 1
      BY <3>1, CountFacts, FS_RemoveElement
    <3> QED BY <1>1, <1>2, <1>5, <2>1, <2>2, <2>3, <3>2, CountFacts DEF Balanced
  <2>4. CASE n # k
    <3>1. Holders(n)' = Holders(n)
      BY <1>1, <1>x, <2>4 DEF Holders, OnlyMoves
    <3> QED BY <1>1, <1>2, <2>1, <2>2, <2>4, <3>1 DEF Balanced
  <2> QED BY <2>3, <2>4
<1> QED BY <1>1, <1>3, <1>4, <1>5 DEF Counted

\* After an unlink that found the entry tag as it read it, nothing is claimed.
LEMMA UnlinkCasCounts ==
    ASSUME Inv, Inv', Counted, NEW t \in Threads, UnlinkCas(t) PROVE Counted'
<1>a. Typed /\ End(t) = "head"
  <2>1. loc[t].op # "enq"
    BY DEF Inv, KnowsOf, KnowsEnq, Emptying, UnlinkCas
  <2> QED BY <2>1 DEF Inv, End
<1>1. CASE Entry("head") = loc[t].e
  <2>1. unlinked' /\ OnlyMoves(t)
    BY <1>1, <1>a DEF UnlinkCas, Goto, OnlyMoves, Typed
  <2> QED BY <2>1, CallersFinite DEF Counted
<1>2. CASE Entry("head") # loc[t].e
  BY <1>2, <1>a, FailedCounts
<1> QED BY <1>1, <1>2

LEMMA CountedInit == Init => Counted
<1> SUFFICES ASSUME Init PROVE Counted
  OBVIOUS
<1>1. Callers = {} /\ IsFiniteSet(Callers)
  BY FS_EmptySet DEF Init, Callers
<1>2. /\ \A x \in Ends : var[x].count = 0
      /\ \A t \in Threads : loc[t].e = <<0, 0>> /\ pc[t] = "idle"
  BY DEF Init, NoLocals
<1>3. \A t \in Threads : loc[t].e[2] \in Nat
  BY <1>2
<1>4. ASSUME NEW n \in Node PROVE Balanced(n)
  <2>1. Holders(n) = {} /\ Moving(n) = {}
    BY <1>2 DEF Holders, Moving, Holding
  <2>2. exit[n].count = 0
    BY DEF Init, Tag
  <2>3. Total(Counts, InEntry(n)) = 0
    <3>1. \A x \in InEntry(n) : {x} \X (1..Counts[x]) = {}
      BY <1>2 DEF Counts, InEntry
    <3>2. Under(Counts, InEntry(n)) = {}
      BY <3>1 DEF Under
    <3> QED BY <3>2, FS_EmptySet DEF Total
  <2> QED BY <2>1, <2>2, <2>3, TotalNone, FS_EmptySet DEF Balanced
<1> QED BY <1>1, <1>2, <1>3, <1>4 DEF Counted

LEMMA CountedNext == Inv /\ Inv' /\ Counted /\ [Next]_vars => Counted'
<1> SUFFICES ASSUME Inv, Inv', Counted, [Next]_vars PROVE Counted'
  OBVIOUS
<1>1. CASE UNCHANGED vars
  <2>1. UNCHANGED <<var, exit, unlinked, pc, loc>>
    BY <1>1 DEF vars, nodes, history
  <2>2. /\ Callers' = Callers /\ Counts' = Counts /\ Moved' = Moved
        /\ \A n \in Node : /\ Holders(n)' = Holders(n) /\ Moving(n)' = Moving(n)
                           /\ InEntry(n)' = InEntry(n)
    BY <2>1 DEF Callers, Counts, Moved, Holders, Moving, InEntry, Current
  <2>3. \A n \in Node : Balanced(n) => Balanced(n)'
    BY <2>1, <2>2 DEF Balanced
  <2> QED BY <2>1, <2>2, <2>3 DEF Counted
<1>2. CASE Next
  <2>1. PICK t \in Threads :
          \/ Step(t) \/ Return(t)
          \/ EnqNoMemory(t) \/ DeqCall(t) \/ \E v \in Val : EnqCall(t, v)
    BY <1>2 DEF Next
  <2>2. ASSUME LLCas(t) PROVE Counted'
    BY <2>2, LLCasCounts, FailedCounts
  <2>3. ASSUME SCCas(t) PROVE Counted'
    BY <2>3, SCCasCounts, FailedCounts
  <2>4. CASE Step(t)
    BY <2>2, <2>3, <2>4, QuietCounts, FlagCounts, SCSlotCounts, TransferCounts,
       ReleaseCounts, UnlinkCasCounts DEF Step
  <2>5. CASE Return(t) \/ EnqNoMemory(t) \/ DeqCall(t)
    BY <2>5, QuietCounts
  <2>6. CASE \E v \in Val : EnqCall(t, v)
    BY <2>6, EnqCallCounts
  <2> QED BY <2>1, <2>4, <2>5, <2>6
<1> QED BY <1>1, <1>2

\* The sums of ReferencesCounted, which fold over sets.
LEMMA EntrySum ==
    ASSUME Inv, Counted, ~unlinked, NEW n \in Node
    PROVE  MapThenSumSet(LAMBDA x : var[x].count, InEntry(n)) = Total(Counts, InEntry(n))
<1> DEFINE S == InEntry(n)
           F(h) == h = [s \in SUBSET S |->
                    IF s = {} THEN 0
                    ELSE var[CHOOSE x \in s : TRUE].count + h[s \ {CHOOSE x \in s : TRUE}]]
<1>1. MapThenSumSet(LAMBDA x : var[x].count, S) = (CHOOSE h : F(h))[S]
  BY DEF MapThenSumSet, MapThenFoldSet
<1>2. IsFiniteSet(S) /\ \A x \in S : Counts[x] \in Nat /\ Counts[x] = var[x].count
  BY CountFacts DEF InEntry
<1>3. ASSUME NEW h PROVE F(h) <=> FoldsTo(h, Counts, S)
  <2>1. ASSUME NEW s \in SUBSET S, s # {}
        PROVE  var[CHOOSE x \in s : TRUE].count = Counts[CHOOSE x \in s : TRUE]
    <3>1. (CHOOSE x \in s : TRUE) \in S
      BY <2>1
    <3> QED BY <1>2, <3>1
  <2> HIDE DEF S
  <2> QED BY <2>1 DEF FoldsTo
<1>4. PICK k : k = [s \in SUBSET S |-> Total(Counts, s)]
  OBVIOUS
<1>5. F(k)
  <2>1. FoldsTo(k, Counts, S)
    BY <1>2, <1>4, TotalFolds
  <2> QED BY <1>3, <2>1
<1>6. PICK g : g = CHOOSE h : F(h)
  OBVIOUS
<1> HIDE DEF F
<1>7. F(g)
  BY <1>5, <1>6
<1>8. g[S] = Total(Counts, S)
  BY <1>2, <1>3, <1>7, FoldsToTotal
<1> QED BY <1>1, <1>6, <1>8

LEMMA MovingSum ==
    ASSUME Inv, Counted, ~unlinked, NEW n \in Node
    PROVE  MapThenSumSet(LAMBDA t : loc[t].e[2], Moving(n)) = Total(Moved, Moving(n))
<1> DEFINE S == Moving(n)
           F(h) == h = [s \in SUBSET S |->
                    IF s = {} THEN 0
                    ELSE loc[CHOOSE x \in s : TRUE].e[2] + h[s \ {CHOOSE x \in s : TRUE}]]
<1>1. MapThenSumSet(LAMBDA t : loc[t].e[2], S) = (CHOOSE h : F(h))[S]
  BY DEF MapThenSumSet, MapThenFoldSet
<1>2. IsFiniteSet(S) /\ \A x \in S : Moved[x] \in Nat /\ Moved[x] = loc[x].e[2]
  BY CountFacts DEF Moving
<1>3. ASSUME NEW h PROVE F(h) <=> FoldsTo(h, Moved, S)
  <2>1. ASSUME NEW s \in SUBSET S, s # {}
        PROVE  loc[CHOOSE x \in s : TRUE].e[2] = Moved[CHOOSE x \in s : TRUE]
    <3>1. (CHOOSE x \in s : TRUE) \in S
      BY <2>1
    <3> QED BY <1>2, <3>1
  <2> HIDE DEF S
  <2> QED BY <2>1 DEF FoldsTo
<1>4. PICK k : k = [s \in SUBSET S |-> Total(Moved, s)]
  OBVIOUS
<1>5. F(k)
  <2>1. FoldsTo(k, Moved, S)
    BY <1>2, <1>4, TotalFolds
  <2> QED BY <1>3, <2>1
<1>6. PICK g : g = CHOOSE h : F(h)
  OBVIOUS
<1> HIDE DEF F
<1>7. F(g)
  BY <1>5, <1>6
<1>8. g[S] = Total(Moved, S)
  BY <1>2, <1>3, <1>7, FoldsToTotal
<1> QED BY <1>1, <1>6, <1>8

\* LL, SC, transfer and release count every reference to a node once, until an
\* unlink takes its reference from the entry tag of a version that is not its
\* own; for any number of threads.
THEOREM EveryReferenceCounted == Spec => []ReferencesCounted
<1>1. Inv /\ Counted => ReferencesCounted
  <2> SUFFICES ASSUME Inv, Counted, ~unlinked, NEW n \in Node
               PROVE  Cardinality(Holders(n)) =
                        exit[n].count
                            + MapThenSumSet(LAMBDA x : var[x].count, InEntry(n))
                            + MapThenSumSet(LAMBDA t : loc[t].e[2], Moving(n))
    BY DEF ReferencesCounted, InEntry, Moving
  <2>1. Balanced(n)
    BY DEF Counted
  <2> QED BY <2>1, EntrySum, MovingSum DEF Balanced
<1>2. Spec => []Counted
  BY CountedInit, CountedNext, Invariance, PTL DEF Spec
<1> QED BY <1>1, <1>2, Invariance, PTL

-----------------------------------------------------------------------------
(* The LL/SC queue implements the atomic queue *)

\* What callers see is a function of the thread, before and after a step.
LEMMA CalleeFunctions ==
    /\ Phase = [u \in Threads |-> Phase[u]] /\ Phase' = [u \in Threads |-> Phase'[u]]
    /\ Arg = [u \in Threads |-> Arg[u]] /\ Arg' = [u \in Threads |-> Arg'[u]]
    /\ Res = [u \in Threads |-> Res[u]] /\ Res' = [u \in Threads |-> Res'[u]]
<1>1. Phase = [u \in Threads |-> Phase[u]] /\ Phase' = [u \in Threads |-> Phase'[u]]
  BY DEF Phase
<1>2. Arg = [u \in Threads |-> Arg[u]] /\ Arg' = [u \in Threads |-> Arg'[u]]
  BY DEF Arg
<1>3. Res = [u \in Threads |-> Res[u]] /\ Res' = [u \in Threads |-> Res'[u]]
  BY DEF Res
<1> QED BY <1>1, <1>2, <1>3

\* The slot of head has been won exactly when it holds the successor.
LEMMA TakenMeans ==
    ASSUME Inv
    PROVE  HeadTaken <=> /\ var["head"].ver + 2 <= Len(chain)
                         /\ Other("head") = chain[var["head"].ver + 2]
<1> DEFINE v == var["head"].ver
<1>1. "head" \in Ends /\ v \in Nat /\ v + 1 <= Len(chain) /\ Len(chain) \in Nat
      /\ Current("head") = chain[v + 1]
  BY Basics DEF Inv, Followed, EndAt, Ends
<1>2. CASE v + 1 = Len(chain)
  <2>1. next[Current("head")] = NULL
    BY <1>1, <1>2 DEF Inv, Listed
  <2> QED BY <2>1, <1>1, <1>2 DEF HeadTaken
<1>3. CASE v + 1 # Len(chain)
  <2>1. v + 1 \in 1..(Len(chain) - 1) /\ (v + 1) + 1 = v + 2 /\ v + 2 \in 1..Len(chain)
    BY <1>1, <1>3
  <2>2. next[Current("head")] = chain[v + 2] /\ chain[v + 2] # NULL
    <3> HIDE DEF v
    <3>1. Typed /\ Listed
      BY DEF Inv
    <3>2. next[chain[v + 1]] = chain[v + 2]
      BY <2>1, <3>1 DEF Listed
    <3>3. chain[v + 2] \in Node /\ NULL \notin Node
      BY <2>1, <3>1, Basics
    <3> QED BY <1>1, <3>2, <3>3
  <2> QED BY <2>1, <2>2 DEF HeadTaken
<1> QED BY <1>2, <1>3

\* The same, as a state predicate that can be primed.
HeadWon ==
    /\ var["head"].ver + 2 <= Len(chain)
    /\ Other("head") = chain[var["head"].ver + 2]

LEMMA TakenMeansNext == Inv' => (HeadTaken' <=> HeadWon')
<1>1. Inv => (HeadTaken <=> HeadWon)
  BY TakenMeans DEF HeadWon
<1> QED BY <1>1, PTL

\* The values of linked nodes, and how many there are.
LEMMA EnqsFacts ==
    ASSUME Inv
    PROVE  /\ Enqs \in Seq(Val \union {NULL})
           /\ Len(chain) - 1 \in Nat /\ Len(Enqs) = Len(chain) - 1
           /\ \A i \in 1..(Len(chain) - 1) : Enqs[i] = val[chain[i + 1]]
<1>1. Len(chain) \in Nat /\ Len(chain) - 1 \in Nat
  BY Basics DEF Inv
<1>2. \A i \in 1..(Len(chain) - 1) : chain[i + 1] \in Node
  BY <1>1, Basics DEF Inv
<1>3. \A i \in 1..(Len(chain) - 1) : val[chain[i + 1]] \in Val \union {NULL}
  BY <1>2 DEF Inv, Typed, TypeOK
<1> QED BY <1>1, <1>3 DEF Enqs

ValuesStay == \A n \in Node : n < allocated => val'[n] = val[n]

LEMMA EnqsSame ==
    ASSUME Inv, chain' = chain, ValuesStay
    PROVE  Enqs' = Enqs
<1>1. \A i \in 1..(Len(chain) - 1) : i + 1 \in 1..Len(chain)
  BY Basics DEF Inv
<1>2. \A i \in 1..(Len(chain) - 1) : val'[chain[i + 1]] = val[chain[i + 1]]
  BY <1>1, Basics DEF Inv, Listed, ValuesStay
<1> QED BY <1>2 DEF Enqs

\* The node of an enq in progress, and the node a deq has won.
LEMMA CallNodes ==
    ASSUME Inv, NEW t \in Threads
    PROVE  /\ loc[t].nd # NULL => loc[t].nd \in Node /\ loc[t].nd < allocated
           /\ DeqWon(t) => Helps(t) /\ loc[t].target \in Node /\ loc[t].target < allocated
<1>a. Typed /\ Listed /\ Private /\ KnowsOf(t)
  BY DEF Inv
<1>1. loc[t].nd # NULL => loc[t].nd \in Node /\ loc[t].nd < allocated
  BY <1>a, LocalFacts DEF Private, Addr
<1>2. ASSUME DeqWon(t)
      PROVE  Helps(t) /\ loc[t].target \in Node /\ loc[t].target < allocated
  <2>1. loc[t].op = "deq" /\ loc[t].success = TRUE /\ pc[t] \in Label
    BY <1>2, <1>a, LocalFacts DEF DeqWon
  <2>2. Helps(t)
    BY <2>1, <1>a DEF KnowsOf, KnowsVersion, KnowsDeq, Found, Empty, Label,
                      InSC, Leaving, Emptying, Looking
  <2>3. loc[t].ver + 2 \in 1..Len(chain)
    BY <2>2, <1>a, LocalFacts, Basics DEF Helps
  <2> QED BY <2>2, <2>3, <1>a, Basics DEF Helps, Listed
<1> QED BY <1>1, <1>2

LEMMA OthersSame ==
    ASSUME Inv, NEW t \in Threads, OnlyMoves(t), ValuesStay
    PROVE  /\ Phase' = [Phase EXCEPT ![t] = Phase'[t]]
           /\ Arg' = [Arg EXCEPT ![t] = Arg'[t]]
           /\ Res' = [Res EXCEPT ![t] = Res'[t]]
<1>1. \A u \in Threads \ {t} : Phase'[u] = Phase[u]
  BY DEF OnlyMoves, Phase, EnqPending, DeqPending, DeqWon
<1>2. \A u \in Threads \ {t} : Arg'[u] = Arg[u]
  <2> SUFFICES ASSUME NEW u \in Threads \ {t} PROVE Arg'[u] = Arg[u]
    OBVIOUS
  <2>1. loc[u].nd # NULL => val'[loc[u].nd] = val[loc[u].nd]
    BY CallNodes DEF ValuesStay
  <2> QED BY <2>1 DEF Arg, OnlyMoves, EnqPending
<1>3. \A u \in Threads \ {t} : Res'[u] = Res[u]
  <2> SUFFICES ASSUME NEW u \in Threads \ {t} PROVE Res'[u] = Res[u]
    OBVIOUS
  <2>1. DeqWon(u) => val'[loc[u].target] = val[loc[u].target]
    BY CallNodes DEF ValuesStay
  <2>2. loc'[u] = loc[u] /\ (DeqWon(u)' <=> DeqWon(u))
    BY DEF OnlyMoves, DeqWon
  <2> QED BY <2>1, <2>2, <1>1 DEF Res
<1>4. Phase' = [Phase EXCEPT ![t] = Phase'[t]]
  BY <1>1, CalleeFunctions
<1>5. Arg' = [Arg EXCEPT ![t] = Arg'[t]]
  BY <1>2, CalleeFunctions
<1>6. Res' = [Res EXCEPT ![t] = Res'[t]]
  BY <1>3, CalleeFunctions
<1> QED BY <1>4, <1>5, <1>6

\* What a step leaves alone of the function it could have changed.
LEMMA SameAt ==
    ASSUME Inv, NEW t \in Threads, OnlyMoves(t), ValuesStay
    PROVE  /\ Phase'[t] = Phase[t] => Phase' = Phase
           /\ Arg'[t] = Arg[t] => Arg' = Arg
           /\ Res'[t] = Res[t] => Res' = Res
<1>1. ASSUME Phase'[t] = Phase[t] PROVE Phase' = Phase
  <2>1. Phase' = [Phase EXCEPT ![t] = Phase[t]]
    BY <1>1, OthersSame
  <2> QED BY <2>1, CalleeFunctions
<1>2. ASSUME Arg'[t] = Arg[t] PROVE Arg' = Arg
  <2>1. Arg' = [Arg EXCEPT ![t] = Arg[t]]
    BY <1>2, OthersSame
  <2> QED BY <2>1, CalleeFunctions
<1>3. ASSUME Res'[t] = Res[t] PROVE Res' = Res
  <2>1. Res' = [Res EXCEPT ![t] = Res[t]]
    BY <1>3, OthersSame
  <2> QED BY <2>1, CalleeFunctions
<1> QED BY <1>1, <1>2, <1>3

\* A step of t that its caller does not see.
LEMMA Stutter ==
    ASSUME Inv, NEW t \in Threads, OnlyMoves(t), ValuesStay, chain' = chain,
           Dequeued' = Dequeued, sawEmpty' = sawEmpty,
           Phase'[t] = Phase[t], Arg'[t] = Arg[t], Res'[t] = Res[t]
    PROVE  UNCHANGED FIFO!vars
<1>1. Enqs' = Enqs
  BY EnqsSame
<1>2. Phase' = Phase /\ Arg' = Arg /\ Res' = Res
  BY SameAt
<1> QED BY <1>1, <1>2 DEF FIFO!vars

\* A step inside a call, before it takes effect or after.
LEMMA InnerStutter ==
    ASSUME Inv, NEW t \in Threads, OnlyMoves(t), ValuesStay, chain' = chain,
           Dequeued' = Dequeued, sawEmpty' = sawEmpty,
           loc'[t].op = loc[t].op, loc'[t].nd = loc[t].nd,
           loc'[t].target = loc[t].target, loc'[t].success = loc[t].success,
           loc[t].op = "deq" /\ loc[t].success = FALSE => pc[t] # "ret" /\ pc'[t] # "ret"
    PROVE  UNCHANGED FIFO!vars
<1>0. loc[t].success \in BOOLEAN
  BY LocalFacts DEF Inv
<1>1. (EnqPending(t)' <=> EnqPending(t)) /\ (DeqWon(t)' <=> DeqWon(t))
  BY DEF EnqPending, DeqWon
<1>2. DeqPending(t)' <=> DeqPending(t)
  BY <1>0, <1>1 DEF DeqPending, DeqWon
<1>3. Phase'[t] = Phase[t]
  BY <1>1, <1>2 DEF Phase
<1>4. Arg'[t] = Arg[t]
  <2>1. loc[t].nd # NULL => val'[loc[t].nd] = val[loc[t].nd]
    BY CallNodes DEF ValuesStay
  <2> QED BY <1>1, <2>1 DEF Arg, EnqPending
<1>5. Res'[t] = Res[t]
  <2>1. DeqWon(t) => val'[loc[t].target] = val[loc[t].target]
    BY CallNodes DEF ValuesStay
  <2> QED BY <2>1, <1>1, <1>3 DEF Res
<1> QED BY <1>3, <1>4, <1>5, Stutter

LEMMA StillDequeued ==
    ASSUME Still
    PROVE  Dequeued' = Dequeued
<1>1. "head" \in Ends
  BY DEF Ends
<1>2. Current("head")' = Current("head") /\ Other("head")' = Other("head")
  BY <1>1, StillShape
<1> QED BY <1>1, <1>2 DEF Dequeued, HeadTaken, Still

LEMMA FIFOInit == Init => FIFO!Init
<1> SUFFICES ASSUME Init PROVE FIFO!Init
  OBVIOUS
<1>0. Inv
  BY InitInv
<1>1. chain = <<0>> /\ Len(chain) = 1 /\ var["head"].ver = 0
  BY DEF Init, Ends
<1>2. Enqs = <<>>
  BY <1>1 DEF Enqs
<1>3. Dequeued = 0
  <2>1. ~HeadTaken
    BY <1>0, <1>1, TakenMeans
  <2> QED BY <2>1, <1>1 DEF Dequeued
<1>4. \A t \in Threads : loc[t].op = "none"
  BY DEF Init, NoLocals
<1>5. Phase = [t \in Threads |-> "idle"]
  BY <1>4 DEF Phase, EnqPending, DeqPending
<1>6. Arg = [t \in Threads |-> NULL]
  BY <1>4 DEF Arg, EnqPending
<1>7. Res = [t \in Threads |-> FIFO!NoRes]
  BY <1>4, <1>5 DEF Res, DeqWon, FIFO!NoRes
<1> QED BY <1>2, <1>3, <1>5, <1>6, <1>7 DEF FIFO!Init, Init

\* The steps of LL and of SC that no caller sees.
LEMMA QuietFIFO ==
    ASSUME Inv, NEW t \in Threads,
           \/ LLEntry(t) \/ LLNode(t) \/ LLCas(t) \/ SCRead(t) \/ Transfer(t)
           \/ UnlinkRead(t) \/ SetToBeFreed(t)
    PROVE  UNCHANGED FIFO!vars
<1>a. /\ Typed /\ KnowsOf(t) /\ loc[t] \in Local /\ End(t) \in Ends
      /\ loc \in [Threads -> Local] /\ pc \in [Threads -> Label]
  BY LocalFacts, Basics DEF Inv, Typed
<1>1. /\ \/ var' = var
         \/ var' = [var EXCEPT ![End(t)].count = var[End(t)].count + 1]
      /\ UNCHANGED <<next, pred, val, allocated, history>>
      /\ pc'[t] = "ret" => pc[t] = "value"
      /\ pc[t] # "ret"
      /\ \A u \in Threads \ {t} : pc'[u] = pc[u] /\ loc'[u] = loc[u]
      /\ loc'[t].op = loc[t].op /\ loc'[t].nd = loc[t].nd
      /\ loc'[t].target = loc[t].target /\ loc'[t].success = loc[t].success
  <2>1. CASE LLEntry(t)
    BY <2>1, <1>a DEF LLEntry, Goto, nodes, Local
  <2>2. CASE LLNode(t)
    BY <2>2, <1>a DEF LLNode, Goto, nodes, Local
  <2>3. CASE LLCas(t)
    BY <2>3, <1>a DEF LLCas, Goto, nodes, Local
  <2>4. CASE SCRead(t)
    BY <2>4, <1>a DEF SCRead, Goto, nodes, Local
  <2>5. CASE Transfer(t)
    BY <2>5, <1>a DEF Transfer, Goto
  <2>6. CASE UnlinkRead(t)
    BY <2>6, <1>a DEF UnlinkRead, Goto, nodes, Local
  <2>7. CASE SetToBeFreed(t)
    BY <2>7, <1>a DEF SetToBeFreed, Goto
  <2> QED BY <2>1, <2>2, <2>3, <2>4, <2>5, <2>6, <2>7
<1>2. Still
  <2>1. CASE var' = var
    BY <2>1, <1>1 DEF Still, history
  <2>2. CASE var' = [var EXCEPT ![End(t)].count = var[End(t)].count + 1]
    <3>1. var[End(t)].count + 1 \in Int
      BY <1>a, Basics
    <3> QED BY <3>1, <2>2, <1>1, <1>a, CountOnly DEF Still, history
  <2> QED BY <1>1, <2>1, <2>2
<1>4. OnlyMoves(t) /\ ValuesStay /\ chain' = chain /\ sawEmpty' = sawEmpty
  BY <1>1 DEF OnlyMoves, ValuesStay, history
<1>5. loc[t].op = "deq" /\ loc[t].success = FALSE => pc[t] # "ret" /\ pc'[t] # "ret"
  BY <1>1, <1>a DEF KnowsOf, KnowsDeq
<1> QED BY <1>1, <1>2, <1>4, <1>5, StillDequeued, InnerStutter

\* A deq that found nothing takes effect where it leaves unlink or release.
LEMMA EmptyFIFO ==
    ASSUME Inv, NEW t \in Threads, OnlyMoves(t), Still, val' = val, sawEmpty' = sawEmpty,
           loc[t].op = "deq", Empty(t), pc[t] # "ret", pc'[t] = "ret",
           loc'[t].op = "deq", loc'[t].success = FALSE
    PROVE  FIFO!DeqEmpty(t)
<1>1. chain' = chain /\ ValuesStay
  BY DEF Still, ValuesStay
<1>2. Enqs' = Enqs /\ Dequeued' = Dequeued
  BY <1>1, EnqsSame, StillDequeued
<1>3. Phase[t] = "deq" /\ Phase'[t] = "deqRet"
  BY DEF Phase, EnqPending, DeqPending, DeqWon, Empty
<1>4. Arg'[t] = Arg[t]
  BY DEF Arg, EnqPending
<1>5. Res'[t] = Res[t]
  BY <1>3 DEF Res, DeqWon, Empty
<1>6. Phase' = [Phase EXCEPT ![t] = "deqRet"] /\ Arg' = Arg /\ Res' = Res
  BY <1>1, <1>3, <1>4, <1>5, OthersSame, SameAt
<1>7. sawEmpty[t]
  BY DEF Empty
<1> QED BY <1>2, <1>3, <1>6, <1>7 DEF FIFO!DeqEmpty

LEMMA LeavingFIFO ==
    ASSUME Inv, NEW t \in Threads, Release(t) \/ SetNLPred(t) \/ UnlinkCas(t)
    PROVE  FIFO!DeqEmpty(t) \/ UNCHANGED FIFO!vars
<1>a. Typed /\ KnowsOf(t) /\ loc[t] \in Local /\ "head" \in Ends
  BY LocalFacts DEF Inv, Ends
<1>1. /\ \/ var' = var
         \/ var' = [var EXCEPT !["head"].count = var["head"].count - 1]
      /\ UNCHANGED <<next, pred, val, allocated, chain, sawEmpty>>
      /\ loc' = loc \/ loc' = [loc EXCEPT ![t].e = <<0, 0>>]
      /\ \E l \in {"nlp", After(t), "ret", "release"} :
            /\ pc' = [pc EXCEPT ![t] = l]
            /\ pc[t] \in Leaving => l \in {"nlp", After(t)}
      /\ pc[t] \in Leaving \union {"unlink_cas"}
  <2>1. CASE Release(t)
    BY <2>1 DEF Release, Goto, history, Leaving
  <2>2. CASE SetNLPred(t)
    BY <2>2 DEF SetNLPred, Goto, history, Leaving
  <2>3. CASE UnlinkCas(t)
    BY <2>3 DEF UnlinkCas, Goto, nodes, Leaving
  <2> QED BY <2>1, <2>2, <2>3
<1>2. Still
  <2>1. CASE var' = var
    BY <2>1, <1>1 DEF Still
  <2>2. CASE var' = [var EXCEPT !["head"].count = var["head"].count - 1]
    <3>1. var["head"].count - 1 \in Int
      BY <1>a, Basics
    <3> QED BY <3>1, <2>2, <1>1, <1>a, CountOnly DEF Still
  <2> QED BY <1>1, <2>1, <2>2
<1>3. /\ loc'[t].op = loc[t].op /\ loc'[t].nd = loc[t].nd
      /\ loc'[t].target = loc[t].target /\ loc'[t].success = loc[t].success
      /\ \A u \in Threads \ {t} : loc'[u] = loc[u]
  BY <1>1, <1>a DEF Typed, Local
<1>4. OnlyMoves(t) /\ ValuesStay /\ chain' = chain /\ pc[t] # "ret"
  BY <1>1, <1>3, <1>a DEF OnlyMoves, ValuesStay, Typed, Leaving
<1>5. CASE ~(loc[t].op = "deq" /\ loc[t].success = FALSE /\ pc'[t] = "ret")
  BY <1>1, <1>2, <1>3, <1>4, <1>5, StillDequeued, InnerStutter
<1>6. CASE loc[t].op = "deq" /\ loc[t].success = FALSE /\ pc'[t] = "ret"
  <2>1. Empty(t)
    <3>1. CASE pc[t] \in Leaving
      <4>1. After(t) = "ret"
        BY <3>1, <1>1, <1>6, <1>a DEF Typed
      <4>2. loc[t].target = NULL
        BY <4>1, <1>6 DEF After
      <4>3. Found(t) \/ Empty(t)
        BY <3>1, <1>6, <1>a DEF KnowsOf, KnowsDeq
      <4>4. CASE Found(t)
        <5>1. loc[t].ver \in Nat /\ Len(chain) \in Nat
          BY <1>a, LocalFacts, Basics
        <5>2. loc[t].ver + 2 \in 1..Len(chain)
          BY <4>4, <5>1 DEF Found, Helps
        <5> QED BY <5>2, <4>4, <4>2, <1>a, Basics DEF Found, Helps
      <4> QED BY <4>3, <4>4
    <3>2. CASE pc[t] = "unlink_cas"
      BY <3>2, <1>6, <1>a DEF KnowsOf, KnowsDeq, Emptying
    <3> QED BY <1>1, <3>1, <3>2
  <2> QED BY <2>1, <1>1, <1>2, <1>3, <1>4, <1>6, EmptyFIFO
<1> QED BY <1>5, <1>6

\* Reading a null next from the node that is head shows deq an empty queue.
LEMMA DeqNextFIFO ==
    ASSUME Inv, NEW t \in Threads, DeqNext(t)
    PROVE  FIFO!DeqObserve(t) \/ UNCHANGED FIFO!vars
<1>a. Typed /\ Listed /\ Followed /\ KnowsOf(t) /\ loc[t] \in Local
  BY LocalFacts DEF Inv
<1>b. pc[t] = "next" /\ At(t) /\ loc[t].op \in {"none", "enq", "deq"}
  BY <1>a, LocalFacts DEF DeqNext, KnowsOf, KnowsVersion
<1>c. loc[t].op = "deq" /\ loc[t].success = FALSE /\ sawEmpty[t] = FALSE /\ End(t) = "head"
  BY <1>a, <1>b DEF KnowsOf, KnowsEnq, KnowsIdle, KnowsDeq, Looking, End
<1> DEFINE n == next[loc[t].mynode]
<1>1. /\ loc' = [loc EXCEPT ![t].target = n]
      /\ pc' = [pc EXCEPT ![t] = IF n = NULL THEN "unlink" ELSE "sc_slot"]
      /\ sawEmpty' = [sawEmpty EXCEPT ![t] = (n = NULL)]
      /\ UNCHANGED <<var, next, pred, val, allocated, chain>>
  BY DEF DeqNext, Goto, nodes
<1>d. n = IF loc[t].ver + 1 = Len(chain) THEN NULL ELSE chain[loc[t].ver + 2]
  BY <1>a, <1>b, HeldNode
<1>e. loc[t].ver \in Nat /\ loc[t].ver + 1 <= Len(chain) /\ Len(chain) \in Nat
  BY <1>a, <1>b, HeldNode, LocalFacts, Basics
<1>f. n = NULL <=> loc[t].ver + 1 = Len(chain)
  <2>1. CASE loc[t].ver + 1 = Len(chain)
    BY <2>1, <1>d
  <2>2. CASE loc[t].ver + 1 # Len(chain)
    <3>1. loc[t].ver + 2 \in 1..Len(chain)
      BY <2>2, <1>e
    <3> QED BY <3>1, <2>2, <1>d, <1>a, Basics
  <2> QED BY <2>1, <2>2
<1> HIDE DEF n
<1>2. /\ loc'[t].op = "deq" /\ loc'[t].success = FALSE /\ loc'[t].nd = loc[t].nd
      /\ \A u \in Threads \ {t} : loc'[u] = loc[u]
      /\ pc'[t] # "ret"
  BY <1>1, <1>a, <1>c DEF Typed, Local
<1>3. OnlyMoves(t) /\ ValuesStay /\ Still
  BY <1>1, <1>2, <1>a DEF OnlyMoves, ValuesStay, Still, Typed
<1>4. Phase[t] = "deq" /\ Phase'[t] = "deq" /\ Arg'[t] = Arg[t] /\ Res'[t] = Res[t]
  <2>1. ~EnqPending(t) /\ ~EnqPending(t)' /\ ~DeqWon(t) /\ ~DeqWon(t)'
    BY <1>2, <1>c DEF EnqPending, DeqWon
  <2>2. DeqPending(t) /\ DeqPending(t)'
    BY <2>1, <1>2, <1>b, <1>c DEF DeqPending
  <2>3. Phase[t] = "deq" /\ Phase'[t] = "deq"
    BY <2>1, <2>2, <1>2, <1>c DEF Phase
  <2> QED BY <2>1, <2>3 DEF Arg, Res
<1>5. Dequeued' = Dequeued
  BY <1>3, StillDequeued
<1>6. CASE n # NULL
  <2>1. sawEmpty' = sawEmpty
    BY <1>6, <1>1, <1>c, <1>a DEF Typed
  <2> QED BY <2>1, <1>1, <1>3, <1>4, <1>5, Stutter
<1>7. CASE n = NULL
  <2>1. sawEmpty' = [sawEmpty EXCEPT ![t] = TRUE]
    BY <1>7, <1>1
  <2>2. Dequeued = Len(Enqs)
    <3>1. var["head"].ver \in Nat /\ var["head"].ver + 1 <= Len(chain)
          /\ loc[t].ver <= var["head"].ver
      BY <1>a, <1>b, <1>c, Basics DEF Followed, EndAt, Ends, At
    <3>2. var["head"].ver = Len(chain) - 1
      BY <3>1, <1>7, <1>f, <1>e
    <3>3. ~HeadTaken
      BY <3>1, <3>2, <1>e, TakenMeans
    <3> QED BY <3>2, <3>3, <3>1, EnqsFacts DEF Dequeued
  <2>3. Phase' = Phase /\ Arg' = Arg /\ Res' = Res
    BY <1>3, <1>4, SameAt
  <2>4. Enqs' = Enqs
    BY <1>1, <1>3, EnqsSame
  <2> QED BY <2>1, <2>2, <2>3, <2>4, <1>4, <1>5 DEF FIFO!DeqObserve
<1> QED BY <1>6, <1>7

\* The cas that links the node is the moment the enq takes effect.
LEMMA EnqLinkFIFO ==
    ASSUME Inv, NEW t \in Threads, EnqLink(t)
    PROVE  FIFO!EnqEffect(t) \/ UNCHANGED FIFO!vars
<1>a. Typed /\ Listed /\ Followed /\ KnowsOf(t) /\ loc[t] \in Local
  BY LocalFacts DEF Inv
<1>b. pc[t] = "link" /\ At(t) /\ loc[t].op \in {"none", "enq", "deq"}
  BY <1>a, LocalFacts DEF EnqLink, KnowsOf, KnowsVersion
<1>c. /\ loc[t].op = "enq" /\ Fresh(t) /\ loc[t].target # loc[t].nd
      /\ loc[t].nd # NULL /\ loc[t].nd \in Node
  BY <1>a, <1>b, Basics DEF KnowsOf, KnowsEnq, KnowsDeq, KnowsIdle, Fresh
<1>1. /\ UNCHANGED <<var, val, allocated, sawEmpty>>
      /\ pc' = [pc EXCEPT ![t] = "sc_slot"]
      /\ \E x : loc' = [loc EXCEPT ![t].target = x]
  BY DEF EnqLink, Goto
<1>2. OnlyMoves(t) /\ ValuesStay /\ loc'[t].op = "enq" /\ loc'[t].nd = loc[t].nd
  BY <1>1, <1>a, <1>c DEF OnlyMoves, ValuesStay, Typed, Local
<1>3. EnqPending(t) /\ Phase[t] = "enq" /\ Arg[t] = val[loc[t].nd]
      /\ ~DeqWon(t) /\ ~DeqWon(t)' /\ Res[t] = FIFO!NoRes
  <2>1. EnqPending(t) /\ ~DeqWon(t) /\ ~DeqWon(t)'
    BY <1>c, <1>2 DEF EnqPending, DeqWon
  <2>2. Phase[t] = "enq"
    BY <2>1 DEF Phase
  <2> QED BY <2>1, <2>2 DEF Arg, Res, FIFO!NoRes
<1>4. CASE next[loc[t].mynode] # NULL
  <2>1. chain' = chain /\ next' = next /\ loc'[t].target = next[loc[t].mynode]
    BY <1>4, <1>a DEF EnqLink, Typed, Local
  <2>2. loc'[t].target # loc'[t].nd
    <3>1. loc[t].ver \in Nat /\ loc[t].ver + 1 <= Len(chain) /\ Len(chain) \in Nat
          /\ loc[t].ver + 1 # Len(chain) /\ next[loc[t].mynode] = chain[loc[t].ver + 2]
      BY <1>4, <1>a, <1>b, HeldNode, LocalFacts, Basics
    <3>2. loc[t].ver + 2 \in 1..Len(chain)
      BY <3>1
    <3> QED BY <3>1, <3>2, <2>1, <1>2, <1>c DEF Fresh
  <2>3. EnqPending(t)'
    BY <2>2, <1>2, <1>c DEF EnqPending
  <2>4. Phase'[t] = Phase[t] /\ Arg'[t] = Arg[t] /\ Res'[t] = Res[t]
    BY <2>3, <1>1, <1>2, <1>3 DEF Phase, Arg, Res, FIFO!NoRes
  <2>5. Dequeued' = Dequeued
    BY <2>1, <1>1 DEF Dequeued, HeadTaken, Other, Current
  <2> QED BY <2>1, <2>4, <2>5, <1>1, <1>2, Stutter
<1>5. CASE next[loc[t].mynode] = NULL
  <2>1. /\ Inv' /\ chain' = Append(chain, loc[t].nd) /\ Len(chain') = Len(chain) + 1
        /\ \A i \in 1..Len(chain) : chain'[i] = chain[i]
        /\ chain'[Len(chain) + 1] = loc[t].nd
    BY <1>5, LinkedList, EnqLinkInv
  <2>2. loc'[t].target = loc'[t].nd
    BY <1>5, <1>a DEF EnqLink, Typed, Local
  <2>3. Enqs' = Append(Enqs, Arg[t])
    <3>1. Arg[t] = val[loc[t].nd] /\ Arg[t] \in Val \union {NULL}
      BY <1>3, <1>c, <1>a DEF Typed, TypeOK
    <3>2. /\ Append(Enqs, Arg[t]) \in Seq(Val \union {NULL})
          /\ Len(Append(Enqs, Arg[t])) = Len(Enqs) + 1
          /\ \A i \in 1..Len(Enqs) : Append(Enqs, Arg[t])[i] = Enqs[i]
          /\ Append(Enqs, Arg[t])[Len(Enqs) + 1] = Arg[t]
      BY <3>1, EnqsFacts, AppendFacts
    <3>3. Len(chain) \in Nat /\ 1 <= Len(chain)
      BY <1>a, Basics
    <3>4. Len(Enqs) = Len(chain) - 1 /\ Len(chain) - 1 \in Nat
      BY EnqsFacts
    <3>5. Enqs' = [i \in 1..Len(chain) |-> val[chain'[i + 1]]]
      BY <1>1, <2>1, <3>3 DEF Enqs
    <3>6. \A i \in 1..Len(chain) : Append(Enqs, Arg[t])[i] = val[chain'[i + 1]]
      <4> SUFFICES ASSUME NEW i \in 1..Len(chain)
                   PROVE  Append(Enqs, Arg[t])[i] = val[chain'[i + 1]]
        OBVIOUS
      <4>1. CASE i = Len(chain)
        BY <2>1, <3>1, <3>2, <3>3, <3>4, <4>1
      <4>2. CASE i # Len(chain)
        <5>1. i \in 1..(Len(chain) - 1) /\ i + 1 \in 1..Len(chain)
          BY <3>3, <4>2
        <5> QED BY <2>1, <3>2, <3>4, <5>1, EnqsFacts
      <4> QED BY <4>1, <4>2
    <3>7. Append(Enqs, Arg[t]) = [i \in 1..Len(chain) |-> Append(Enqs, Arg[t])[i]]
      BY <3>2, <3>3, <3>4
    <3> QED BY <3>5, <3>6, <3>7
  <2>4. Phase'[t] = "enqRet" /\ Arg'[t] = NULL /\ Res'[t] = FIFO!Ok(NULL)
    <3>1. ~EnqPending(t)'
      BY <2>2 DEF EnqPending
    <3>2. Phase'[t] = "enqRet"
      BY <3>1, <1>2 DEF Phase
    <3> QED BY <3>1, <3>2, <1>2, <1>3, <1>c DEF Arg, Res, FIFO!Ok
  <2>5. Dequeued' = Dequeued
    <3>1. var' = var /\ Other("head")' = Other("head") /\ "head" \in Ends
      BY <1>1 DEF Other, Ends
    <3>2. var["head"].ver \in Nat /\ var["head"].ver + 1 <= Len(chain) /\ Len(chain) \in Nat
          /\ \/ Other("head") = Before(var["head"].ver)
             \/ var["head"].ver + 2 <= Len(chain) /\ Other("head") = chain[var["head"].ver + 2]
      <4>1. EndAt("head") /\ var["head"].ver \in Nat /\ Len(chain) \in Nat
        BY <3>1, <1>a, Basics DEF Followed
      <4> QED BY <4>1 DEF EndAt
    <3>3. HeadTaken' <=> HeadTaken
      <4>1. CASE var["head"].ver + 2 <= Len(chain)
        <5>1. var["head"].ver + 2 \in 1..Len(chain)
          BY <4>1, <3>2
        <5>2. chain'[var["head"].ver + 2] = chain[var["head"].ver + 2]
              /\ var["head"].ver + 2 <= Len(chain')
          BY <5>1, <2>1, <3>2
        <5>3. HeadTaken' <=> /\ var'["head"].ver + 2 <= Len(chain')
                             /\ Other("head")' = chain'[var'["head"].ver + 2]
          BY <2>1, TakenMeansNext DEF HeadWon
        <5> QED BY <5>2, <5>3, <4>1, <3>1, TakenMeans
      <4>2. CASE ~(var["head"].ver + 2 <= Len(chain))
        <5>1. ~HeadTaken /\ var["head"].ver + 2 = Len(chain) + 1
          BY <4>2, <3>2, TakenMeans
        <5>2. Other("head") # loc[t].nd
          <6>1. Other("head") = Before(var["head"].ver)
            BY <4>2, <3>2
          <6>2. CASE var["head"].ver = 0
            BY <6>1, <6>2, <1>c DEF Before, Fresh, Node
          <6>3. CASE var["head"].ver # 0
            <7>1. var["head"].ver \in 1..Len(chain)
              BY <6>3, <3>2
            <7> QED BY <7>1, <6>1, <6>3, <1>c DEF Before, Fresh
          <6> QED BY <6>2, <6>3
        <5>3. HeadTaken' <=> /\ var'["head"].ver + 2 <= Len(chain')
                             /\ Other("head")' = chain'[var'["head"].ver + 2]
          BY <2>1, TakenMeansNext DEF HeadWon
        <5> QED BY <5>1, <5>2, <5>3, <3>1, <2>1
      <4> QED BY <4>1, <4>2
    <3> QED BY <3>1, <3>3 DEF Dequeued
  <2>6. /\ Phase' = [Phase EXCEPT ![t] = "enqRet"] /\ Arg' = [Arg EXCEPT ![t] = NULL]
        /\ Res' = [Res EXCEPT ![t] = FIFO!Ok(NULL)]
    BY <2>4, <1>2, OthersSame
  <2> QED BY <1>1, <1>3, <2>3, <2>5, <2>6 DEF FIFO!EnqEffect
<1> QED BY <1>4, <1>5

\* The cas on the other slot of head is the moment the deq takes effect, though
\* the version may be moved later, by another thread.
LEMMA SCSlotFIFO ==
    ASSUME Inv, NEW t \in Threads, SCSlot(t)
    PROVE  FIFO!DeqEffect(t) \/ UNCHANGED FIFO!vars
<1>a. Typed /\ Listed /\ Followed /\ KnowsOf(t) /\ loc[t] \in Local /\ Inv'
  BY LocalFacts, SCSlotInv DEF Inv
<1>b. pc[t] = "sc_slot" /\ Helps(t) /\ End(t) \in Ends /\ loc[t].op \in {"enq", "deq"}
      /\ loc[t].ver \in Nat
  BY <1>a, LocalFacts, Basics DEF SCSlot, KnowsOf, KnowsVersion, KnowsIdle, InSC
<1>i. PICK i \in 0..1 : i = 1 - (loc[t].ver % 2)
  BY <1>b, Slots
<1> DEFINE ok == var[End(t)].ptr[i] = pred[loc[t].mynode]
<1>1. /\ var' = IF ok THEN [var EXCEPT ![End(t)].ptr[i] = loc[t].target] ELSE var
      /\ loc' = [loc EXCEPT ![t].success = ok]
      /\ pc' = [pc EXCEPT ![t] = "sc_read"]
      /\ UNCHANGED <<next, pred, val, allocated, history>>
  BY <1>i DEF SCSlot, Goto, nodes
<1>2. /\ ok => var[End(t)].ver = loc[t].ver /\ Other(End(t)) = Before(loc[t].ver)
      /\ ok \in BOOLEAN
  BY <1>b, <1>i, SlotFacts
<1>3. /\ loc'[t].op = loc[t].op /\ loc'[t].nd = loc[t].nd /\ loc'[t].ver = loc[t].ver
      /\ loc'[t].target = loc[t].target /\ loc'[t].success = ok
      /\ \A u \in Threads \ {t} : loc'[u] = loc[u]
      /\ pc'[t] = "sc_read" /\ chain' = chain /\ sawEmpty' = sawEmpty
  BY <1>1, <1>a DEF Typed, Local, history
<1>4. OnlyMoves(t) /\ ValuesStay
  BY <1>1, <1>3, <1>a DEF OnlyMoves, ValuesStay, Typed
<1>5. CASE loc[t].op = "enq"
  <2>1. var'["head"] = var["head"]
    BY <1>1, <1>5, <1>a DEF End, Typed, TypeOK, Ends
  <2>2. Dequeued' = Dequeued
    BY <2>1, <1>1 DEF Dequeued, HeadTaken, Other, Current
  <2>3. (EnqPending(t)' <=> EnqPending(t)) /\ ~DeqWon(t) /\ ~DeqWon(t)'
    BY <1>3, <1>5 DEF EnqPending, DeqWon
  <2>4. Phase'[t] = Phase[t] /\ Arg'[t] = Arg[t]
    BY <2>3, <1>3, <1>5, <1>1 DEF Phase, Arg
  <2>5. Res'[t] = Res[t]
    BY <2>3, <2>4, <1>3 DEF Res
  <2> QED BY <2>2, <2>4, <2>5, <1>3, <1>4, Stutter
<1>6. CASE loc[t].op = "deq"
  <2>1. loc[t].success = FALSE /\ End(t) = "head"
    BY <1>6, <1>a, <1>b DEF KnowsOf, KnowsDeq, End
  <2>2. CASE ~ok
    <3>1. var' = var /\ loc'[t].success = FALSE
      BY <2>2, <1>1, <1>2, <1>3
    <3>2. Dequeued' = Dequeued
      BY <3>1, <1>1 DEF Dequeued, HeadTaken, Other, Current
    <3> QED BY <2>1, <3>1, <3>2, <1>3, <1>4, <1>b, InnerStutter
  <2>3. CASE ok
    <3> DEFINE v == loc[t].ver
    <3>1. /\ loc'[t].success = TRUE /\ var["head"].ver = v
          /\ Other("head") = Before(v) /\ v \in Nat
          /\ v + 2 <= Len(chain) /\ loc[t].target = chain[v + 2]
      BY <2>3, <2>1, <1>2, <1>3, <1>b DEF Helps
    <3>2. var'["head"].ver = v /\ Other("head")' = loc[t].target
      <4>1. var' = [var EXCEPT !["head"].ptr[i] = loc[t].target]
        BY <2>3, <2>1, <1>1
      <4>2. "head" \in Ends /\ var \in [Ends -> [ptr : [0..1 -> Node], ver : Nat, count : Int]]
        BY <1>a DEF Ends, Typed, TypeOK
      <4>3. var'["head"].ver = var["head"].ver /\ var'["head"].ptr[i] = loc[t].target
        BY <4>1, <4>2
      <4>4. Other("head")' = var'["head"].ptr[i]
        BY <4>3, <3>1, <1>i DEF Other
      <4> QED BY <3>1, <4>3, <4>4
    <3>3. ~HeadTaken
      <4>1. Before(v) # chain[v + 2]
        <5>1. v + 2 \in 1..Len(chain) /\ Len(chain) \in Nat
          BY <3>1, <1>a, Basics
        <5>2. CASE v = 0
          BY <5>1, <5>2, <1>a DEF Before, Listed
        <5>3. CASE v # 0
          <6>1. v \in 1..Len(chain) /\ v # v + 2
            BY <5>1, <5>3, <3>1
          <6> QED BY <5>1, <5>3, <6>1, <1>a DEF Before, Listed
        <5> QED BY <5>2, <5>3
      <4> QED BY <4>1, <3>1, TakenMeans
    <3>4. HeadTaken'
      <4>1. HeadTaken' <=> /\ var'["head"].ver + 2 <= Len(chain')
                           /\ Other("head")' = chain'[var'["head"].ver + 2]
        BY <1>a, TakenMeansNext DEF HeadWon
      <4> QED BY <4>1, <3>1, <3>2, <1>3
    <3>5. Dequeued = v /\ Dequeued' = v + 1
      BY <3>1, <3>2, <3>3, <3>4 DEF Dequeued
    <3>6. v < Len(Enqs) /\ Enqs[v + 1] = val[loc[t].target]
      <4>1. v + 1 \in 1..(Len(chain) - 1) /\ (v + 1) + 1 = v + 2
            /\ Len(Enqs) = Len(chain) - 1
        <5>1. Len(chain) \in Nat /\ Len(Enqs) = Len(chain) - 1
          BY <1>a, EnqsFacts, Basics
        <5> HIDE DEF v
        <5> QED BY <3>1, <5>1
      <4> QED BY <4>1, <3>1, EnqsFacts
    <3>7. Phase[t] = "deq" /\ Phase'[t] = "deqRet" /\ Arg'[t] = Arg[t]
          /\ Res'[t] = FIFO!Ok(Enqs[v + 1])
      <4>1. ~EnqPending(t) /\ ~EnqPending(t)' /\ ~DeqWon(t) /\ DeqWon(t)'
        BY <1>3, <1>6, <2>1, <3>1 DEF EnqPending, DeqWon
      <4>2. DeqPending(t) /\ ~DeqPending(t)'
        BY <4>1, <1>6, <1>b DEF DeqPending
      <4>3. Phase[t] = "deq" /\ Phase'[t] = "deqRet"
        BY <4>1, <4>2, <1>3, <1>6 DEF Phase
      <4> QED BY <4>1, <4>3, <1>1, <1>3, <3>6 DEF Arg, Res, FIFO!Ok
    <3>8. /\ Phase' = [Phase EXCEPT ![t] = "deqRet"] /\ Arg' = Arg
          /\ Res' = [Res EXCEPT ![t] = FIFO!Ok(Enqs[v + 1])]
      BY <3>7, <1>4, OthersSame, SameAt
    <3>9. Enqs' = Enqs
      BY <1>3, <1>4, EnqsSame
    <3> HIDE DEF v
    <3> QED BY <3>5, <3>6, <3>7, <3>8, <3>9, <1>3 DEF FIFO!DeqEffect
  <2> QED BY <2>2, <2>3
<1> QED BY <1>b, <1>5, <1>6

\* When the version of head moves, its slot stops being a taken one: the number
\* of values dequeued stays.
LEMMA SCCasFIFO ==
    ASSUME Inv, NEW t \in Threads, SCCas(t)
    PROVE  UNCHANGED FIFO!vars
<1>a. Typed /\ Listed /\ Followed /\ KnowsOf(t) /\ Inv' /\ loc[t].ver \in Nat
  BY SCCasInv, LocalFacts DEF Inv
<1>b. /\ pc[t] = "sc_cas" /\ At(t) /\ Helps(t) /\ Won(t) /\ loc[t].e[1] = loc[t].ver
      /\ End(t) \in Ends
  BY <1>a, Basics DEF SCCas, KnowsOf, KnowsVersion, InSC
<1>1. /\ UNCHANGED <<next, pred, val, allocated, loc, history>>
      /\ \E l \in {"transfer", "sc_read"} : pc' = [pc EXCEPT ![t] = l]
  BY DEF SCCas, Goto, nodes
<1>2. OnlyMoves(t) /\ ValuesStay /\ chain' = chain /\ sawEmpty' = sawEmpty /\ pc'[t] # "ret"
      /\ loc' = loc
  BY <1>1, <1>a DEF OnlyMoves, ValuesStay, history, Typed
<1>3. Dequeued' = Dequeued
  <2>1. CASE var'["head"] = var["head"]
    BY <2>1, <1>1 DEF Dequeued, HeadTaken, Other, Current
  <2>2. CASE var'["head"] # var["head"]
    <3>1. /\ var' = [var EXCEPT ![End(t)].ver = var[End(t)].ver + 1, ![End(t)].count = 0]
          /\ Entry(End(t)) = loc[t].e
      BY <2>2 DEF SCCas
    <3>2. End(t) = "head"
      BY <3>1, <2>2, <1>b, <1>a DEF Typed, TypeOK, Ends
    <3>3. PICK v \in Nat : v = var["head"].ver /\ v = loc[t].ver
      BY <3>1, <3>2, <1>a, <1>b DEF Entry
    <3>4. Other("head") = chain[v + 2] /\ v + 2 <= Len(chain) /\ Len(chain) \in Nat
      BY <3>2, <3>3, <1>a, <1>b, Basics DEF Won, Helps
    <3>5. var'["head"].ver = v + 1
      <4>1. PICK c \in Int : c = 0
        OBVIOUS
      <4>2. var' = [var EXCEPT !["head"].ver = v + 1, !["head"].count = c]
        BY <4>1, <3>1, <3>2, <3>3
      <4>3. var \in [Ends -> [ptr : [0..1 -> Node], ver : Nat, count : Int]] /\ "head" \in Ends
        BY <1>a DEF Typed, TypeOK, Ends
      <4> QED BY <4>2, <4>3
    <3>6. HeadTaken
      BY <3>3, <3>4, TakenMeans
    <3>7. ~HeadTaken'
      <4>1. var'["head"].ptr = var["head"].ptr
        BY <3>1, <3>2, <1>a DEF Typed, TypeOK, Ends
      <4>2. Other("head")' = Current("head") /\ Current("head") = chain[v + 1]
        <5>1. 1 - ((v + 1) % 2) = v % 2
          BY Slots
        <5>2. Other("head")' = Current("head")
          BY <4>1, <3>3, <3>5, <5>1 DEF Other, Current
        <5>3. Current("head") = chain[v + 1]
          BY <3>3, <1>a DEF Followed, EndAt, Ends
        <5> QED BY <5>2, <5>3
      <4>3. HeadTaken' => /\ (v + 1) + 2 <= Len(chain)
                          /\ chain[v + 1] = chain[(v + 1) + 2]
        BY <1>a, <4>2, <3>5, <1>2, TakenMeansNext DEF HeadWon
      <4>4. ~((v + 1) + 2 <= Len(chain) /\ chain[v + 1] = chain[(v + 1) + 2])
        <5> SUFFICES ASSUME (v + 1) + 2 <= Len(chain), chain[v + 1] = chain[(v + 1) + 2]
                     PROVE  FALSE
          OBVIOUS
        <5>1. v + 1 \in 1..Len(chain) /\ (v + 1) + 2 \in 1..Len(chain) /\ v + 1 # (v + 1) + 2
          BY <3>4
        <5> QED BY <5>1, <1>a DEF Listed
      <4> QED BY <4>3, <4>4
    <3> QED BY <3>3, <3>5, <3>6, <3>7 DEF Dequeued
  <2> QED BY <2>1, <2>2
<1> QED BY <1>2, <1>3, <1>b, InnerStutter

LEMMA BeginFIFO ==
    ASSUME Inv, NEW t \in Threads, EnqNoMemory(t) \/ DeqCall(t)
    PROVE  FIFO!EnqFail(t) \/ FIFO!DeqCall(t)
<1>a. Typed /\ KnowsOf(t) /\ loc[t] \in Local
  BY LocalFacts DEF Inv
<1>b. pc[t] = "idle" /\ loc[t].op = "none" /\ loc[t].nd = NULL /\ loc[t].target = NULL
      /\ loc[t].success = FALSE
  <2>1. pc[t] = "idle" /\ loc[t] = NoLocals
    BY <1>a DEF EnqNoMemory, DeqCall, KnowsOf, KnowsIdle
  <2> QED BY <2>1 DEF NoLocals
<1>1. PICK o \in {"enq", "deq"} :
        /\ loc' = [loc EXCEPT ![t].op = o]
        /\ pc' = [pc EXCEPT ![t] = IF o = "enq" THEN "ret" ELSE "ll_entry"]
        /\ UNCHANGED <<var, next, pred, val, allocated, history>>
  <2>1. CASE EnqNoMemory(t)
    BY <2>1 DEF EnqNoMemory, Goto, nodes
  <2>2. CASE DeqCall(t)
    BY <2>2 DEF DeqCall, Goto, nodes
  <2> QED BY <2>1, <2>2
<1>2. /\ loc'[t].op = o /\ loc'[t].nd = NULL /\ loc'[t].success = FALSE
      /\ pc'[t] = (IF o = "enq" THEN "ret" ELSE "ll_entry")
      /\ \A u \in Threads \ {t} : loc'[u] = loc[u]
  BY <1>1, <1>a, <1>b DEF Typed, Local
<1>3. OnlyMoves(t) /\ ValuesStay /\ Still /\ chain' = chain /\ sawEmpty' = sawEmpty
  BY <1>1, <1>2, <1>a DEF OnlyMoves, ValuesStay, Still, history, Typed
<1>4. Phase[t] = "idle" /\ Arg[t] = NULL /\ Res[t] = FIFO!NoRes
  <2>1. ~EnqPending(t) /\ ~DeqPending(t) /\ ~DeqWon(t)
    BY <1>b DEF EnqPending, DeqPending, DeqWon
  <2>2. Phase[t] = "idle"
    BY <2>1, <1>b DEF Phase
  <2> QED BY <2>1, <2>2 DEF Arg, Res, FIFO!NoRes
<1>5. Phase'[t] = (IF o = "enq" THEN "enqRet" ELSE "deq") /\ Arg'[t] = NULL
      /\ Res'[t] = FIFO!NoRes
  <2>1. ~EnqPending(t)' /\ ~DeqWon(t)' /\ (DeqPending(t)' <=> o = "deq")
    BY <1>2 DEF EnqPending, DeqPending, DeqWon
  <2>2. Phase'[t] = IF o = "enq" THEN "enqRet" ELSE "deq"
    BY <2>1, <1>2 DEF Phase
  <2> QED BY <2>1, <2>2, <1>2 DEF Arg, Res, FIFO!NoRes
<1>6. /\ Enqs' = Enqs /\ Dequeued' = Dequeued
      /\ Phase' = [Phase EXCEPT ![t] = IF o = "enq" THEN "enqRet" ELSE "deq"]
      /\ Arg' = Arg /\ Res' = Res
  BY <1>3, <1>4, <1>5, EnqsSame, StillDequeued, OthersSame, SameAt
<1>7. CASE o = "enq"
  BY <1>3, <1>4, <1>6, <1>7 DEF FIFO!EnqFail
<1>8. CASE o = "deq"
  BY <1>3, <1>4, <1>6, <1>8 DEF FIFO!DeqCall
<1> QED BY <1>7, <1>8

LEMMA EnqCallFIFO ==
    ASSUME Inv, NEW t \in Threads, NEW v \in Val, EnqCall(t, v)
    PROVE  FIFO!EnqCall(t, v)
<1>a. Typed /\ KnowsOf(t) /\ loc[t] \in Local
  BY LocalFacts DEF Inv
<1>b. pc[t] = "idle" /\ loc[t].op = "none" /\ loc[t].nd = NULL /\ loc[t].target = NULL
      /\ loc[t].success = FALSE
  <2>1. pc[t] = "idle" /\ loc[t] = NoLocals
    BY <1>a DEF EnqCall, KnowsOf, KnowsIdle
  <2> QED BY <2>1 DEF NoLocals
<1>1. /\ loc' = [loc EXCEPT ![t].op = "enq", ![t].nd = allocated]
      /\ pc' = [pc EXCEPT ![t] = "ll_entry"]
      /\ val' = [val EXCEPT ![allocated] = v] /\ allocated < MaxNodes
      /\ UNCHANGED <<var, next, pred, history>>
  BY DEF EnqCall, Goto
<1>2. allocated \in Node /\ allocated # NULL
  BY <1>a, <1>1, Basics, LLSCAssumption DEF Node
<1>3. /\ loc'[t].op = "enq" /\ loc'[t].nd = allocated /\ loc'[t].target = NULL
      /\ loc'[t].success = FALSE
      /\ \A u \in Threads \ {t} : loc'[u] = loc[u]
      /\ val'[allocated] = v
  BY <1>1, <1>2, <1>a, <1>b DEF Typed, TypeOK, Local
<1>4. OnlyMoves(t) /\ ValuesStay /\ chain' = chain /\ sawEmpty' = sawEmpty
  <2>1. \A n \in Node : n < allocated => n # allocated
    BY <1>a, Basics
  <2>2. ValuesStay
    BY <2>1, <1>1, <1>a DEF ValuesStay, Typed, TypeOK
  <2> QED BY <2>2, <1>1, <1>3, <1>a DEF OnlyMoves, history, Typed
<1>5. Dequeued' = Dequeued
  BY <1>1 DEF Dequeued, HeadTaken, Other, Current
<1>6. Phase[t] = "idle" /\ Res[t] = FIFO!NoRes
  <2>1. ~EnqPending(t) /\ ~DeqPending(t) /\ ~DeqWon(t)
    BY <1>b DEF EnqPending, DeqPending, DeqWon
  <2>2. Phase[t] = "idle"
    BY <2>1, <1>b DEF Phase
  <2> QED BY <2>1, <2>2 DEF Res, FIFO!NoRes
<1>7. Phase'[t] = "enq" /\ Arg'[t] = v /\ Res'[t] = FIFO!NoRes
  <2>1. EnqPending(t)' /\ ~DeqWon(t)'
    BY <1>2, <1>3 DEF EnqPending, DeqWon
  <2>2. Phase'[t] = "enq"
    BY <2>1 DEF Phase
  <2> QED BY <2>1, <2>2, <1>3 DEF Arg, Res, FIFO!NoRes
<1>8. /\ Enqs' = Enqs /\ Phase' = [Phase EXCEPT ![t] = "enq"]
      /\ Arg' = [Arg EXCEPT ![t] = v] /\ Res' = Res
  BY <1>4, <1>6, <1>7, EnqsSame, OthersSame, SameAt
<1> QED BY <1>4, <1>5, <1>6, <1>8 DEF FIFO!EnqCall

LEMMA ReturnFIFO ==
    ASSUME Inv, NEW t \in Threads, Return(t)
    PROVE  FIFO!Return(t)
<1>a. Typed /\ KnowsOf(t) /\ loc[t] \in Local /\ loc[t].op \in {"none", "enq", "deq"}
  BY LocalFacts DEF Inv
<1>1. /\ pc[t] = "ret"
      /\ loc' = [loc EXCEPT ![t] = NoLocals] /\ pc' = [pc EXCEPT ![t] = "idle"]
      /\ sawEmpty' = [sawEmpty EXCEPT ![t] = FALSE]
      /\ UNCHANGED <<var, next, pred, val, allocated, chain>>
  BY DEF Return, Goto, nodes
<1>2. loc'[t] = NoLocals /\ loc'[t].op = "none"
      /\ \A u \in Threads \ {t} : loc'[u] = loc[u]
  BY <1>1, <1>a DEF Typed, NoLocals
<1>3. OnlyMoves(t) /\ ValuesStay /\ Still
  BY <1>1, <1>2, <1>a DEF OnlyMoves, ValuesStay, Still, Typed
<1>4. Phase[t] \in {"enqRet", "deqRet"} /\ Arg[t] = NULL
  <2>1. ~EnqPending(t) /\ ~DeqPending(t)
    BY <1>1, <1>a DEF EnqPending, DeqPending, KnowsOf, KnowsEnq
  <2>2. loc[t].op \in {"enq", "deq"}
    BY <1>1, <1>a DEF KnowsOf, KnowsIdle
  <2> QED BY <2>1, <2>2 DEF Phase, Arg
<1>5. Phase'[t] = "idle" /\ Arg'[t] = NULL /\ Res'[t] = FIFO!NoRes
  <2>1. ~EnqPending(t)' /\ ~DeqPending(t)' /\ ~DeqWon(t)'
    BY <1>2 DEF EnqPending, DeqPending, DeqWon
  <2>2. Phase'[t] = "idle"
    BY <2>1, <1>2 DEF Phase
  <2> QED BY <2>1, <2>2 DEF Arg, Res, FIFO!NoRes
<1>6. /\ Enqs' = Enqs /\ Dequeued' = Dequeued
      /\ Phase' = [Phase EXCEPT ![t] = "idle"] /\ Arg' = Arg
      /\ Res' = [Res EXCEPT ![t] = FIFO!NoRes]
  BY <1>1, <1>3, <1>4, <1>5, EnqsSame, StillDequeued, OthersSame, SameAt
<1> QED BY <1>1, <1>4, <1>6 DEF FIFO!Return

\* The queue of LLSCLockFreeQueue.c is an atomic first-in first-out queue for
\* every number of threads, nodes and values: linearizability.
THEOREM QueueIsFIFO == Spec => RefinesFIFO
<1>1. Inv /\ [Next]_vars => [FIFO!Next]_(FIFO!vars)
  <2> SUFFICES ASSUME Inv, [Next]_vars
               PROVE  FIFO!Next \/ UNCHANGED FIFO!vars
    OBVIOUS
  <2>1. CASE UNCHANGED vars
    <3>1. UNCHANGED <<var, next, val, pc, loc, chain, sawEmpty>>
      BY <2>1 DEF vars, nodes, history
    <3>2. UNCHANGED <<Enqs, Dequeued, sawEmpty>>
      BY <3>1 DEF Enqs, Dequeued, HeadTaken, Other, Current
    <3>3. UNCHANGED <<Phase, Arg, Res>>
      BY <3>1 DEF Phase, Arg, Res, EnqPending, DeqPending, DeqWon
    <3> QED BY <3>2, <3>3 DEF FIFO!vars
  <2>2. CASE Next
    <3>1. PICK t \in Threads :
            \/ Step(t) \/ Return(t)
            \/ EnqNoMemory(t) \/ DeqCall(t) \/ \E v \in Val : EnqCall(t, v)
      BY <2>2 DEF Next
    <3>2. CASE Step(t)
      <4>1. FIFO!EnqEffect(t) \/ FIFO!DeqEffect(t) \/ FIFO!DeqObserve(t)
              \/ FIFO!DeqEmpty(t) \/ UNCHANGED FIFO!vars
        BY <3>2, QuietFIFO, LeavingFIFO, DeqNextFIFO, EnqLinkFIFO, SCSlotFIFO, SCCasFIFO
           DEF Step
      <4> QED BY <4>1 DEF FIFO!Next
    <3>3. CASE Return(t)
      BY <3>3, ReturnFIFO DEF FIFO!Next
    <3>4. CASE EnqNoMemory(t) \/ DeqCall(t)
      BY <3>4, BeginFIFO DEF FIFO!Next
    <3>5. CASE \E v \in Val : EnqCall(t, v)
      BY <3>5, EnqCallFIFO DEF FIFO!Next
    <3> QED BY <3>1, <3>2, <3>3, <3>4, <3>5
  <2> QED BY <2>1, <2>2
<1> QED BY <1>1, FIFOInit, Invariance, PTL DEF Spec, RefinesFIFO, FIFO!Spec

=============================================================================
