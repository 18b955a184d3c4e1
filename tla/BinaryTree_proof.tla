-------------------------- MODULE BinaryTree_proof --------------------------
(***************************************************************************)
(* Proofs about the binary tree, for any blocks, words and bounds and      *)
(* under either kind of failure: its blocks are those in use, it is a      *)
(* search tree, and it implements the durable count of words.              *)
(***************************************************************************)
EXTENDS BinaryTree, TLAPS
-----------------------------------------------------------------------------
(* Trees.  c is a value of cell, f of word, L of live. *)

Side == {"left", "right"}

\* S has what d points at, and all that its own blocks point at.
Closed(c, d, S) == \A e \in {d} \union (S \X Side) : c[e] \in S \union {NULL}

\* Below(d), and the cells of that subtree.
Tree(c, d) == {b \in Block : \A S \in SUBSET Block : Closed(c, d, S) => b \in S}
CellsOf(c, d) == {d} \union (Tree(c, d) \X Side)

\* SearchTree
Ordered(c, L, f) ==
    \A b \in L :
        /\ \A x \in Tree(c, left_(b)) : f[x] < f[b]
        /\ \A x \in Tree(c, right_(b)) : f[x] > f[b]

\* d is on the path of the word w, ...
OnPath(c, L, f, w, d) ==
    \A b \in L :
        /\ d \in CellsOf(c, left_(b)) => w < f[b]
        /\ d \in CellsOf(c, right_(b)) => w > f[b]

\* ... and a node of w can only be below it.
Leads(c, L, f, w, d) == \A b \in L : f[b] = w => b \in Tree(c, d)

\* No two pointers to one block.
Single(c) == \A d, e \in Cell : c[d] = c[e] /\ c[d] # NULL => d = e
-----------------------------------------------------------------------------
(* The inductive invariant *)

Reached == {root_} \union (live \X Side)

\* A block that is not in use points nowhere.
Pointers ==
    /\ live = Tree(cell, root_)
    /\ Single(cell)
    /\ \A b \in Block \ live : Leaf(b)

\* A word has one node.
Distinct == \A b, c \in live : word[b] = word[c] => b = c

\* Where power can fail, a count is durable but while InsertPersist is due.
Counting ==
    \A b \in live :
        /\ word[b] \in Word
        /\ count[b] \in 1..MaxCount /\ pcount[b] \in 1..MaxCount
        /\ "power" \in failures =>
               \/ pcount[b] = count[b]
               \/ pc = "persist" /\ b = cell[at] /\ count[b] = pcount[b] + 1

\* The new node has a place, and there is none of its word.
Unlinked ==
    /\ tnp \in Block \ live
    /\ at \in Reached /\ cell[at] = NULL
    /\ OnPath(cell, live, word, arg, at)
    /\ \A b \in live : word[b] # arg

KnowsInsert ==
    /\ pc \in Inserting => arg \in Word
    /\ pc = "insert" =>
           /\ tnp = NULL
           /\ at \in Reached
           /\ OnPath(cell, live, word, arg, at)
           /\ Leads(cell, live, word, arg, at)
           /\ \A b \in live : word[b] = arg => count[b] < MaxCount
    /\ pc = "activate" => Unlinked
    /\ pc = "activating" =>
           /\ call = [op |-> "activate", block |-> tnp, cells |-> {at}]
           /\ tnp \in live \/ Unlinked
           /\ pcount[tnp] = 1
    /\ pc \in {"activate", "activating"} =>
           tnp \in Block /\ word[tnp] = arg /\ count[tnp] = 1
    /\ pc \in {"persist", "ret"} => cell[at] \in live /\ word[cell[at]] = arg

KnowsFree ==
    /\ pc = "free" => at = root_ \/ (at \in Reached /\ cell[at] # NULL)
    /\ pc \in {"onfree", "free_node"} => cell[at] \in live /\ Leaf(cell[at])
    /\ pc = "freeing" =>
           /\ call = [op |-> "free", block |-> call.block, cells |-> {at}]
           /\ call.block \in Block
           /\ call.block \in live => cell[at] = call.block /\ Leaf(call.block)

Knows ==
    /\ pc \in Inserting \union {"idle", "free", "onfree", "free_node", "freeing"}
    /\ ~up => pc = "idle"
    /\ pc = "idle" => at = root_
    /\ pc \notin Inserting => arg = NULL /\ tnp = NULL
    /\ pc \notin {"activating", "freeing"} => call = Heap!NoCall
    /\ KnowsInsert
    /\ KnowsFree

Typed == TypeOK /\ up \in BOOLEAN /\ failures \in FailureModes

Inv ==
    /\ Typed
    /\ Pointers
    /\ Ordered(cell, live, word)
    /\ Distinct
    /\ Counting
    /\ Knows
-----------------------------------------------------------------------------
(* Trees *)

\* What cell may be, and what its keys are.
CellFun == [Cell -> Block \union {NULL}]

LEMMA Cells ==
  ASSUME NEW b \in Block
  PROVE  /\ left_(b) \in Cell /\ right_(b) \in Cell /\ root_ \in Cell
         /\ left_(b) # root_ /\ right_(b) # root_ /\ left_(b) # right_(b)
         /\ \A x : (left_(x) = left_(b) \/ right_(x) = right_(b)) => x = b
         /\ \A x : left_(x) # right_(b)
         /\ \A s \in Side : <<b, s>> \in Cell /\ <<b, s>> \in {left_(b), right_(b)}
  BY DEF Cell, left_, right_, root_, Side

LEMMA TreeClosed ==
  ASSUME NEW c \in CellFun, NEW d \in Cell
  PROVE  /\ Tree(c, d) \subseteq Block
         /\ CellsOf(c, d) \subseteq Cell
         /\ \A e \in CellsOf(c, d) : c[e] # NULL => c[e] \in Tree(c, d)
<1>1. Tree(c, d) \subseteq Block
  BY DEF Tree
<1>2. CellsOf(c, d) \subseteq Cell
  BY <1>1 DEF CellsOf, Cell, Side
<1>3. ASSUME NEW e \in CellsOf(c, d), c[e] # NULL
      PROVE  c[e] \in Tree(c, d)
  <2>1. c[e] \in Block
    BY <1>2, <1>3 DEF CellFun
  <2>2. ASSUME NEW S \in SUBSET Block, Closed(c, d, S)
        PROVE  c[e] \in S
    <3>1. Tree(c, d) \subseteq S
      BY <2>2 DEF Tree
    <3>2. e \in {d} \union (S \X Side)
      BY <3>1 DEF CellsOf
    <3> QED
      BY <3>2, <2>2, <1>3 DEF Closed
  <2> QED
    BY <2>1, <2>2 DEF Tree
<1> QED
  BY <1>1, <1>2, <1>3

LEMMA TreeLeast ==
  ASSUME NEW c, NEW d, NEW S \in SUBSET Block, Closed(c, d, S)
  PROVE  Tree(c, d) \subseteq S
  BY DEF Tree

\* A block of a tree has a pointer to it in the tree.
LEMMA TreeFrom ==
  ASSUME NEW c \in CellFun, NEW d \in Cell, NEW b \in Tree(c, d)
  PROVE  \E e \in CellsOf(c, d) : c[e] = b
<1> DEFINE S == {x \in Tree(c, d) : \E e \in CellsOf(c, d) : c[e] = x}
<1>1. S \in SUBSET Block
  BY TreeClosed
<1>2. ASSUME NEW e \in {d} \union (S \X Side), c[e] # NULL
      PROVE  c[e] \in S
  <2>1. e \in CellsOf(c, d)
    BY DEF CellsOf
  <2> QED
    BY <2>1, <1>2, TreeClosed
<1>3. Closed(c, d, S)
  BY <1>2 DEF Closed
<1> HIDE DEF S
<1>4. b \in S
  BY <1>1, <1>3, TreeLeast
<1> QED
  BY <1>4 DEF S

LEMMA TreeNested ==
  ASSUME NEW c \in CellFun, NEW d \in Cell, NEW e \in CellsOf(c, d)
  PROVE  Tree(c, e) \subseteq Tree(c, d) /\ CellsOf(c, e) \subseteq CellsOf(c, d)
<1> DEFINE S == Tree(c, d)
<1>1. ASSUME NEW x \in {e} \union (S \X Side), c[x] # NULL
      PROVE  c[x] \in S
  <2>1. x \in CellsOf(c, d)
    BY DEF CellsOf
  <2> QED
    BY <2>1, <1>1, TreeClosed
<1>2. Closed(c, e, S)
  BY <1>1 DEF Closed
<1>3. S \in SUBSET Block
  BY TreeClosed
<1> HIDE DEF S
<1>4. Tree(c, e) \subseteq S
  BY <1>2, <1>3, TreeLeast
<1> QED
  BY <1>4 DEF S, CellsOf

LEMMA TreeEmpty ==
  ASSUME NEW c, NEW d, c[d] = NULL
  PROVE  Tree(c, d) = {}
<1>1. Closed(c, d, {})
  BY DEF Closed
<1> QED
  BY <1>1, TreeLeast

LEMMA TreeSplit ==
  ASSUME NEW c \in CellFun, NEW d \in Cell, NEW b \in Block, c[d] = b
  PROVE  Tree(c, d) \subseteq {b} \union Tree(c, left_(b)) \union Tree(c, right_(b))
<1> DEFINE S == {b} \union Tree(c, left_(b)) \union Tree(c, right_(b))
<1>1. S \in SUBSET Block
  BY TreeClosed, Cells
<1>2. ASSUME NEW x \in {d} \union (S \X Side), c[x] # NULL
      PROVE  c[x] \in S
  <2>1. CASE x = d
    BY <2>1
  <2>2. ASSUME NEW e \in {left_(b), right_(b)}, x \in CellsOf(c, e)
        PROVE  c[x] \in S
    BY <2>2, <1>2, TreeClosed, Cells
  <2>3. x = d \/ x \in {left_(b), right_(b)} \/ x \in Tree(c, left_(b)) \X Side
            \/ x \in Tree(c, right_(b)) \X Side
    BY Cells
  <2> QED
    BY <2>1, <2>2, <2>3 DEF CellsOf
<1>3. Closed(c, d, S)
  BY <1>2 DEF Closed
<1> QED
  <2> HIDE DEF S
  <2> QED
    BY <1>1, <1>3, TreeLeast DEF S

\* An insertion that goes one node further down.
LEMMA Descend ==
  ASSUME NEW c \in CellFun, Single(c), NEW f, NEW w \in Nat, NEW d \in CellsOf(c, root_),
         NEW b \in Block, c[d] = b, w # f[b],
         \A x \in Tree(c, root_) : f[x] \in Nat,
         Ordered(c, Tree(c, root_), f),
         OnPath(c, Tree(c, root_), f, w, d),
         Leads(c, Tree(c, root_), f, w, d),
         NEW e, e = IF w < f[b] THEN left_(b) ELSE right_(b)
  PROVE  /\ e \in CellsOf(c, root_)
         /\ OnPath(c, Tree(c, root_), f, w, e)
         /\ Leads(c, Tree(c, root_), f, w, e)
<1> DEFINE L == Tree(c, root_)
<1>1. root_ \in Cell /\ d \in Cell /\ e \in Cell /\ L \subseteq Block /\ NULL \notin Block
  BY TreeClosed, Cells, TreeAssumption
<1>2. b \in L
  BY <1>1, TreeClosed
<1>3. e \in CellsOf(c, root_)
  BY <1>2 DEF CellsOf, left_, right_, Side
<1>4. ASSUME NEW x \in L, NEW a \in {left_(x), right_(x)}, e \in CellsOf(c, a), e # a
      PROVE  b \in Tree(c, a) /\ d \in CellsOf(c, a)
  <2>1. b \in Tree(c, a)
    BY <1>4 DEF CellsOf, left_, right_, Side
  <2>2. a \in Cell
    BY <1>1, Cells
  <2>3. PICK y \in CellsOf(c, a) : c[y] = b
    BY <2>1, <2>2, TreeFrom
  <2>4. y = d
    BY <2>3, <2>2, <1>1, TreeClosed DEF Single
  <2> QED
    BY <2>1, <2>3, <2>4
<1>5. OnPath(c, L, f, w, e)
  <2> SUFFICES ASSUME NEW x \in L
               PROVE  /\ e \in CellsOf(c, left_(x)) => w < f[x]
                      /\ e \in CellsOf(c, right_(x)) => w > f[x]
    BY DEF OnPath
  <2>1. e = left_(x) => w < f[x]
    BY <1>1, Cells
  <2>2. e = right_(x) => w > f[x]
    BY <1>1, <1>2, Cells
  <2>3. e \in CellsOf(c, left_(x)) /\ e # left_(x) => w < f[x]
    BY <1>4 DEF OnPath
  <2>4. e \in CellsOf(c, right_(x)) /\ e # right_(x) => w > f[x]
    BY <1>4 DEF OnPath
  <2> QED
    BY <2>1, <2>2, <2>3, <2>4
<1>6. ASSUME NEW x \in L, f[x] = w
      PROVE  x \in Tree(c, e)
  <2>1. x \in Tree(c, d) /\ x # b
    BY <1>6 DEF Leads
  <2>2. x \in Tree(c, left_(b)) \/ x \in Tree(c, right_(b))
    BY <2>1, <1>1, TreeSplit
  <2>3. x \in Tree(c, left_(b)) => w < f[b]
    BY <1>2, <1>6 DEF Ordered
  <2>4. x \in Tree(c, right_(b)) => ~(w < f[b])
    BY <1>2, <1>6 DEF Ordered
  <2> QED
    BY <2>2, <2>3, <2>4
<1> QED
  BY <1>3, <1>5, <1>6 DEF Leads

\* A leaf n is linked at the empty cell a.
LEMMA TreeLink ==
  ASSUME NEW c \in CellFun, NEW c2 \in CellFun, NEW n \in Block, NEW a \in Cell, NEW d \in Cell,
         c[left_(n)] = NULL, c[right_(n)] = NULL, c[a] = NULL,
         a # left_(n), a # right_(n), c2[a] = n,
         \A e \in Cell : e # a => c2[e] = c[e]
  PROVE  /\ Tree(c, d) \subseteq Tree(c2, d)
         /\ Tree(c2, d) \subseteq Tree(c, d) \union {n}
         /\ n \in Tree(c2, d) => n \in Tree(c, d) \/ a \in CellsOf(c, d)
         /\ a \in CellsOf(c, d) => n \in Tree(c2, d)
<1>1. ASSUME NEW x \in {d} \union (Tree(c2, d) \X Side), c[x] # NULL
      PROVE  c[x] \in Tree(c2, d)
  <2>1. x \in CellsOf(c2, d) /\ x \in Cell
    BY TreeClosed DEF CellsOf
  <2>2. c[x] = c2[x]
    BY <2>1, <1>1
  <2> QED
    BY <2>1, <2>2, <1>1, TreeClosed
<1>2. Tree(c, d) \subseteq Tree(c2, d)
  <2>1. Closed(c, d, Tree(c2, d))
    BY <1>1 DEF Closed
  <2>2. Tree(c2, d) \in SUBSET Block
    BY TreeClosed
  <2> QED
    BY <2>1, <2>2, TreeLeast
<1> DEFINE S == Tree(c, d) \union (IF a \in CellsOf(c, d) THEN {n} ELSE {})
<1>3. S \in SUBSET Block
  BY TreeClosed
<1>4. ASSUME NEW x \in {d} \union (S \X Side), c2[x] # NULL
      PROVE  c2[x] \in S
  <2>1. CASE x \in CellsOf(c, d)
    BY <2>1, <1>4, TreeClosed
  <2>2. CASE x \in {n} \X Side
    BY <2>2, <1>4, Cells
  <2> QED
    BY <2>1, <2>2 DEF CellsOf
<1>5. Tree(c2, d) \subseteq S
  <2>1. Closed(c2, d, S)
    BY <1>4 DEF Closed
  <2> HIDE DEF S
  <2> QED
    BY <2>1, <1>3, TreeLeast
<1>6. ASSUME a \in CellsOf(c, d)
      PROVE  n \in Tree(c2, d)
  <2>1. a \in CellsOf(c2, d)
    BY <1>6, <1>2 DEF CellsOf
  <2> QED
    BY <2>1, TreeClosed, TreeAssumption
<1> QED
  BY <1>2, <1>5, <1>6

\* The leaf n, at which only a points, is taken away.
LEMMA TreeCut ==
  ASSUME NEW c \in CellFun, NEW c2 \in CellFun, NEW n \in Block, NEW a \in Cell, NEW d \in Cell,
         c[left_(n)] = NULL, c[right_(n)] = NULL, c[a] = n, Single(c),
         c2[a] = NULL,
         \A e \in Cell : e # a => c2[e] = c[e]
  PROVE  /\ Tree(c2, d) \subseteq Tree(c, d) \ {n}
         /\ Tree(c, d) \subseteq Tree(c2, d) \union {n}
<1> DEFINE S == Tree(c, d) \ {n}
           T == Tree(c2, d) \union {n}
<1>1. S \in SUBSET Block /\ T \in SUBSET Block
  BY TreeClosed
<1>2. ASSUME NEW x \in {d} \union (S \X Side), c2[x] # NULL
      PROVE  c2[x] \in S
  <2>1. x \in CellsOf(c, d) /\ x \in Cell
    BY TreeClosed DEF CellsOf
  <2>2. x # a /\ c2[x] = c[x]
    BY <2>1, <1>2
  <2>3. c[x] # n
    BY <2>1, <2>2, TreeAssumption DEF Single
  <2> QED
    BY <2>1, <2>2, <2>3, <1>2, TreeClosed
<1>3. ASSUME NEW x \in {d} \union (T \X Side), c[x] # NULL
      PROVE  c[x] \in T
  <2>1. CASE x \in CellsOf(c2, d)
    <3>1. x \in Cell
      BY <2>1, TreeClosed
    <3>2. x = a \/ c[x] = c2[x]
      BY <3>1
    <3> QED
      BY <2>1, <3>2, <1>3, TreeClosed
  <2>2. CASE x \in {n} \X Side
    BY <2>2, <1>3, Cells
  <2> QED
    BY <2>1, <2>2 DEF CellsOf
<1>4. Closed(c2, d, S) /\ Closed(c, d, T)
  BY <1>2, <1>3 DEF Closed
<1> HIDE DEF S, T
<1>5. Tree(c2, d) \subseteq S /\ Tree(c, d) \subseteq T
  BY <1>1, <1>4, TreeLeast
<1> QED
  BY <1>5 DEF S, T

\* An insertion keeps the order.
LEMMA OrderedLink ==
  ASSUME NEW c \in CellFun, NEW c2 \in CellFun, NEW n \in Block, NEW a \in CellsOf(c, root_),
         NEW f, NEW w, f[n] = w,
         n \notin Tree(c, root_),
         c[left_(n)] = NULL, c[right_(n)] = NULL, c[a] = NULL,
         c2[a] = n,
         \A e \in Cell : e # a => c2[e] = c[e],
         Ordered(c, Tree(c, root_), f),
         OnPath(c, Tree(c, root_), f, w, a)
  PROVE  /\ Tree(c2, root_) = Tree(c, root_) \union {n}
         /\ Ordered(c2, Tree(c2, root_), f)
<1> DEFINE L == Tree(c, root_)
<1>1. root_ \in Cell /\ a \in Cell /\ L \subseteq Block
  BY TreeClosed, Cells
<1>2. a # left_(n) /\ a # right_(n)
  BY Cells DEF CellsOf, left_, right_
<1>3. Tree(c2, root_) = L \union {n}
  BY <1>1, <1>2, TreeLink
<1>4. ASSUME NEW b \in L, NEW d \in {left_(b), right_(b)}
      PROVE  d \in CellsOf(c, root_) /\ d \in Cell
  <2>1. d \in L \X Side
    BY DEF left_, right_, Side
  <2> QED
    BY <2>1, <1>1, TreeClosed DEF CellsOf
<1>5. ASSUME NEW b \in L
      PROVE  /\ \A x \in Tree(c2, left_(b)) : f[x] < f[b]
             /\ \A x \in Tree(c2, right_(b)) : f[x] > f[b]
  <2>1. ASSUME NEW d \in {left_(b), right_(b)}, NEW x \in Tree(c2, d)
        PROVE  x \in Tree(c, d) \/ (x = n /\ a \in CellsOf(c, d))
    <3>1. d \in Cell /\ Tree(c, d) \subseteq L
      BY <1>1, <1>4, TreeNested
    <3> QED
      BY <3>1, <1>1, <1>2, TreeLink
  <2>2. ASSUME NEW x \in Tree(c2, left_(b))
        PROVE  f[x] < f[b]
    BY <2>1 DEF Ordered, OnPath
  <2>3. ASSUME NEW x \in Tree(c2, right_(b))
        PROVE  f[x] > f[b]
    BY <2>1 DEF Ordered, OnPath
  <2> QED
    BY <2>2, <2>3
<1>6. Tree(c2, left_(n)) = {} /\ Tree(c2, right_(n)) = {}
  BY <1>1, <1>2, TreeEmpty, Cells
<1> QED
  BY <1>3, <1>5, <1>6 DEF Ordered

\* So does the removal of a leaf.
LEMMA OrderedCut ==
  ASSUME NEW c \in CellFun, NEW c2 \in CellFun, NEW n \in Tree(c, root_), NEW a \in Cell, NEW f,
         c[left_(n)] = NULL, c[right_(n)] = NULL, c[a] = n, Single(c),
         c2[a] = NULL,
         \A e \in Cell : e # a => c2[e] = c[e],
         Ordered(c, Tree(c, root_), f)
  PROVE  /\ Tree(c2, root_) = Tree(c, root_) \ {n}
         /\ Ordered(c2, Tree(c2, root_), f)
<1>1. root_ \in Cell /\ Tree(c, root_) \subseteq Block
  BY TreeClosed DEF Cell
<1>2. Tree(c2, root_) = Tree(c, root_) \ {n}
  BY <1>1, TreeCut
<1>3. ASSUME NEW b \in Tree(c2, root_), NEW d \in {left_(b), right_(b)}
      PROVE  Tree(c2, d) \subseteq Tree(c, d)
  <2>1. d \in Cell
    BY <1>1, <1>2, Cells
  <2> QED
    BY <2>1, <1>1, TreeCut
<1> QED
  BY <1>2, <1>3 DEF Ordered

-----------------------------------------------------------------------------
(* The invariant is inductive *)

LEMMA Facts ==
  ASSUME Inv
  PROVE  /\ live \subseteq Block /\ cell \in CellFun /\ root_ \in Cell
         /\ Reached = CellsOf(cell, root_) /\ Reached \subseteq Cell
         /\ \A d \in Cell : cell[d] \in live \union {NULL}
         /\ \A b \in live : word[b] \in Nat
<1>1. live \subseteq Block /\ cell \in CellFun /\ root_ \in Cell
  BY DEF Inv, Typed, TypeOK, CellFun, Cell
<1>2. Reached = CellsOf(cell, root_)
  BY DEF Inv, Pointers, Reached, CellsOf
<1>3. Reached \subseteq Cell
  BY <1>1, <1>2, TreeClosed
<1>4. ASSUME NEW d \in Cell, cell[d] # NULL
      PROVE  cell[d] \in live
  <2>1. CASE d \in Reached
    BY <2>1, <1>1, <1>2, <1>4, TreeClosed DEF Inv, Pointers
  <2>2. CASE d \notin Reached
    <3>1. PICK b \in Block \ live, s \in Side : d = <<b, s>>
      BY <2>2 DEF Cell, Reached, Side
    <3>2. cell[left_(b)] = NULL /\ cell[right_(b)] = NULL
      BY DEF Inv, Pointers, Leaf
    <3> QED
      BY <3>1, <3>2, <1>4, Cells
  <2> QED
    BY <2>1, <2>2
<1>5. \A b \in live : word[b] \in Nat
  BY TreeAssumption DEF Inv, Counting
<1> QED
  BY <1>1, <1>2, <1>3, <1>4, <1>5

\* What most steps leave alone.
LEMMA KeepTree ==
  ASSUME Inv, live' = live, cell' = cell, \A b \in live : word'[b] = word[b]
  PROVE  Pointers' /\ Ordered(cell, live, word)' /\ Distinct'
<1>1. Pointers'
  BY DEF Inv, Pointers, Leaf
<1>2. ASSUME NEW b \in live, NEW d \in {left_(b), right_(b)}
      PROVE  Tree(cell, d) \subseteq live
  <2>1. d \in CellsOf(cell, root_)
    BY Facts DEF left_, right_, Reached, Side
  <2> QED
    BY <2>1, Facts, TreeNested DEF Inv, Pointers
<1>3. Ordered(cell, live, word)'
  BY <1>2 DEF Inv, Ordered
<1>4. Distinct'
  BY DEF Inv, Distinct
<1> QED
  BY <1>1, <1>3, <1>4

LEMMA KeepPath ==
  ASSUME live' = live, cell' = cell, \A b \in live : word'[b] = word[b], NEW w, NEW d
  PROVE  /\ OnPath(cell, live, word, w, d) => OnPath(cell', live', word', w, d)
         /\ Leads(cell, live, word, w, d) => Leads(cell', live', word', w, d)
  BY DEF OnPath, Leads

\* A call of the tree returns, or the process ends.
LEMMA KnowsIdle ==
  ASSUME pc' = "idle", arg' = NULL, at' = root_, tnp' = NULL, call' = Heap!NoCall
  PROVE  Knows'
  BY DEF Knows, KnowsInsert, KnowsFree, Inserting

LEMMA ProcessEndsInv ==
  ASSUME Inv, ProcessEnds, UNCHANGED <<word, pcount, on, failures>>, pc # "persist" \/ "power" \notin failures,
         count' = count
  PROVE  Inv'
<1>1. /\ live' = live /\ cell' = cell /\ up' = FALSE /\ call' = Heap!NoCall
      /\ pc' = "idle" /\ arg' = NULL /\ at' = root_ /\ tnp' = NULL
      /\ word' = word /\ count' = count /\ pcount' = pcount /\ on' = on /\ failures' = failures
  BY DEF ProcessEnds, Heap!Fail, Done
<1>2. Typed'
  BY <1>1 DEF Inv, Typed, TypeOK, Cell
<1>3. Counting'
  BY <1>1 DEF Inv, Counting
<1>4. Knows'
  BY <1>1, KnowsIdle
<1> QED
  BY <1>1, <1>2, <1>3, <1>4, KeepTree DEF Inv

LEMMA TreeInitInv ==
  ASSUME Inv, TreeInit
  PROVE  Inv'
<1>1. /\ live' = live /\ cell' = cell /\ call' = call /\ ~up /\ up' = TRUE
      /\ UNCHANGED <<word, count, pcount, on, failures, pc, arg, at, tnp>>
  BY DEF TreeInit, Heap!Start, fields
<1>2. pc = "idle"
  BY <1>1 DEF Inv, Knows
<1>3. Typed'
  BY <1>1 DEF Inv, Typed, TypeOK
<1>4. Counting'
  BY <1>1 DEF Inv, Counting
<1>5. Knows'
  BY <1>1, <1>2, KnowsIdle DEF Inv, Knows, Inserting
<1> QED
  BY <1>1, <1>3, <1>4, <1>5, KeepTree DEF Inv

LEMMA InsertCallInv ==
  ASSUME Inv, NEW w \in Word, InsertCall(w)
  PROVE  Inv'
<1>1. /\ live' = live /\ cell' = cell /\ call' = call /\ up /\ up' = up
      /\ pc = "idle" /\ pc' = "insert" /\ arg' = w
      /\ UNCHANGED <<word, count, pcount, on, failures, at, tnp>>
      /\ \A b \in live : word[b] = w => ~(count[b] >= MaxCount)
  BY DEF InsertCall, heap, fields, Counted
<1>2. at = root_ /\ tnp = NULL /\ call = Heap!NoCall
  BY <1>1 DEF Inv, Knows, Inserting
<1>3. Typed'
  BY <1>1, <1>2 DEF Inv, Typed, TypeOK
<1>4. Counting'
  BY <1>1 DEF Inv, Counting
<1>5. OnPath(cell, live, word, w, root_)
  BY DEF OnPath, CellsOf, left_, right_, root_, Side
<1>6. Leads(cell, live, word, w, root_)
  BY DEF Leads, Inv, Pointers
<1>7. \A b \in live : word[b] = w => count[b] < MaxCount
  BY <1>1, TreeAssumption DEF Inv, Counting
<1>8. Knows'
  BY <1>1, <1>2, <1>5, <1>6, <1>7 DEF Knows, KnowsInsert, KnowsFree, Inserting, Reached
<1> QED
  BY <1>1, <1>3, <1>4, <1>8, KeepTree DEF Inv

LEMMA InsertDescendInv ==
  ASSUME Inv, InsertDescend
  PROVE  Inv'
<1> DEFINE b == cell[at]
<1>1. /\ live' = live /\ cell' = cell /\ call' = call /\ up' = up
      /\ UNCHANGED <<word, count, pcount, on, failures, pc, arg, tnp>>
      /\ pc = "insert" /\ b # NULL /\ word[b] # arg
      /\ at' = IF arg < word[b] THEN left_(b) ELSE right_(b)
  BY DEF InsertDescend, heap, fields
<1>2. /\ at \in CellsOf(cell, root_) /\ arg \in Word /\ tnp = NULL /\ call = Heap!NoCall /\ up
      /\ OnPath(cell, live, word, arg, at) /\ Leads(cell, live, word, arg, at)
      /\ \A x \in live : word[x] = arg => count[x] < MaxCount
  BY <1>1, Facts DEF Inv, Knows, KnowsInsert, Inserting
<1>3. b \in live
  BY <1>1, <1>2, Facts
<1>4. /\ at' \in Reached
      /\ OnPath(cell, live, word, arg, at') /\ Leads(cell, live, word, arg, at')
  <2>1. \A x \in Tree(cell, root_) : word[x] \in Nat
    BY Facts DEF Inv, Pointers
  <2>2. Single(cell) /\ live = Tree(cell, root_) /\ Ordered(cell, live, word) /\ arg \in Nat
    BY <1>2, TreeAssumption DEF Inv, Pointers
  <2> QED
    BY <1>1, <1>2, <1>3, <2>1, <2>2, Facts, Descend
<1>5. Typed'
  BY <1>1, <1>4, Facts DEF Inv, Typed, TypeOK, Reached
<1>6. Counting'
  BY <1>1 DEF Inv, Counting
<1>7. Knows'
  BY <1>1, <1>2, <1>4 DEF Knows, KnowsInsert, KnowsFree, Inserting, Reached
<1> QED
  BY <1>1, <1>5, <1>6, <1>7, KeepTree DEF Inv

LEMMA InsertReserveInv ==
  ASSUME Inv, InsertReserve
  PROVE  Inv'
<1>1. pc = "insert" /\ cell[at] = NULL
  BY DEF InsertReserve
<1>2. ASSUME NEW b \in Block \ live, tnp' = b,
             cell' = [cell EXCEPT ![left_(b)] = NULL, ![right_(b)] = NULL],
             word' = [word EXCEPT ![b] = arg],
             count' = [count EXCEPT ![b] = 1],
             pc' = "activate",
             UNCHANGED <<live, call, up, pcount, on, failures, arg, at>>
      PROVE  Inv'
  <2>1. /\ at \in Reached /\ arg \in Word /\ call = Heap!NoCall /\ up
        /\ OnPath(cell, live, word, arg, at) /\ Leads(cell, live, word, arg, at)
    BY <1>1 DEF Inv, Knows, KnowsInsert, Inserting
  <2>2. /\ word \in [Block -> Word \union {NULL}] /\ count \in [Block -> 0..MaxCount]
        /\ cell \in [Cell -> Block \union {NULL}]
    BY DEF Inv, Typed, TypeOK
  <2>3. cell' = cell
    <3>1. cell[left_(b)] = NULL /\ cell[right_(b)] = NULL
      BY DEF Inv, Pointers, Leaf
    <3> QED
      BY <3>1, <2>2, <1>2, Cells
  <2>4. word'[b] = arg /\ \A x \in live : word'[x] = word[x]
    BY <2>2, <1>2, Facts
  <2>5. count'[b] = 1 /\ \A x \in live : count'[x] = count[x]
    BY <2>2, <1>2, Facts
  <2>6. Typed'
    <3>1. word' \in [Block -> Word \union {NULL}]
      BY <2>1, <2>2, <1>2
    <3>2. count' \in [Block -> 0..MaxCount]
      BY <2>2, <1>2, TreeAssumption
    <3> QED
      BY <3>1, <3>2, <2>3, <1>2 DEF Inv, Typed, TypeOK
  <2>7. Counting'
    BY <2>4, <2>5, <1>2, <1>1 DEF Inv, Counting
  <2>8. \A x \in live : word[x] # arg
    BY <2>1, <1>1, TreeEmpty DEF Leads
  <2>9. OnPath(cell', live', word', arg, at)
    BY <2>1, <2>3, <2>4, <1>2, KeepPath
  <2>10. Unlinked'
    BY <2>1, <2>3, <2>4, <2>8, <2>9, <1>1, <1>2 DEF Unlinked, Reached
  <2>11. Knows'
    BY <2>1, <2>4, <2>5, <2>10, <1>2 DEF Knows, KnowsInsert, KnowsFree, Inserting
  <2> QED
    BY <1>2, <2>3, <2>4, <2>6, <2>7, <2>11, KeepTree DEF Inv
<1>3. ASSUME ProcessEnds, UNCHANGED <<fields, failures>>
      PROVE  Inv'
  BY <1>1, <1>3, ProcessEndsInv DEF fields
<1> QED
  BY <1>2, <1>3 DEF InsertReserve

LEMMA InsertActivateInv ==
  ASSUME Inv, InsertActivate
  PROVE  Inv'
<1>1. /\ live' = live /\ cell' = cell /\ up' = up /\ up
      /\ call' = [op |-> "activate", block |-> tnp, cells |-> {at}]
      /\ UNCHANGED <<word, count, on, failures, arg, at, tnp>>
      /\ pc = "activate" /\ pc' = "activating"
      /\ pcount' = [pcount EXCEPT ![tnp] = count[tnp]]
  BY DEF InsertActivate, Heap!CallActivate
<1>2. /\ Unlinked /\ arg \in Word
      /\ tnp \in Block \ live /\ word[tnp] = arg /\ count[tnp] = 1
  BY <1>1 DEF Inv, Knows, KnowsInsert, Inserting, Unlinked
<1>3. pcount \in [Block -> 0..MaxCount]
  BY DEF Inv, Typed, TypeOK
<1>4. pcount'[tnp] = 1 /\ \A x \in live : pcount'[x] = pcount[x]
  BY <1>1, <1>2, <1>3, Facts
<1>5. Typed'
  <2>1. pcount' \in [Block -> 0..MaxCount]
    BY <1>1, <1>2, <1>3, TreeAssumption
  <2> QED
    BY <2>1, <1>1 DEF Inv, Typed, TypeOK
<1>6. Counting'
  BY <1>1, <1>4 DEF Inv, Counting
<1>7. Knows'
  BY <1>1, <1>2, <1>4 DEF Knows, KnowsInsert, KnowsFree, Inserting, Unlinked, Reached
<1> QED
  BY <1>1, <1>5, <1>6, <1>7, KeepTree DEF Inv

LEMMA InsertBumpInv ==
  ASSUME Inv, InsertBump
  PROVE  Inv'
<1> DEFINE b == cell[at]
<1>1. /\ live' = live /\ cell' = cell /\ call' = call /\ up' = up
      /\ UNCHANGED <<word, pcount, on, failures, arg, at, tnp>>
      /\ pc = "insert" /\ pc' = "persist" /\ b # NULL /\ word[b] = arg
      /\ count' = [count EXCEPT ![b] = @ + 1]
  BY DEF InsertBump, heap
<1>2. /\ at \in Reached /\ arg \in Word /\ call = Heap!NoCall /\ up
      /\ \A x \in live : word[x] = arg => count[x] < MaxCount
  BY <1>1 DEF Inv, Knows, KnowsInsert, Inserting
<1>3. b \in live /\ b \in Block
  BY <1>1, <1>2, Facts
<1>4. count \in [Block -> 0..MaxCount]
  BY DEF Inv, Typed, TypeOK
<1>5. count'[b] = count[b] + 1 /\ \A x \in live : x # b => count'[x] = count[x]
  BY <1>1, <1>3, <1>4, Facts
<1>6. count[b] \in 1..MaxCount /\ count[b] < MaxCount /\ count[b] + 1 \in 1..MaxCount
  BY <1>1, <1>2, <1>3, TreeAssumption DEF Inv, Counting
<1>7. Typed'
  <2>1. count' \in [Block -> 0..MaxCount]
    BY <1>1, <1>3, <1>4, <1>6
  <2> QED
    BY <2>1, <1>1 DEF Inv, Typed, TypeOK
<1>8. Counting'
  BY <1>1, <1>3, <1>5, <1>6 DEF Inv, Counting
<1>9. Knows'
  BY <1>1, <1>2, <1>3 DEF Knows, KnowsInsert, KnowsFree, Inserting
<1> QED
  BY <1>1, <1>7, <1>8, <1>9, KeepTree DEF Inv

LEMMA InsertPersistInv ==
  ASSUME Inv, InsertPersist
  PROVE  Inv'
<1> DEFINE b == cell[at]
<1>1. /\ live' = live /\ cell' = cell /\ call' = call /\ up' = up
      /\ UNCHANGED <<word, count, on, failures, arg, at, tnp>>
      /\ pc = "persist" /\ pc' = "ret"
      /\ pcount' = [pcount EXCEPT ![b] = count[b]]
  BY DEF InsertPersist, heap
<1>2. b \in live /\ word[b] = arg /\ arg \in Word /\ call = Heap!NoCall /\ up /\ b \in Block
  BY <1>1, Facts DEF Inv, Knows, KnowsInsert, Inserting
<1>3. pcount \in [Block -> 0..MaxCount] /\ count \in [Block -> 0..MaxCount]
  BY DEF Inv, Typed, TypeOK
<1>4. pcount'[b] = count[b] /\ \A x \in live : x # b => pcount'[x] = pcount[x]
  BY <1>1, <1>2, <1>3, Facts
<1>5. Typed'
  <2>1. pcount' \in [Block -> 0..MaxCount]
    BY <1>1, <1>2, <1>3
  <2> QED
    BY <2>1, <1>1 DEF Inv, Typed, TypeOK
<1>6. Counting'
  BY <1>1, <1>2, <1>4 DEF Inv, Counting
<1>7. Knows'
  BY <1>1, <1>2 DEF Knows, KnowsInsert, KnowsFree, Inserting
<1> QED
  BY <1>1, <1>5, <1>6, <1>7, KeepTree DEF Inv

LEMMA InsertReturnInv ==
  ASSUME Inv, InsertReturn
  PROVE  Inv'
<1>1. /\ live' = live /\ cell' = cell /\ call' = call /\ up' = up
      /\ UNCHANGED <<word, count, pcount, on, failures>>
      /\ pc = "ret" /\ pc' = "idle" /\ arg' = NULL /\ at' = root_ /\ tnp' = NULL
  BY DEF InsertReturn, Done, heap, fields
<1>2. call = Heap!NoCall
  BY <1>1 DEF Inv, Knows
<1>3. Typed'
  BY <1>1 DEF Inv, Typed, TypeOK, Cell
<1>4. Counting'
  BY <1>1 DEF Inv, Counting
<1>5. Knows'
  BY <1>1, <1>2, KnowsIdle
<1> QED
  BY <1>1, <1>3, <1>4, <1>5, KeepTree DEF Inv

LEMMA FreeCallInv ==
  ASSUME Inv, FreeCall
  PROVE  Inv'
<1>1. /\ live' = live /\ cell' = cell /\ call' = call /\ up' = up /\ up
      /\ UNCHANGED <<word, count, pcount, on, failures, arg, at, tnp>>
      /\ pc = "idle" /\ pc' = "free"
  BY DEF FreeCall, heap, fields
<1>2. call = Heap!NoCall /\ at = root_ /\ arg = NULL /\ tnp = NULL
  BY <1>1 DEF Inv, Knows, Inserting
<1>3. Typed'
  BY <1>1 DEF Inv, Typed, TypeOK
<1>4. Counting'
  BY <1>1 DEF Inv, Counting
<1>5. Knows'
  BY <1>1, <1>2 DEF Knows, KnowsInsert, KnowsFree, Inserting
<1> QED
  BY <1>1, <1>3, <1>4, <1>5, KeepTree DEF Inv

LEMMA FreeDescendInv ==
  ASSUME Inv, FreeDescend
  PROVE  Inv'
<1> DEFINE b == cell[at]
<1>1. /\ live' = live /\ cell' = cell /\ call' = call /\ up' = up
      /\ UNCHANGED <<word, count, pcount, on, failures>>
      /\ pc = "free"
  BY DEF FreeDescend, heap, fields
<1>2. call = Heap!NoCall /\ arg = NULL /\ tnp = NULL /\ up /\ (at = root_ \/ at \in Reached)
  BY <1>1 DEF Inv, Knows, KnowsFree, Inserting
<1>3. at \in Cell
  BY <1>2, Facts
<1>4. Counting'
  BY <1>1 DEF Inv, Counting
<1>5. CASE /\ b # NULL /\ ~Leaf(b)
           /\ at' = IF cell[left_(b)] # NULL THEN left_(b) ELSE right_(b)
           /\ UNCHANGED <<pc, arg, tnp>>
  <2>1. b \in live
    BY <1>3, <1>5, Facts
  <2>2. at' \in Reached /\ cell[at'] # NULL
    BY <1>5, <2>1 DEF Reached, left_, right_, Side, Leaf
  <2>3. Typed'
    BY <1>1, <1>5, <2>2, Facts DEF Inv, Typed, TypeOK
  <2>4. Knows'
    BY <1>1, <1>2, <1>5, <2>2 DEF Knows, KnowsInsert, KnowsFree, Inserting, Reached
  <2> QED
    BY <1>1, <1>4, <2>3, <2>4, KeepTree DEF Inv
<1>6. CASE b # NULL /\ Leaf(b) /\ pc' = "onfree" /\ UNCHANGED <<arg, at, tnp>>
  <2>1. b \in live
    BY <1>3, <1>6, Facts
  <2>2. Typed'
    BY <1>1, <1>6 DEF Inv, Typed, TypeOK
  <2>3. Knows'
    BY <1>1, <1>2, <1>6, <2>1 DEF Knows, KnowsInsert, KnowsFree, Inserting, Leaf
  <2> QED
    BY <1>1, <1>4, <2>2, <2>3, KeepTree DEF Inv
<1>7. CASE b = NULL /\ Done
  <2>1. Typed'
    BY <1>1, <1>7 DEF Inv, Typed, TypeOK, Done, Cell
  <2>2. Knows'
    BY <1>1, <1>2, <1>7, KnowsIdle DEF Done
  <2> QED
    BY <1>1, <1>4, <2>1, <2>2, KeepTree DEF Inv
<1> QED
  BY <1>5, <1>6, <1>7 DEF FreeDescend

LEMMA FreeOnFreeInv ==
  ASSUME Inv, FreeOnFree
  PROVE  Inv'
<1> DEFINE b == cell[at]
<1>1. pc = "onfree" /\ UNCHANGED <<word, count, pcount, failures>>
  BY DEF FreeOnFree
<1>2. /\ call = Heap!NoCall /\ arg = NULL /\ tnp = NULL /\ up
      /\ b \in live /\ b \in Block /\ Leaf(b)
  BY <1>1, Facts DEF Inv, Knows, KnowsFree, Inserting
<1>3. ASSUME on[b] < PMEM_NUM_ON, on' = [on EXCEPT ![b] = @ + 1],
             pc' = "free_node", UNCHANGED <<heap, arg, at, tnp>>
      PROVE  Inv'
  <2>1. live' = live /\ cell' = cell /\ call' = call /\ up' = up
    BY <1>3 DEF heap
  <2>2. on \in [Block -> 0..PMEM_NUM_ON]
    BY DEF Inv, Typed, TypeOK
  <2>3. on' \in [Block -> 0..PMEM_NUM_ON]
    BY <1>2, <1>3, <2>2, TreeAssumption
  <2>4. Typed'
    BY <1>1, <1>3, <2>1, <2>3 DEF Inv, Typed, TypeOK
  <2>5. Counting'
    BY <1>1, <1>3, <2>1 DEF Inv, Counting
  <2>6. Knows'
    BY <1>1, <1>2, <1>3, <2>1 DEF Knows, KnowsInsert, KnowsFree, Inserting, Leaf
  <2> QED
    BY <1>1, <2>1, <2>4, <2>5, <2>6, KeepTree DEF Inv
<1>4. ASSUME ProcessEnds, UNCHANGED on
      PROVE  Inv'
  BY <1>1, <1>4, ProcessEndsInv
<1> QED
  BY <1>3, <1>4 DEF FreeOnFree

LEMMA FreeNodeInv ==
  ASSUME Inv, FreeNode
  PROVE  Inv'
<1> DEFINE b == cell[at]
<1>1. /\ live' = live /\ cell' = cell /\ up' = up
      /\ UNCHANGED <<word, count, pcount, on, failures, arg, at, tnp>>
      /\ pc = "free_node" /\ pc' = "freeing"
      /\ call' = [op |-> "free", block |-> b, cells |-> Heap!Holding(b)]
  BY DEF FreeNode, Heap!CallFree, fields
<1>2. arg = NULL /\ tnp = NULL /\ up /\ b \in live /\ b \in Block /\ Leaf(b) /\ at \in Cell
  BY <1>1, Facts DEF Inv, Knows, KnowsFree, Inserting, Typed, TypeOK
<1>3. Heap!Holding(b) = {at}
  <2>1. b # NULL
    BY <1>2, TreeAssumption
  <2> QED
    BY <1>2, <2>1 DEF Heap!Holding, Inv, Pointers, Single
<1>4. Typed'
  BY <1>1 DEF Inv, Typed, TypeOK
<1>5. Counting'
  BY <1>1 DEF Inv, Counting
<1>6. Knows'
  <2>1. call'.block = b /\ call' = [op |-> "free", block |-> call'.block, cells |-> {at}]
    BY <1>1, <1>3
  <2> QED
    BY <1>1, <1>2, <2>1 DEF Knows, KnowsInsert, KnowsFree, Inserting, Leaf
<1> QED
  BY <1>1, <1>4, <1>5, <1>6, KeepTree DEF Inv

\* What the heap's one instant does.
LEMMA EffectFacts ==
  ASSUME Inv, HeapEffect
  PROVE  /\ UNCHANGED <<call, up, word, count, pcount, failures, pc, arg, at, tnp>>
         /\ on' = [on EXCEPT ![call.block] = 0]
         /\ \/ /\ pc = "activating" /\ Unlinked /\ call.block = tnp
               /\ call = [op |-> "activate", block |-> tnp, cells |-> {at}]
               /\ live' = live \union {tnp}
               /\ cell' = [d \in Cell |-> IF d = at THEN tnp ELSE cell[d]]
            \/ /\ pc = "freeing" /\ cell[at] = call.block /\ Leaf(call.block)
               /\ call = [op |-> "free", block |-> call.block, cells |-> {at}]
               /\ call.block \in live
               /\ live' = live \ {call.block}
               /\ cell' = [d \in Cell |-> IF d = at THEN NULL ELSE cell[d]]
<1>1. UNCHANGED <<call, up, word, count, pcount, failures, pc, arg, at, tnp>>
  BY DEF HeapEffect, Heap!Effect
<1>2. on' = [on EXCEPT ![call.block] = 0]
  BY DEF HeapEffect
<1>3. call # Heap!NoCall
  BY DEF HeapEffect, Heap!Effect, Heap!NoCall
<1>4. pc \in {"activating", "freeing"}
  BY <1>3 DEF Inv, Knows
<1>5. CASE pc = "activating"
  <2>1. call = [op |-> "activate", block |-> tnp, cells |-> {at}]
    BY <1>5 DEF Inv, Knows, KnowsInsert
  <2>2. /\ tnp \notin live /\ live' = live \union {tnp}
        /\ cell' = [d \in Cell |-> IF d \in {at} THEN tnp ELSE cell[d]]
    BY <2>1 DEF HeapEffect, Heap!Effect
  <2>3. Unlinked
    BY <1>5, <2>2 DEF Inv, Knows, KnowsInsert
  <2> QED
    BY <1>1, <1>2, <1>5, <2>1, <2>2, <2>3
<1>6. CASE pc = "freeing"
  <2>1. call = [op |-> "free", block |-> call.block, cells |-> {at}]
    BY <1>6 DEF Inv, Knows, KnowsFree
  <2>2. call.op = "free" /\ call.cells = {at}
    BY <2>1
  <2>3. /\ call.block \in live /\ live' = live \ {call.block}
        /\ cell' = [d \in Cell |-> IF d \in {at} THEN NULL ELSE cell[d]]
    BY <2>2 DEF HeapEffect, Heap!Effect
  <2>4. cell[at] = call.block /\ Leaf(call.block)
    BY <1>6, <2>3 DEF Inv, Knows, KnowsFree
  <2> QED
    BY <1>1, <1>2, <1>6, <2>1, <2>3, <2>4
<1> QED
  BY <1>4, <1>5, <1>6

LEMMA LinkInv ==
  ASSUME Inv, HeapEffect, pc = "activating"
  PROVE  Inv'
<1>1. /\ UNCHANGED <<call, up, word, count, pcount, failures, pc, arg, at, tnp>>
      /\ on' = [on EXCEPT ![tnp] = 0]
      /\ Unlinked
      /\ call = [op |-> "activate", block |-> tnp, cells |-> {at}]
      /\ live' = live \union {tnp}
      /\ cell' = [d \in Cell |-> IF d = at THEN tnp ELSE cell[d]]
  BY EffectFacts
<1>2. /\ arg \in Word /\ tnp \in Block \ live /\ word[tnp] = arg
      /\ count[tnp] = 1 /\ pcount[tnp] = 1 /\ up
  BY <1>1 DEF Inv, Knows, KnowsInsert, Inserting, Unlinked
<1>3. /\ at \in CellsOf(cell, root_) /\ at \in Cell /\ cell[at] = NULL
      /\ OnPath(cell, live, word, arg, at) /\ \A b \in live : word[b] # arg
  BY <1>1, Facts DEF Unlinked
<1>4. cell' \in CellFun /\ cell'[at] = tnp /\ \A d \in Cell : d # at => cell'[d] = cell[d]
  BY <1>1, <1>2, <1>3, Facts DEF CellFun
<1>5. cell[left_(tnp)] = NULL /\ cell[right_(tnp)] = NULL
  BY <1>2 DEF Inv, Pointers, Leaf
<1>6. live' = Tree(cell', root_) /\ Ordered(cell', live', word')
  <2>1. live = Tree(cell, root_) /\ Ordered(cell, live, word)
    BY DEF Inv, Pointers
  <2>2. /\ Tree(cell', root_) = live \union {tnp}
        /\ Ordered(cell', Tree(cell', root_), word)
    BY <1>2, <1>3, <1>4, <1>5, <2>1, Facts, OrderedLink
  <2> QED
    BY <1>1, <2>2
<1>7. Single(cell')
  <2>1. \A d \in Cell : cell[d] # tnp
    BY <1>2, Facts, TreeAssumption
  <2> QED
    BY <1>3, <1>4, <2>1 DEF Single, Inv, Pointers
<1>8. Pointers'
  <2>1. ASSUME NEW b \in Block \ live'
        PROVE  cell'[left_(b)] = NULL /\ cell'[right_(b)] = NULL
    <3>1. b \in Block \ live
      BY <1>1, <2>1
    <3>2. cell[left_(b)] = NULL /\ cell[right_(b)] = NULL
      BY <3>1 DEF Inv, Pointers, Leaf
    <3>3. at # left_(b) /\ at # right_(b)
      BY <1>3, <3>1, Facts DEF Reached, left_, right_, root_
    <3> QED
      BY <1>4, <3>1, <3>2, <3>3, Cells
  <2> QED
    BY <1>6, <1>7, <2>1 DEF Pointers, Leaf
<1>9. Typed'
  <2>1. on' \in [Block -> 0..PMEM_NUM_ON]
    BY <1>1, <1>2, TreeAssumption DEF Inv, Typed, TypeOK
  <2> QED
    BY <1>1, <1>2, <1>4, <2>1 DEF Inv, Typed, TypeOK, CellFun
<1>10. Distinct'
  BY <1>1, <1>2, <1>3 DEF Inv, Distinct
<1>11. Counting'
  <2>1. 1 \in 1..MaxCount
    BY TreeAssumption
  <2> QED
    BY <1>1, <1>2, <2>1 DEF Inv, Counting
<1>12. Knows'
  BY <1>1, <1>2 DEF Inv, Knows, KnowsInsert, KnowsFree, Inserting
<1> QED
  BY <1>6, <1>8, <1>9, <1>10, <1>11, <1>12 DEF Inv

LEMMA CutInv ==
  ASSUME Inv, HeapEffect, pc = "freeing"
  PROVE  Inv'
<1> DEFINE n == call.block
<1>1. /\ UNCHANGED <<call, up, word, count, pcount, failures, pc, arg, at, tnp>>
      /\ on' = [on EXCEPT ![n] = 0]
      /\ cell[at] = n /\ cell[left_(n)] = NULL /\ cell[right_(n)] = NULL
      /\ call = [op |-> "free", block |-> n, cells |-> {at}]
      /\ n \in live
      /\ live' = live \ {n}
      /\ cell' = [d \in Cell |-> IF d = at THEN NULL ELSE cell[d]]
  BY EffectFacts DEF Leaf
<1>2. n \in Block /\ at \in Cell /\ up
  BY <1>1, Facts DEF Inv, Typed, TypeOK, Knows
<1>3. cell' \in CellFun /\ cell'[at] = NULL /\ \A d \in Cell : d # at => cell'[d] = cell[d]
  BY <1>1, <1>2, Facts DEF CellFun
<1>4. live' = Tree(cell', root_) /\ Ordered(cell', live', word')
  <2>1. live = Tree(cell, root_) /\ Ordered(cell, live, word) /\ Single(cell)
    BY DEF Inv, Pointers
  <2>2. /\ Tree(cell', root_) = live \ {n}
        /\ Ordered(cell', Tree(cell', root_), word)
    BY <1>1, <1>2, <1>3, <2>1, Facts, OrderedCut
  <2> QED
    BY <1>1, <2>2
<1>5. Single(cell')
  BY <1>3 DEF Single, Inv, Pointers
<1>6. Pointers'
  <2>1. ASSUME NEW b \in Block \ live'
        PROVE  cell'[left_(b)] = NULL /\ cell'[right_(b)] = NULL
    <3>1. cell[left_(b)] = NULL /\ cell[right_(b)] = NULL
      BY <1>1 DEF Inv, Pointers, Leaf
    <3> QED
      BY <1>3, <3>1, Cells
  <2> QED
    BY <1>4, <1>5, <2>1 DEF Pointers, Leaf
<1>7. Typed'
  <2>1. on' \in [Block -> 0..PMEM_NUM_ON]
    BY <1>1, <1>2, TreeAssumption DEF Inv, Typed, TypeOK
  <2> QED
    BY <1>1, <1>3, <2>1 DEF Inv, Typed, TypeOK, CellFun
<1>8. Distinct' /\ Counting'
  BY <1>1 DEF Inv, Distinct, Counting
<1>9. Knows'
  BY <1>1, <1>2 DEF Inv, Knows, KnowsInsert, KnowsFree, Inserting
<1> QED
  BY <1>4, <1>6, <1>7, <1>8, <1>9 DEF Inv

LEMMA HeapReturnInv ==
  ASSUME Inv, HeapReturn
  PROVE  Inv'
<1>1. /\ live' = live /\ cell' = cell /\ up' = up /\ call' = Heap!NoCall
      /\ UNCHANGED <<word, count, pcount, on, failures>>
  BY DEF HeapReturn, Heap!Return, fields
<1>2. Counting'
  <2>1. pc \in {"activating", "freeing"}
    BY DEF HeapReturn
  <2> QED
    BY <1>1, <2>1 DEF Inv, Counting
<1>3. CASE pc = "activating" /\ Done
  <2>1. Typed'
    BY <1>1, <1>3 DEF Inv, Typed, TypeOK, Done, Cell
  <2>2. Knows'
    BY <1>1, <1>3, KnowsIdle DEF Done
  <2> QED
    BY <1>1, <1>2, <2>1, <2>2, KeepTree DEF Inv
<1>4. CASE pc = "freeing" /\ pc' = "free" /\ at' = root_ /\ UNCHANGED <<arg, tnp>>
  <2>1. Typed'
    BY <1>1, <1>4 DEF Inv, Typed, TypeOK, Cell
  <2>2. Knows'
    BY <1>1, <1>4 DEF Inv, Knows, KnowsInsert, KnowsFree, Inserting
  <2> QED
    BY <1>1, <1>2, <2>1, <2>2, KeepTree DEF Inv
<1> QED
  BY <1>3, <1>4 DEF HeapReturn

LEMMA EvictInv ==
  ASSUME Inv, Evict
  PROVE  Inv'
<1>1. PICK b \in live : pcount[b] # count[b] /\ pcount' = [pcount EXCEPT ![b] = count[b]]
  BY DEF Evict
<1>2. /\ live' = live /\ cell' = cell /\ call' = call /\ up' = up
      /\ UNCHANGED <<word, count, on, failures, pc, arg, at, tnp>>
  BY DEF Evict, heap
<1>3. b \in Block /\ pcount \in [Block -> 0..MaxCount] /\ count \in [Block -> 0..MaxCount]
  BY Facts DEF Inv, Typed, TypeOK
<1>4. pcount'[b] = count[b] /\ \A x \in Block : x # b => pcount'[x] = pcount[x]
  BY <1>1, <1>3
<1>5. Typed'
  <2>1. pcount' \in [Block -> 0..MaxCount]
    BY <1>1, <1>3
  <2> QED
    BY <1>2, <2>1 DEF Inv, Typed, TypeOK
<1>6. Counting'
  BY <1>2, <1>4, Facts DEF Inv, Counting
<1>7. Knows'
  <2>1. pc = "activating" => pcount'[tnp] = 1
    BY <1>4 DEF Inv, Knows, KnowsInsert
  <2>2. Unlinked => Unlinked'
    BY <1>2 DEF Unlinked, Reached
  <2>3. KnowsInsert'
    BY <1>2, <2>1, <2>2 DEF Inv, Knows, KnowsInsert, Inserting, Reached
  <2>4. KnowsFree'
    BY <1>2 DEF Inv, Knows, KnowsFree, Leaf, Reached
  <2> QED
    BY <1>2, <2>3, <2>4 DEF Inv, Knows, Inserting
<1> QED
  BY <1>2, <1>5, <1>6, <1>7, KeepTree DEF Inv

LEMMA PowerFailureInv ==
  ASSUME Inv, PowerFailure
  PROVE  Inv'
<1>1. /\ live' = live /\ cell' = cell /\ up' = FALSE /\ call' = Heap!NoCall
      /\ pc' = "idle" /\ arg' = NULL /\ at' = root_ /\ tnp' = NULL
      /\ UNCHANGED <<word, pcount, on, failures>>
      /\ count' = [b \in Block |-> IF b \in live THEN pcount[b] ELSE count[b]]
  BY DEF PowerFailure, ProcessEnds, Heap!Fail, Done
<1>2. pcount \in [Block -> 0..MaxCount] /\ count \in [Block -> 0..MaxCount]
  BY DEF Inv, Typed, TypeOK
<1>3. Typed'
  <2>1. count' \in [Block -> 0..MaxCount]
    BY <1>1, <1>2
  <2> QED
    BY <1>1, <2>1 DEF Inv, Typed, TypeOK, Cell
<1>4. Counting'
  BY <1>1, <1>2, Facts DEF Inv, Counting
<1>5. Knows'
  BY <1>1, KnowsIdle
<1> QED
  BY <1>1, <1>3, <1>4, <1>5, KeepTree DEF Inv

LEMMA ExitInv ==
  ASSUME Inv, Exit \/ Kill
  PROVE  Inv'
<1>1. ProcessEnds /\ UNCHANGED <<word, count, pcount, on, failures>>
  BY DEF Exit, Kill, fields
<1>2. pc = "idle" \/ "kill" \in failures
  BY DEF Exit, Kill
<1>3. pc # "persist" \/ "power" \notin failures
  BY <1>2, TreeAssumption DEF Inv, Typed
<1> QED
  BY <1>1, <1>3, ProcessEndsInv

THEOREM Invariance == Spec => []Inv
<1>1. Init => Inv
  <2> SUFFICES ASSUME Init
               PROVE  Inv
    OBVIOUS
  <2>1. /\ live = {} /\ cell = [d \in Cell |-> NULL] /\ call = Heap!NoCall /\ up = FALSE
        /\ word = [b \in Block |-> NULL] /\ count = [b \in Block |-> 0]
        /\ pcount = [b \in Block |-> 0] /\ on = [b \in Block |-> 0]
        /\ failures \in FailureModes
        /\ pc = "idle" /\ arg = NULL /\ at = root_ /\ tnp = NULL
    BY DEF Init, Heap!Init
  <2>2. Typed
    <3>1. 0 \in 0..MaxCount /\ 0 \in 0..PMEM_NUM_ON
      BY TreeAssumption
    <3>2. root_ \in Cell
      BY DEF Cell
    <3> QED
      BY <2>1, <3>1, <3>2 DEF Typed, TypeOK
  <2>3. Pointers
    <3>1. root_ \in Cell /\ \A b \in Block : left_(b) \in Cell /\ right_(b) \in Cell
      BY Cells DEF Cell
    <3>2. Tree(cell, root_) = {}
      BY <2>1, <3>1, TreeEmpty
    <3> QED
      BY <2>1, <3>1, <3>2 DEF Pointers, Single, Leaf
  <2>4. Ordered(cell, live, word) /\ Distinct /\ Counting
    BY <2>1 DEF Ordered, Distinct, Counting
  <2>5. Knows
    BY <2>1 DEF Knows, KnowsInsert, KnowsFree, Inserting
  <2> QED
    BY <2>2, <2>3, <2>4, <2>5 DEF Inv
<1>2. Inv /\ [Next]_vars => Inv'
  <2> SUFFICES ASSUME Inv, [Next]_vars
               PROVE  Inv'
    OBVIOUS
  <2>1. CASE TreeInit
    BY <2>1, TreeInitInv
  <2>2. CASE Exit \/ Kill
    BY <2>2, ExitInv
  <2>3. CASE FreeCall
    BY <2>3, FreeCallInv
  <2>4. CASE \E w \in Word : InsertCall(w)
    BY <2>4, InsertCallInv
  <2>5. CASE InsertDescend
    BY <2>5, InsertDescendInv
  <2>6. CASE InsertReserve
    BY <2>6, InsertReserveInv
  <2>7. CASE InsertActivate
    BY <2>7, InsertActivateInv
  <2>8. CASE InsertBump
    BY <2>8, InsertBumpInv
  <2>9. CASE InsertPersist
    BY <2>9, InsertPersistInv
  <2>10. CASE InsertReturn
    BY <2>10, InsertReturnInv
  <2>11. CASE FreeDescend
    BY <2>11, FreeDescendInv
  <2>12. CASE FreeOnFree
    BY <2>12, FreeOnFreeInv
  <2>13. CASE FreeNode
    BY <2>13, FreeNodeInv
  <2>14. CASE HeapEffect
    BY <2>14, EffectFacts, LinkInv, CutInv
  <2>15. CASE HeapReturn
    BY <2>15, HeapReturnInv
  <2>16. CASE Evict
    BY <2>16, EvictInv
  <2>17. CASE PowerFailure
    BY <2>17, PowerFailureInv
  <2>18. CASE UNCHANGED vars
    <3>1. /\ live' = live /\ cell' = cell /\ call' = call /\ up' = up
          /\ UNCHANGED <<word, count, pcount, on, failures, pc, arg, at, tnp>>
      BY <2>18 DEF vars, heap, fields
    <3>2. Typed' /\ Counting'
      BY <3>1 DEF Inv, Typed, TypeOK, Counting
    <3>3. Knows'
      BY <3>1 DEF Inv, Knows, KnowsInsert, KnowsFree, Inserting, Unlinked, Reached, Leaf
    <3> QED
      BY <3>1, <3>2, <3>3, KeepTree DEF Inv
  <2> QED
    BY <2>1, <2>2, <2>3, <2>4, <2>5, <2>6, <2>7, <2>8, <2>9, <2>10, <2>11, <2>12, <2>13,
       <2>14, <2>15, <2>16, <2>17, <2>18 DEF Next
<1> QED
  BY <1>1, <1>2, PTL DEF Spec

-----------------------------------------------------------------------------
(* What follows *)

\* The variables keep their types: no count or on list goes beyond its bound.
THEOREM TypeCorrect == Spec => []TypeOK
<1>1. Inv => TypeOK
  BY DEF Inv, Typed
<1> QED
  BY <1>1, Invariance, PTL

LEMMA BelowIs == \A d : Below(d) = Tree(cell, d)
  BY DEF Below, Tree, Closed, Side

\* tree.c's blocks: those in use are exactly those of the tree, and one pointer
\* leads to each, whatever failed and wherever.
THEOREM NothingLeaksOrDangles == Spec => []TreeOwnsHeap
<1>1. ASSUME Inv
      PROVE  TreeOwnsHeap
  <2>1. live = Below(root_) /\ Single(cell)
    BY <1>1, BelowIs DEF Inv, Pointers
  <2>2. {root_} \union (Below(root_) \X {"left", "right"}) \subseteq Cell
    BY <1>1, <2>1, Facts DEF Reached, Side
  <2> QED
    BY <2>1, <2>2 DEF TreeOwnsHeap, Single
<1> QED
  BY <1>1, Invariance, PTL

\* tree_insert and tree_free keep the order that tree_insert's descent relies on.
THEOREM StaysSearchTree == Spec => []SearchTree
<1>1. Inv => SearchTree
  BY BelowIs DEF Inv, Ordered, SearchTree
<1> QED
  BY <1>1, Invariance, PTL
-----------------------------------------------------------------------------
(* The tree implements WordCount *)

\* Survivor, as a function.
Saved == IF "power" \in failures THEN pcount ELSE count

\* Counts, without a choice.
CountsAre ==
    /\ Counts = [w \in Word |-> Counts[w]]
    /\ \A b \in live : Counts[word[b]] = Saved[b]
    /\ \A w \in Word : (\A b \in live : word[b] # w) => Counts[w] = 0

LEMMA CountsHold == Inv => CountsAre
<1> SUFFICES ASSUME Inv
             PROVE  CountsAre
  OBVIOUS
<1>1. Counts = [w \in Word |-> Counts[w]]
  BY DEF Counts
<1>2. ASSUME NEW b \in live
      PROVE  Counts[word[b]] = Saved[b]
  <2>1. word[b] \in Word
    BY DEF Inv, Counting
  <2>2. {x \in live : word[x] = word[b]} = {b}
    BY DEF Inv, Distinct
  <2>3. (CHOOSE x \in {b} : TRUE) = b
    OBVIOUS
  <2>4. Counts[word[b]] = Survivor(b)
    BY <2>1, <2>2, <2>3 DEF Counts
  <2> QED
    BY <2>4 DEF Survivor, Saved
<1>3. ASSUME NEW w \in Word, \A b \in live : word[b] # w
      PROVE  Counts[w] = 0
  <2>1. {x \in live : word[x] = w} = {}
    BY <1>3
  <2> QED
    BY <2>1 DEF Counts
<1> QED
  BY <1>1, <1>2, <1>3 DEF CountsAre

LEMMA CountsNext == Inv' => CountsAre'
  BY CountsHold, PTL

\* Only the word of the block n may change its count.
LEMMA CountsElsewhere ==
  ASSUME Inv, Inv', NEW n \in Block \union {NULL}, NEW w \in Word \union {NULL},
         live' \ {n} = live \ {n},
         \A x \in live \ {n} : word'[x] = word[x] /\ Saved'[x] = Saved[x],
         n \in live => word[n] = w, n \in live' => word'[n] = w
  PROVE  /\ \A v \in Word : v # w => Counts'[v] = Counts[v]
         /\ Counts' = [Counts EXCEPT ![w] = Counts'[w]]
<1>1. CountsAre /\ CountsAre'
  BY CountsHold, CountsNext
<1>2. ASSUME NEW v \in Word, v # w
      PROVE  Counts'[v] = Counts[v]
  <2>1. CASE \E b \in live : word[b] = v
    <3>1. PICK b \in live : word[b] = v
      BY <2>1
    <3>2. b # n /\ b \in live' /\ word'[b] = v /\ Saved'[b] = Saved[b]
      BY <1>2, <3>1
    <3> QED
      BY <1>1, <3>1, <3>2 DEF CountsAre
  <2>2. CASE \A b \in live : word[b] # v
    <3>1. \A b \in live' : word'[b] # v
      BY <1>2, <2>2
    <3> QED
      BY <1>1, <2>2, <3>1 DEF CountsAre
  <2> QED
    BY <2>1, <2>2
<1>3. Counts' = [Counts EXCEPT ![w] = Counts'[w]]
  BY <1>1, <1>2 DEF CountsAre
<1> QED
  BY <1>2, <1>3

LEMMA CountsSame ==
  ASSUME Inv, Inv', live' = live,
         \A x \in live : word'[x] = word[x] /\ Saved'[x] = Saved[x]
  PROVE  Counts' = Counts
<1>1. CountsAre /\ CountsAre'
  BY CountsHold, CountsNext
<1>2. NULL \notin live /\ NULL \notin Word
  BY Facts, TreeAssumption
<1>3. \A v \in Word : Counts'[v] = Counts[v]
  <2>1. \A x \in live \ {NULL} : word'[x] = word[x] /\ Saved'[x] = Saved[x]
    OBVIOUS
  <2>2. live' \ {NULL} = live \ {NULL} /\ NULL \notin live'
    BY <1>2
  <2>3. \A v \in Word : v # NULL => Counts'[v] = Counts[v]
    BY <1>2, <2>1, <2>2, CountsElsewhere
  <2> QED
    BY <1>2, <2>3
<1> QED
  BY <1>1, <1>3 DEF CountsAre

LEMMA FailStep ==
  ASSUME Inv, Inv', ProcessEnds, Counts' = Counts
  PROVE  Words!Fail
<1>1. up' = FALSE /\ pc' = "idle"
  BY DEF ProcessEnds, Heap!Fail, Done
<1> QED
  BY <1>1 DEF Words!Fail, Words!NoJob, Job, Inserting

\* A step that changes no count.
LEMMA QuietSteps ==
  ASSUME Inv, Inv', UNCHANGED <<live, word, pcount, failures>>,
         "power" \in failures \/ count' = count
  PROVE  Counts' = Counts
  BY CountsSame DEF Saved

LEMMA EndsRefine ==
  ASSUME Inv, Inv', Exit \/ Kill \/ PowerFailure
  PROVE  Words!Next
<1>1. ProcessEnds /\ UNCHANGED <<live, word, pcount, failures>>
  BY DEF Exit, Kill, PowerFailure, ProcessEnds, Heap!Fail, fields
<1>2. "power" \in failures \/ count' = count
  BY DEF Exit, Kill, PowerFailure, fields
<1> QED
  BY <1>1, <1>2, QuietSteps, FailStep DEF Words!Next

LEMMA TreeInitRefines ==
  ASSUME Inv, Inv', TreeInit
  PROVE  Words!Next
<1>1. /\ ~up /\ up' = TRUE /\ pc' = pc /\ arg' = arg
      /\ UNCHANGED <<live, word, count, pcount, failures>>
  BY DEF TreeInit, Heap!Start, fields
<1>2. pc = "idle" /\ Counts' = Counts
  BY <1>1, QuietSteps DEF Inv, Knows
<1>3. Job' = Job
  BY <1>1, <1>2 DEF Job, Inserting
<1> QED
  BY <1>1, <1>2, <1>3 DEF Words!Next, Words!Start

LEMMA InsertCallRefines ==
  ASSUME Inv, Inv', NEW w \in Word, InsertCall(w)
  PROVE  Words!Next
<1>1. /\ up /\ up' = up /\ pc = "idle" /\ pc' = "insert" /\ arg' = w
      /\ UNCHANGED <<live, word, count, pcount, failures>>
  BY DEF InsertCall, heap, fields
<1>2. Counts' = Counts
  BY <1>1, QuietSteps
<1>3. Job = Words!NoJob
  BY <1>1 DEF Job, Inserting, Words!NoJob
<1>4. Job' = [op |-> "insert", word |-> w, before |-> Counts[w]]
  BY <1>1, <1>2 DEF Job, Before, Inserting
<1> QED
  BY <1>1, <1>2, <1>3, <1>4 DEF Words!Next, Words!CallInsert

LEMMA InsertDescendRefines ==
  ASSUME Inv, Inv', InsertDescend
  PROVE  UNCHANGED Words!vars
<1>1. /\ pc = "insert" /\ pc' = pc /\ arg' = arg /\ up' = up
      /\ UNCHANGED <<live, word, count, pcount, failures>>
  BY DEF InsertDescend, heap, fields
<1>2. Counts' = Counts
  BY <1>1, QuietSteps
<1>3. Job' = Job
  BY <1>1, <1>2 DEF Job, Before, Inserting
<1> QED
  BY <1>1, <1>2, <1>3 DEF Words!vars

LEMMA InsertReserveRefines ==
  ASSUME Inv, Inv', InsertReserve
  PROVE  Words!Next \/ UNCHANGED Words!vars
<1>1. pc = "insert"
  BY DEF InsertReserve
<1>2. ASSUME NEW b \in Block \ live, word' = [word EXCEPT ![b] = arg],
             count' = [count EXCEPT ![b] = 1], pc' = "activate",
             UNCHANGED <<live, up, pcount, failures, arg>>
      PROVE  UNCHANGED Words!vars
  <2>1. word \in [Block -> Word \union {NULL}] /\ count \in [Block -> 0..MaxCount]
    BY DEF Inv, Typed, TypeOK
  <2>2. \A x \in live : word'[x] = word[x] /\ Saved'[x] = Saved[x]
    BY <1>2, <2>1, Facts DEF Saved
  <2>3. Counts' = Counts
    BY <1>2, <2>2, CountsSame
  <2>4. Job' = Job
    BY <1>1, <1>2, <2>3 DEF Job, Before, Inserting
  <2> QED
    BY <1>2, <2>3, <2>4 DEF Words!vars
<1>3. ASSUME ProcessEnds, UNCHANGED <<fields, failures>>
      PROVE  Words!Next
  <2>1. UNCHANGED <<live, word, count, pcount, failures>>
    BY <1>3 DEF ProcessEnds, Heap!Fail, fields
  <2> QED
    BY <1>3, <2>1, QuietSteps, FailStep DEF Words!Next
<1> QED
  BY <1>2, <1>3 DEF InsertReserve

LEMMA InsertActivateRefines ==
  ASSUME Inv, Inv', InsertActivate
  PROVE  UNCHANGED Words!vars
<1>1. /\ pc = "activate" /\ pc' = "activating" /\ arg' = arg /\ up' = up
      /\ UNCHANGED <<live, word, count, failures>>
      /\ pcount' = [pcount EXCEPT ![tnp] = count[tnp]]
  BY DEF InsertActivate, Heap!CallActivate
<1>2. /\ tnp \in Block \ live /\ arg \in Word /\ \A b \in live : word[b] # arg
  BY <1>1 DEF Inv, Knows, KnowsInsert, Unlinked, Inserting
<1>3. \A x \in live : Saved'[x] = Saved[x]
  BY <1>1, <1>2, Facts DEF Saved, Inv, Typed, TypeOK
<1>4. Counts' = Counts
  BY <1>1, <1>3, CountsSame
<1>5. Counts[arg] = 0
  BY <1>2, CountsHold DEF CountsAre
<1>6. Job' = Job
  BY <1>1, <1>4, <1>5 DEF Job, Before, Inserting
<1> QED
  BY <1>1, <1>4, <1>6 DEF Words!vars

\* The count of the node at at, which has the word arg.
LEMMA CountAt ==
  ASSUME Inv, Inv', cell[at] \in live, word[cell[at]] = arg, arg \in Word,
         UNCHANGED <<live, word, cell, at, arg>>,
         \A x \in live \ {cell[at]} : Saved'[x] = Saved[x]
  PROVE  /\ Counts[arg] = Saved[cell[at]] /\ Counts'[arg] = Saved'[cell[at]]
         /\ Counts' = [Counts EXCEPT ![arg] = Counts'[arg]]
<1> DEFINE b == cell[at]
<1>1. b \in Block
  BY Facts
<1>2. Counts' = [Counts EXCEPT ![arg] = Counts'[arg]]
  BY <1>1, CountsElsewhere
<1>3. Counts[word[b]] = Saved[b]
  BY CountsHold DEF CountsAre
<1>4. Counts'[word[b]] = Saved'[b]
  BY CountsNext DEF CountsAre
<1> QED
  BY <1>2, <1>3, <1>4

LEMMA InsertBumpRefines ==
  ASSUME Inv, Inv', InsertBump
  PROVE  Words!Next \/ UNCHANGED Words!vars
<1> DEFINE b == cell[at]
<1>1. /\ pc = "insert" /\ pc' = "persist" /\ up' = up
      /\ UNCHANGED <<live, cell, word, pcount, failures, arg, at>>
      /\ b # NULL /\ word[b] = arg
      /\ count' = [count EXCEPT ![b] = @ + 1]
  BY DEF InsertBump, heap
<1>2. at \in Reached /\ arg \in Word
  BY <1>1 DEF Inv, Knows, KnowsInsert, Inserting
<1>3. b \in live /\ b \in Block
  BY <1>1, <1>2, Facts
<1>4. count'[b] = count[b] + 1 /\ \A x \in live \ {b} : count'[x] = count[x]
  BY <1>1, <1>3, Facts DEF Inv, Typed, TypeOK
<1>5. \A x \in live \ {b} : Saved'[x] = Saved[x]
  BY <1>1, <1>4 DEF Saved
<1>6. /\ Counts[arg] = Saved[b] /\ Counts'[arg] = Saved'[b]
      /\ Counts' = [Counts EXCEPT ![arg] = Counts'[arg]]
  BY <1>1, <1>2, <1>3, <1>5, CountAt
<1>7. Saved[b] = count[b] /\ count[b] \in Nat
  BY <1>1, <1>3 DEF Saved, Inv, Counting
<1>8. Job = [op |-> "insert", word |-> arg, before |-> Counts[arg]]
  BY <1>1 DEF Job, Before, Inserting
<1>9. Job' = [op |-> "insert", word |-> arg, before |-> count[b]]
  <2>1. Before' = count[b]
    BY <1>1, <1>4, <1>7 DEF Before
  <2> QED
    BY <1>1, <2>1 DEF Job, Inserting
<1>10. Job' = Job
  BY <1>6, <1>7, <1>8, <1>9
<1>11. CASE "power" \in failures
  BY <1>1, <1>10, <1>11, QuietSteps DEF Words!vars
<1>12. CASE "power" \notin failures
  <2>1. Counts'[arg] = Counts[arg] + 1
    BY <1>1, <1>4, <1>6, <1>7, <1>12 DEF Saved
  <2> QED
    BY <1>1, <1>6, <1>8, <1>10, <2>1 DEF Words!Next, Words!Count
<1> QED
  BY <1>11, <1>12

\* Where power can fail, the count takes effect when it is written back, by
\* InsertPersist or by itself.
LEMMA WriteBackRefines ==
  ASSUME Inv, Inv', NEW b \in live,
         pcount' = [pcount EXCEPT ![b] = count[b]],
         UNCHANGED <<live, cell, word, count, failures, up, at, arg>>,
         pc' = pc \/ (pc = "persist" /\ pc' = "ret"),
         pcount[b] # count[b]
  PROVE  Words!Next \/ UNCHANGED Words!vars
<1>1. b \in Block /\ pcount'[b] = count[b] /\ \A x \in live \ {b} : pcount'[x] = pcount[x]
  BY Facts DEF Inv, Typed, TypeOK
<1>2. CASE "power" \notin failures
  <2>1. \A x \in live : Saved'[x] = Saved[x]
    BY <1>2 DEF Saved
  <2>2. Counts' = Counts
    BY <2>1, CountsSame
  <2>3. Job' = Job
    BY <2>2 DEF Job, Before, Inserting
  <2> QED
    BY <2>2, <2>3 DEF Words!vars
<1>3. CASE "power" \in failures
  <2>1. pc = "persist" /\ b = cell[at] /\ count[b] = pcount[b] + 1 /\ pcount[b] \in Nat
    BY <1>3 DEF Inv, Counting
  <2>2. word[b] = arg /\ arg \in Word
    BY <2>1 DEF Inv, Knows, KnowsInsert, Inserting
  <2>3. \A x \in live \ {b} : Saved'[x] = Saved[x]
    BY <1>1, <1>3 DEF Saved
  <2>4. /\ Counts[arg] = Saved[b] /\ Counts'[arg] = Saved'[b]
        /\ Counts' = [Counts EXCEPT ![arg] = Counts'[arg]]
    BY <2>1, <2>2, <2>3, CountAt
  <2>5. Counts[arg] = pcount[b] /\ Counts'[arg] = Counts[arg] + 1
    BY <1>1, <1>3, <2>1, <2>4 DEF Saved
  <2>6. Job = [op |-> "insert", word |-> arg, before |-> Counts[arg]]
    <3>1. Before = Counts[arg]
      BY <2>1, <2>5 DEF Before
    <3> QED
      BY <2>1, <3>1 DEF Job, Inserting
  <2>7. Job' = Job
    BY <2>1 DEF Job, Before, Inserting
  <2> QED
    BY <2>4, <2>5, <2>6, <2>7 DEF Words!Next, Words!Count
<1> QED
  BY <1>2, <1>3

LEMMA InsertPersistRefines ==
  ASSUME Inv, Inv', InsertPersist
  PROVE  Words!Next \/ UNCHANGED Words!vars
<1> DEFINE b == cell[at]
<1>1. /\ pc = "persist" /\ pc' = "ret"
      /\ UNCHANGED <<live, cell, word, count, failures, up, at, arg>>
      /\ pcount' = [pcount EXCEPT ![b] = count[b]]
  BY DEF InsertPersist, heap
<1>2. b \in live
  BY <1>1 DEF Inv, Knows, KnowsInsert
<1>3. CASE pcount[b] # count[b]
  BY <1>1, <1>2, <1>3, WriteBackRefines
<1>4. CASE pcount[b] = count[b]
  <2>1. pcount' = pcount
    BY <1>1, <1>4 DEF Inv, Typed, TypeOK
  <2>2. Counts' = Counts
    BY <1>1, <2>1, QuietSteps
  <2>3. Job' = Job
    BY <1>1 DEF Job, Before, Inserting
  <2> QED
    BY <1>1, <2>2, <2>3 DEF Words!vars
<1> QED
  BY <1>3, <1>4

LEMMA EvictRefines ==
  ASSUME Inv, Inv', Evict
  PROVE  Words!Next \/ UNCHANGED Words!vars
<1>1. PICK b \in live : pcount[b] # count[b] /\ pcount' = [pcount EXCEPT ![b] = count[b]]
  BY DEF Evict
<1>2. UNCHANGED <<live, cell, word, count, failures, up, at, arg, pc>>
  BY DEF Evict, heap
<1> QED
  BY <1>1, <1>2, WriteBackRefines

LEMMA InsertReturnRefines ==
  ASSUME Inv, Inv', InsertReturn
  PROVE  Words!Next
<1> DEFINE b == cell[at]
<1>1. /\ pc = "ret" /\ pc' = "idle" /\ up' = up
      /\ UNCHANGED <<live, word, count, pcount, failures>>
  BY DEF InsertReturn, Done, heap, fields
<1>2. b \in live /\ word[b] = arg
  BY <1>1 DEF Inv, Knows, KnowsInsert
<1>3. Counts' = Counts
  BY <1>1, QuietSteps
<1>4. Counts[word[b]] = Saved[b]
  BY <1>2, CountsHold DEF CountsAre
<1>5. Saved[b] = count[b] /\ count[b] \in Nat
  BY <1>1, <1>2 DEF Saved, Inv, Counting
<1>6. Job.op = "insert" /\ Counts[Job.word] = Job.before + 1
  <2>1. Job = [op |-> "insert", word |-> arg, before |-> count[b] - 1]
    BY <1>1 DEF Job, Before, Inserting
  <2> QED
    BY <2>1, <1>2, <1>4, <1>5
<1>7. Job' = Words!NoJob
  BY <1>1 DEF Job, Inserting, Words!NoJob
<1> QED
  BY <1>1, <1>3, <1>6, <1>7 DEF Words!Next, Words!Return

FreeJob == [op |-> "free", word |-> NULL, before |-> 0]

LEMMA FreeCallRefines ==
  ASSUME Inv, Inv', FreeCall
  PROVE  Words!Next
<1>1. /\ up /\ up' = up /\ pc = "idle" /\ pc' = "free"
      /\ UNCHANGED <<live, word, count, pcount, failures>>
  BY DEF FreeCall, heap, fields
<1>2. Counts' = Counts
  BY <1>1, QuietSteps
<1>3. Job = Words!NoJob /\ Job' = FreeJob
  BY <1>1 DEF Job, Inserting, Words!NoJob, FreeJob
<1>4. Job' = [Words!NoJob EXCEPT !.op = "free"]
  BY <1>3 DEF FreeJob, Words!NoJob
<1> QED
  BY <1>1, <1>2, <1>3, <1>4 DEF Words!Next, Words!CallFree

LEMMA FreeDescendRefines ==
  ASSUME Inv, Inv', FreeDescend
  PROVE  Words!Next \/ UNCHANGED Words!vars
<1>1. /\ pc = "free" /\ up' = up
      /\ UNCHANGED <<live, cell, word, count, pcount, failures>>
  BY DEF FreeDescend, heap, fields
<1>2. Counts' = Counts
  BY <1>1, QuietSteps
<1>3. Job = FreeJob
  BY <1>1 DEF Job, Inserting, FreeJob
<1>4. CASE pc' \in {"free", "onfree"}
  <2>1. Job' = FreeJob
    BY <1>4 DEF Job, Inserting, FreeJob
  <2> QED
    BY <1>1, <1>2, <1>3, <2>1 DEF Words!vars
<1>5. CASE cell[at] = NULL /\ Done
  <2>1. at = root_
    BY <1>1, <1>5 DEF Inv, Knows, KnowsFree
  <2>2. live = {}
    BY <1>5, <2>1, TreeEmpty DEF Inv, Pointers
  <2>3. \A w \in Word : Counts[w] = 0
    BY <2>2, CountsHold DEF CountsAre
  <2>4. Job' = Words!NoJob
    BY <1>5 DEF Job, Inserting, Words!NoJob, Done
  <2> QED
    BY <1>1, <1>2, <1>3, <2>3, <2>4 DEF Words!Next, Words!Return, FreeJob
<1> QED
  BY <1>1, <1>4, <1>5 DEF FreeDescend

LEMMA FreeOnFreeRefines ==
  ASSUME Inv, Inv', FreeOnFree
  PROVE  Words!Next \/ UNCHANGED Words!vars
<1>1. pc = "onfree" /\ UNCHANGED <<word, count, pcount, failures>>
  BY DEF FreeOnFree
<1>2. CASE pc' = "free_node" /\ UNCHANGED heap
  <2>1. Counts' = Counts
    BY <1>1, <1>2, QuietSteps DEF heap
  <2>2. Job' = Job
    BY <1>1, <1>2 DEF Job, Inserting
  <2> QED
    BY <1>2, <2>1, <2>2 DEF Words!vars, heap
<1>3. CASE ProcessEnds
  BY <1>1, <1>3, QuietSteps, FailStep DEF Words!Next, ProcessEnds, Heap!Fail
<1> QED
  BY <1>2, <1>3 DEF FreeOnFree

LEMMA FreeNodeRefines ==
  ASSUME Inv, Inv', FreeNode
  PROVE  UNCHANGED Words!vars
<1>1. /\ pc = "free_node" /\ pc' = "freeing" /\ up' = up
      /\ UNCHANGED <<live, word, count, pcount, failures>>
  BY DEF FreeNode, Heap!CallFree, fields
<1>2. Counts' = Counts
  BY <1>1, QuietSteps
<1>3. Job' = Job
  BY <1>1 DEF Job, Inserting
<1> QED
  BY <1>1, <1>2, <1>3 DEF Words!vars

LEMMA HeapEffectRefines ==
  ASSUME Inv, Inv', HeapEffect
  PROVE  Words!Next
<1>1. UNCHANGED <<up, word, count, pcount, failures, pc, arg>>
  BY EffectFacts
<1>2. Saved' = Saved
  BY <1>1 DEF Saved
<1>3. CASE pc = "activating"
  <2>1. live' = live \union {tnp} /\ Unlinked
    BY <1>3, EffectFacts
  <2>2. /\ arg \in Word /\ tnp \in Block \ live /\ word[tnp] = arg
        /\ count[tnp] = 1 /\ pcount[tnp] = 1 /\ \A b \in live : word[b] # arg
    BY <1>3, <2>1 DEF Inv, Knows, KnowsInsert, Inserting, Unlinked
  <2>3. Counts' = [Counts EXCEPT ![arg] = Counts'[arg]]
    <3>1. live' \ {tnp} = live \ {tnp}
      BY <2>1
    <3> QED
      BY <1>1, <1>2, <2>2, <3>1, CountsElsewhere
  <2>4. Counts[arg] = 0
    BY <2>2, CountsHold DEF CountsAre
  <2>5. Counts'[arg] = 1
    <3>1. Saved[tnp] = 1
      BY <2>2 DEF Saved
    <3>2. Counts'[word'[tnp]] = Saved'[tnp]
      BY <2>1, CountsNext DEF CountsAre
    <3> QED
      BY <1>1, <1>2, <2>2, <3>1, <3>2
  <2>6. /\ Job = [op |-> "insert", word |-> arg, before |-> 0]
        /\ Job' = [op |-> "insert", word |-> arg, before |-> 0]
    BY <1>1, <1>3 DEF Job, Before, Inserting
  <2> QED
    BY <1>1, <2>3, <2>4, <2>5, <2>6 DEF Words!Next, Words!Count
<1>4. CASE pc = "freeing"
  <2> DEFINE n == call.block
             w == word[n]
  <2>1. n \in live /\ live' = live \ {n}
    BY <1>4, EffectFacts
  <2>2. n \in Block /\ w \in Word
    BY <2>1, Facts DEF Inv, Counting
  <2>3. Counts' = [Counts EXCEPT ![w] = Counts'[w]]
    <3>1. live' \ {n} = live \ {n}
      BY <2>1
    <3> QED
      BY <1>1, <1>2, <2>1, <2>2, <3>1, CountsElsewhere
  <2>4. Counts[w] # 0
    <3>1. Saved[n] # 0
      BY <2>1 DEF Saved, Inv, Counting
    <3> QED
      BY <2>1, <3>1, CountsHold DEF CountsAre
  <2>5. Counts'[w] = 0
    <3>1. \A b \in live' : word'[b] # w
      BY <1>1, <2>1 DEF Inv, Distinct
    <3> QED
      BY <2>2, <3>1, CountsNext DEF CountsAre
  <2>6. Job = FreeJob /\ Job' = FreeJob
    BY <1>1, <1>4 DEF Job, Inserting, FreeJob
  <2>7. Words!Forget(w)
    BY <1>1, <2>3, <2>4, <2>5, <2>6 DEF Words!Forget, FreeJob
  <2> QED
    BY <2>2, <2>7 DEF Words!Next
<1> QED
  BY <1>3, <1>4, EffectFacts

LEMMA HeapReturnRefines ==
  ASSUME Inv, Inv', HeapReturn
  PROVE  Words!Next \/ UNCHANGED Words!vars
<1>1. UNCHANGED <<live, up, word, count, pcount, failures>>
  BY DEF HeapReturn, Heap!Return, fields
<1>2. Counts' = Counts
  BY <1>1, QuietSteps
<1>3. CASE pc = "activating" /\ Done
  <2>1. /\ call = [op |-> "activate", block |-> tnp, cells |-> {at}]
        /\ arg \in Word /\ word[tnp] = arg /\ count[tnp] = 1 /\ pcount[tnp] = 1
    BY <1>3 DEF Inv, Knows, KnowsInsert, Inserting
  <2>2. tnp \in live
    BY <2>1 DEF HeapReturn, Heap!Return
  <2>3. Counts[word[tnp]] = Saved[tnp]
    BY <2>2, CountsHold DEF CountsAre
  <2>4. Counts[arg] = 1
    BY <2>1, <2>3 DEF Saved
  <2>5. Job = [op |-> "insert", word |-> arg, before |-> 0]
    BY <1>3 DEF Job, Before, Inserting
  <2>6. Job' = Words!NoJob
    BY <1>3 DEF Job, Inserting, Words!NoJob, Done
  <2> QED
    BY <1>1, <1>2, <2>4, <2>5, <2>6 DEF Words!Next, Words!Return
<1>4. CASE pc = "freeing" /\ pc' = "free"
  <2>1. Job' = Job
    BY <1>4 DEF Job, Inserting
  <2> QED
    BY <1>1, <1>2, <2>1 DEF Words!vars
<1> QED
  BY <1>3, <1>4 DEF HeapReturn

\* An insertion counts its word once, and durably when it returns, whatever
\* fails; freeing forgets words and nothing else does.
THEOREM CountsDurably == Spec => CountsWords
<1>1. Init => Words!Init
  <2> SUFFICES ASSUME Init
               PROVE  Words!Init
    OBVIOUS
  <2>1. live = {} /\ up = FALSE /\ pc = "idle"
    BY DEF Init, Heap!Init
  <2>2. Counts = [w \in Word |-> 0]
    BY <2>1 DEF Counts
  <2> QED
    BY <2>1, <2>2 DEF Words!Init, Words!NoJob, Job, Inserting
<1>2. Inv /\ Inv' /\ [Next]_vars => [Words!Next]_(Words!vars)
  <2> SUFFICES ASSUME Inv, Inv', [Next]_vars
               PROVE  Words!Next \/ UNCHANGED Words!vars
    OBVIOUS
  <2>1. CASE TreeInit
    BY <2>1, TreeInitRefines
  <2>2. CASE Exit \/ Kill \/ PowerFailure
    BY <2>2, EndsRefine
  <2>3. CASE FreeCall
    BY <2>3, FreeCallRefines
  <2>4. CASE \E w \in Word : InsertCall(w)
    BY <2>4, InsertCallRefines
  <2>5. CASE InsertDescend
    BY <2>5, InsertDescendRefines
  <2>6. CASE InsertReserve
    BY <2>6, InsertReserveRefines
  <2>7. CASE InsertActivate
    BY <2>7, InsertActivateRefines
  <2>8. CASE InsertBump
    BY <2>8, InsertBumpRefines
  <2>9. CASE InsertPersist
    BY <2>9, InsertPersistRefines
  <2>10. CASE InsertReturn
    BY <2>10, InsertReturnRefines
  <2>11. CASE FreeDescend
    BY <2>11, FreeDescendRefines
  <2>12. CASE FreeOnFree
    BY <2>12, FreeOnFreeRefines
  <2>13. CASE FreeNode
    BY <2>13, FreeNodeRefines
  <2>14. CASE HeapEffect
    BY <2>14, HeapEffectRefines
  <2>15. CASE HeapReturn
    BY <2>15, HeapReturnRefines
  <2>16. CASE Evict
    BY <2>16, EvictRefines
  <2>17. CASE UNCHANGED vars
    <3>1. UNCHANGED <<live, cell, up, word, count, pcount, failures, pc, arg, at>>
      BY <2>17 DEF vars, heap, fields
    <3>2. Counts' = Counts
      BY <3>1, QuietSteps
    <3>3. Job' = Job
      BY <3>1, <3>2 DEF Job, Before
    <3> QED
      BY <3>1, <3>2, <3>3 DEF Words!vars
  <2> QED
    BY <2>1, <2>2, <2>3, <2>4, <2>5, <2>6, <2>7, <2>8, <2>9, <2>10, <2>11, <2>12, <2>13,
       <2>14, <2>15, <2>16, <2>17 DEF Next
<1> QED
  BY <1>1, <1>2, Invariance, PTL DEF Spec, CountsWords, Words!Spec

=============================================================================
