--------------------- MODULE ConcurrentCuckooHash_proof ---------------------
(***************************************************************************)
(* Proofs about the cuckoo hash table, for any threads, keys, parameters and *)
(* number of mutexes that is a power of two, in three parts:               *)
(*   - the mutexes: what they guard, and who waits for whom.  Nothing there *)
(*     depends on what is in the lists.  (Inv)                             *)
(*   - the lists: where the keys are, and why resize finds room for them.  *)
(*     (TableInv)                                                          *)
(*   - the set: every step is a step of KeySet or none that a caller sees. *)
(***************************************************************************)
EXTENDS ConcurrentCuckooHash, FiniteSetTheorems, TLAPS
-----------------------------------------------------------------------------
(* Buckets and stripes *)

\* Quotient and remainder.
LEMMA DivMod ==
    ASSUME NEW a \in Nat, NEW n \in Nat \ {0}
    PROVE  /\ a \div n \in Nat
           /\ a % n \in 0..(n - 1)
           /\ a = n * (a \div n) + (a % n)
  BY SMT

\* There is one remainder.
LEMMA ModUnique ==
    ASSUME NEW n \in Nat \ {0}, NEW q \in Nat, NEW r \in 0..(n - 1)
    PROVE  (n * q + r) % n = r
  BY SMT

\* In a table whose size the stripes divide, the bucket of a key has the
\* stripe of the key.
LEMMA ModMod ==
    ASSUME NEW l \in Nat \ {0}, NEW n \in Nat \ {0}, NEW k \in Nat, n % l = 0
    PROVE  (k % n) % l = k % l
<1> DEFINE m == n \div l
           q == k \div n
           r == k % n
           p == r \div l
<1>1. m \in Nat /\ n = l * m
  BY DivMod
<1>2. q \in Nat /\ r \in Nat /\ k = n * q + r
  BY DivMod
<1>3. p \in Nat /\ r % l \in 0..(l - 1) /\ r = l * p + (r % l)
  BY <1>2, DivMod
<1> HIDE DEF m, q, r, p
<1>4. m * q + p \in Nat
  BY <1>1, <1>2, <1>3
<1>5. n * q + l * p = l * (m * q + p)
  BY <1>1, <1>2, <1>3
<1>6. k = l * (m * q + p) + (r % l)
  BY <1>2, <1>3, <1>5
<1>7. k % l = r % l
  BY <1>3, <1>4, <1>6, ModUnique
<1> QED
  BY <1>7 DEF r

\* The stripes divide a table that is doubled.
LEMMA DoubleMod ==
    ASSUME NEW l \in Nat \ {0}, NEW n \in Nat, n % l = 0
    PROVE  (2 * n) % l = 0
<1> DEFINE m == n \div l
<1>1. m \in Nat /\ n = l * m
  BY DivMod
<1> HIDE DEF m
<1>2. 2 * n = l * (2 * m) + 0 /\ 2 * m \in Nat /\ 0 \in 0..(l - 1)
  BY <1>1
<1>3. (l * (2 * m) + 0) % l = 0
  BY ONLY <1>2, ModUnique, l \in Nat \ {0}
<1> QED
  BY <1>2, <1>3
-----------------------------------------------------------------------------
(* Odd multipliers *)

LEMMA LeastElement ==
    ASSUME NEW S \in SUBSET Nat, S # {}
    PROVE  \E n \in S : \A y \in S : n <= y
<1> DEFINE T == {0..n : n \in S}
<1>1. T \subseteq FiniteSubsetsOf(Nat) /\ T # {}
  <2>1. ASSUME NEW n \in S
        PROVE  0..n \in FiniteSubsetsOf(Nat)
    <3>1. IsFiniteSet(0..n) /\ 0..n \subseteq Nat
      BY FS_Interval
    <3> QED
      BY <3>1 DEF FiniteSubsetsOf
  <2> QED
    BY <2>1
<1>2. PICK X \in T : \A Y \in T : <<Y, X>> \notin StrictSubsetOrdering(Nat)
  BY <1>1, WFMin, FS_StrictSubsetOrderingWellFounded
<1>3. PICK n \in S : X = 0..n
  BY <1>2
<1>4. ASSUME NEW y \in S
      PROVE  n <= y
  <2> SUFFICES ASSUME y < n
               PROVE  FALSE
    OBVIOUS
  <2>1. 0..y \subseteq 0..n /\ n \in 0..n /\ n \notin 0..y
    OBVIOUS
  <2>2. 0..y \in T /\ 0..y \subseteq Nat /\ 0..n \subseteq Nat
    OBVIOUS
  <2>3. <<0..y, 0..n>> \in StrictSubsetOrdering(Nat)
    BY <2>1, <2>2 DEF StrictSubsetOrdering
  <2> QED
    BY <1>2, <1>3, <2>2, <2>3
<1> QED
  BY <1>4

LEMMA Multiple ==
    ASSUME NEW a \in Nat, NEW n \in Nat \ {0}
    PROVE  a % n = 0 <=> \E q \in Nat : a = n * q
<1>1. ASSUME a % n = 0
      PROVE  \E q \in Nat : a = n * q
  <2>1. a \div n \in Nat /\ a = n * (a \div n)
    BY <1>1, DivMod
  <2> QED
    BY <2>1
<1>2. ASSUME NEW q \in Nat, a = n * q
      PROVE  a % n = 0
  <2>1. (n * q + 0) % n = 0
    BY ModUnique
  <2>2. n * q + 0 = n * q
    OBVIOUS
  <2> QED
    BY <1>2, <2>1, <2>2
<1> QED
  BY <1>1, <1>2

LEMMA Distributes ==
    ASSUME NEW a \in Int, NEW b \in Int, NEW x \in Int
    PROVE  a * (b + x) = a * b + a * x /\ a * (b - x) = a * b - a * x
OBVIOUS

LEMMA Associates ==
    ASSUME NEW a \in Int, NEW b \in Int, NEW x \in Int
    PROVE  (a * b) * x = a * (b * x)
OBVIOUS

\* Multiplying by c tells residues modulo n apart.
Cancels(c, n) == \A a \in Nat : (c * a) % n = 0 => a % n = 0

\* The smallest d that c sends to a multiple of n divides n, and n \div d would
\* be even, with c, were it not 1.
LEMMA CancelsPower ==
    ASSUME NEW c \in Nat, c % 2 = 1, NEW n \in Nat \ {0},
           \A d \in 1..n : n % d = 0 => d = 1 \/ d % 2 = 0
    PROVE  Cancels(c, n)
<1> DEFINE S == {d \in Nat \ {0} : (c * d) % n = 0}
<1>1. n \in S
  <2>1. c * n \in Nat /\ c * n = n * c
    OBVIOUS
  <2> QED
    BY <2>1, Multiple
<1>2. PICK d \in S : \A y \in S : d <= y
  BY <1>1, LeastElement
<1>3. d \in Nat \ {0} /\ (c * d) % n = 0
  OBVIOUS
<1>4. PICK y \in Nat : c * d = n * y
  BY <1>3, Multiple
<1>5. ASSUME NEW a \in Nat, (c * a) % n = 0
      PROVE  a % d = 0
  <2>0. c * a \in Nat
    OBVIOUS
  <2>1. PICK x \in Nat : c * a = n * x
    BY <1>5, <2>0, Multiple
  <2>2. PICK q \in Nat, r \in 0..(d - 1) : a = d * q + r /\ r = a % d
    BY <1>3, DivMod
  <2>3. c * r = n * (x - y * q)
    <3>0. /\ d * q \in Int /\ y * q \in Int /\ r \in Int
          /\ c \in Int /\ n \in Int /\ x \in Int
      BY <1>3, <1>4, <2>1, <2>2
    <3>1. c * (d * q + r) = c * (d * q) + c * r /\ n * (x - y * q) = n * x - n * (y * q)
      <4>1. c * (d * q + r) = c * (d * q) + c * r
        BY ONLY <3>0, Distributes, ZenonT(30)
      <4>2. n * (x - y * q) = n * x - n * (y * q)
        BY ONLY <3>0, Distributes, ZenonT(30)
      <4> QED
        BY <4>1, <4>2
    <3>2. (c * d) * q = c * (d * q) /\ (n * y) * q = n * (y * q)
      BY <1>3, <1>4, <2>2, Associates
    <3>3. c * a = n * (y * q) + c * r
      BY <1>4, <2>2, <3>1, <3>2
    <3>4. c * r \in Int /\ n * (y * q) \in Int
      BY <2>2, <3>0
    <3> QED
      BY <2>1, <3>1, <3>3, <3>4
  <2>4. x - y * q \in Nat
    <3>1. c * r \in Nat
      BY <1>3, <2>2
    <3>2. x - y * q \in Int
      BY <1>4, <2>1, <2>2
    <3>3. ASSUME NEW z \in Int, n * z >= 0
          PROVE  z >= 0
      BY <3>3
    <3> QED
      BY <2>3, <3>1, <3>2, <3>3
  <2>5. (c * r) % n = 0
    <3>1. c * r \in Nat
      BY <1>3, <2>2
    <3> QED
      BY <2>3, <2>4, <3>1, Multiple
  <2>6. r # 0 => r \in S /\ r < d
    BY <1>3, <2>2, <2>5
  <2> HIDE DEF S
  <2>7. r = 0
    BY <1>2, <1>3, <2>2, <2>6
  <2> QED
    BY <2>2, <2>7
<1>6. PICK e \in Nat : n = d * e
  BY <1>1, <1>3, <1>5, Multiple
<1>7. e \in 1..n
  <2>1. e # 0
    BY <1>3, <1>6
  <2>2. (d - 1) * e >= 0 /\ d * e = (d - 1) * e + e
    BY <1>3, <1>6
  <2> QED
    BY <1>6, <2>1, <2>2
<1>8. e = 1 \/ e % 2 = 0
  <2>1. n = e * d
    BY <1>3, <1>6
  <2>2. n % e = 0
    BY <1>3, <1>7, <2>1, Multiple
  <2> QED
    BY <1>7, <2>2
<1>9. CASE e % 2 = 0
  <2>1. PICK f \in Nat : e = 2 * f
    BY <1>6, <1>9, Multiple
  <2>2. c * d = (2 * (f * y)) * d
    <3>1. n * y = (d * (2 * f)) * y
      BY <1>6, <2>1
    <3>2. (d * (2 * f)) * y = (2 * (f * y)) * d
      BY <1>3, <1>4, <2>1
    <3> QED
      BY <1>4, <3>1, <3>2
  <2>3. f * y \in Nat
    BY <1>4, <2>1
  <2>4. c = 2 * (f * y)
    <3>1. ASSUME NEW u \in Nat, NEW v \in Nat, u * d = v * d
          PROVE  u = v
      BY <1>3, <3>1
    <3> QED
      BY <2>2, <2>3, <3>1
  <2>5. c % 2 = 0
    BY <2>3, <2>4, Multiple
  <2> QED
    BY <2>5
<1>10. CASE e = 1
  <2>1. n = d
    BY <1>3, <1>6, <1>10
  <2> QED
    BY <1>5, <2>1 DEF Cancels
<1> QED
  BY <1>8, <1>9, <1>10

LEMMA CancelsDouble ==
    ASSUME NEW c \in Nat, c % 2 = 1, NEW n \in Nat \ {0}, Cancels(c, n)
    PROVE  Cancels(c, 2 * n)
<1> SUFFICES ASSUME NEW a \in Nat, (c * a) % (2 * n) = 0
             PROVE  a % (2 * n) = 0
  BY DEF Cancels
<1>1. 2 * n \in Nat \ {0} /\ c * a \in Nat
  OBVIOUS
<1>2. PICK q \in Nat : c * a = (2 * n) * q
  BY <1>1, Multiple
<1>3. PICK h \in Nat : c = 2 * h + 1
  BY DivMod
<1> DEFINE b == n * q - h * a
<1>4. a = 2 * b
  <2>1. c * a = 2 * (h * a) + a
    BY <1>3
  <2>2. (2 * n) * q = 2 * (n * q)
    BY <1>2
  <2> QED
    BY <1>2, <1>3, <2>1, <2>2
<1>5. b \in Nat
  <2>1. b \in Int
    BY <1>2, <1>3
  <2> HIDE DEF b
  <2> QED
    BY <1>4, <2>1
<1> HIDE DEF b
<1>6. c * b = n * q
  <2>1. c * a = 2 * (c * b)
    BY <1>4, <1>5
  <2>2. (2 * n) * q = 2 * (n * q)
    BY <1>2
  <2> QED
    BY <1>2, <1>5, <2>1, <2>2
<1>7. b % n = 0
  <2>1. c * b \in Nat
    BY <1>5
  <2>2. (c * b) % n = 0
    BY <1>2, <1>6, <2>1, Multiple
  <2> QED
    BY <1>5, <2>2 DEF Cancels
<1>8. PICK p \in Nat : b = n * p
  BY <1>5, <1>7, Multiple
<1>9. a = (2 * n) * p
  BY <1>4, <1>8
<1> QED
  BY <1>1, <1>8, <1>9, Multiple

\* Keys have one hash modulo n if and only if they are equal modulo n.
Injects(c, n) == \A a, b \in Nat : (c * a) % n = (c * b) % n <=> a % n = b % n

LEMMA CancelsEqual ==
    ASSUME NEW c \in Nat, NEW n \in Nat \ {0}, Cancels(c, n)
    PROVE  \A a, b \in Nat : (c * a) % n = (c * b) % n => a % n = b % n
<1>1. ASSUME NEW j \in Nat, NEW k \in Nat, j <= k, (c * j) % n = (c * k) % n
      PROVE  j % n = k % n
  <2>1. c * j \in Nat /\ c * k \in Nat /\ k - j \in Nat /\ c * (k - j) \in Nat
    BY <1>1
  <2>2. PICK r \in 0..(n - 1), x \in Nat, y \in Nat : c * j = n * x + r /\ c * k = n * y + r
    <3> DEFINE x == (c * j) \div n
               y == (c * k) \div n
               r == (c * j) % n
    <3>1. x \in Nat /\ r \in 0..(n - 1) /\ c * j = n * x + r
      BY <2>1, DivMod
    <3>2. y \in Nat /\ c * k = n * y + ((c * k) % n)
      BY <2>1, DivMod
    <3>3. c * k = n * y + r
      BY <1>1, <3>2
    <3> HIDE DEF x, y, r
    <3> QED
      BY <3>1, <3>2, <3>3
  <2>3. c * (k - j) = n * (y - x) /\ y - x \in Nat
    <3>0. c \in Int /\ n \in Int /\ x \in Int /\ y \in Int /\ j \in Int /\ k \in Int
      BY <2>2
    <3>1. c * (k - j) = c * k - c * j /\ n * (y - x) = n * y - n * x
      <4>1. c * (k - j) = c * k - c * j
        BY ONLY <3>0, Distributes, ZenonT(30)
      <4>2. n * (y - x) = n * y - n * x
        BY ONLY <3>0, Distributes, ZenonT(30)
      <4> QED
        BY <4>1, <4>2
    <3>2. PICK v \in Int, w \in Int : v = n * x /\ w = n * y
      BY <3>0
    <3>3. c * (k - j) = w - v /\ n * (y - x) = w - v
      BY <2>2, <3>1, <3>2
    <3>4. PICK z \in Int : z = y - x
      BY <3>0
    <3>5. n * z >= 0
      BY <2>1, <3>3, <3>4
    <3>6. z >= 0
      BY ONLY <3>5, n \in Nat \ {0}, z \in Int
    <3> QED
      BY <3>3, <3>4, <3>6
  <2>4. (k - j) % n = 0
    <3>1. (c * (k - j)) % n = 0
      BY <2>1, <2>3, Multiple
    <3> QED
      BY <2>1, <3>1 DEF Cancels
  <2>5. PICK p \in Nat : k - j = n * p
    BY <2>1, <2>4, Multiple
  <2>6. PICK u \in Nat, s \in 0..(n - 1) : j = n * u + s /\ s = j % n
    BY DivMod
  <2>7. k = n * (u + p) + s /\ u + p \in Nat
    <3>1. n * (u + p) = n * u + n * p
      BY <2>5, <2>6, Distributes
    <3>2. PICK v \in Int, w \in Int : v = n * u /\ w = n * p
      BY <2>5, <2>6
    <3>3. k - j = w /\ j = v + s /\ s \in Int
      BY <2>5, <2>6, <3>2
    <3>4. k = v + w + s
      BY ONLY <3>3, v \in Int, w \in Int, j \in Nat, k \in Nat
    <3>5. n * (u + p) = v + w
      BY <3>1, <3>2
    <3> QED
      BY <2>5, <2>6, <3>4, <3>5
  <2> QED
    BY <2>6, <2>7, ModUnique
<1> SUFFICES ASSUME NEW a \in Nat, NEW b \in Nat, (c * a) % n = (c * b) % n
             PROVE  a % n = b % n
  OBVIOUS
<1>2. CASE a <= b
  BY <1>1, <1>2
<1>3. CASE b <= a
  BY <1>1, <1>3
<1> QED
  BY <1>2, <1>3

LEMMA EqualTimes ==
    ASSUME NEW c \in Nat, NEW n \in Nat \ {0}
    PROVE  \A j, k \in Nat : j % n = k % n => (c * j) % n = (c * k) % n
<1> SUFFICES ASSUME NEW j \in Nat, NEW k \in Nat, j % n = k % n
             PROVE  (c * j) % n = (c * k) % n
  OBVIOUS
<1>1. PICK r \in 0..(n - 1), x \in Nat, y \in Nat : j = n * x + r /\ k = n * y + r
  BY DivMod
<1>2. PICK z \in Nat, s \in 0..(n - 1) : c * r = n * z + s
  <2>1. c * r \in Nat
    BY <1>1
  <2>2. /\ (c * r) \div n \in Nat /\ (c * r) % n \in 0..(n - 1)
        /\ c * r = n * ((c * r) \div n) + ((c * r) % n)
    BY <2>1, DivMod
  <2> QED
    BY <2>2
<1>3. c * j = n * (c * x + z) + s /\ c * x + z \in Nat
  <2>1. c * (n * x + r) = n * (c * x) + c * r
    BY <1>1
  <2>2. n * (c * x + z) = n * (c * x) + n * z
    BY <1>1, <1>2
  <2> QED
    BY <1>1, <1>2, <2>1, <2>2
<1>4. c * k = n * (c * y + z) + s /\ c * y + z \in Nat
  <2>1. c * (n * y + r) = n * (c * y) + c * r
    BY <1>1
  <2>2. n * (c * y + z) = n * (c * y) + n * z
    BY <1>1, <1>2
  <2> QED
    BY <1>1, <1>2, <2>1, <2>2
<1>5. (n * (c * x + z) + s) % n = s /\ (n * (c * y + z) + s) % n = s
  BY <1>2, <1>3, <1>4, ModUnique
<1> QED
  BY <1>3, <1>4, <1>5

LEMMA CancelsInjects ==
    ASSUME NEW c \in Nat, NEW n \in Nat \ {0}, Cancels(c, n)
    PROVE  Injects(c, n)
<1>1. \A a, b \in Nat : (c * a) % n = (c * b) % n => a % n = b % n
  BY CancelsEqual
<1>2. \A a, b \in Nat : a % n = b % n => (c * a) % n = (c * b) % n
  BY EqualTimes
<1> QED
  BY <1>1, <1>2 DEF Injects
-----------------------------------------------------------------------------
(* The mutexes: the inductive invariant *)

Acquiring == {"lock0", "lock1"}
Looked == {"add", "delete", "find", "release"}

\* The mutexes a thread has locked: those of its key, in acquire's order, or, in
\* aLock's order, the first n.
Holds(t, m) ==
    \/ pc[t] = "lock1" /\ m = mutex(0, loc[t].key)
    \/ pc[t] \in Guarded /\ m \in Held(loc[t].key)
    \/ pc[t] = "alock" /\ 2 * m[2] + m[1] < loc[t].n
    \/ pc[t] \in Resizing

Owned == \A t \in Threads, m \in Mutex : mtx[m] = t <=> Holds(t, m)

\* What a thread knows of its call: it has locked the mutexes of its argument,
\* but in relocate, where they are those of the victim.
KnowsOf(t) ==
    /\ DOMAIN loc[t] = DOMAIN NoLocals
    /\ loc[t].n \in Nat /\ loc[t].round \in Nat
    /\ pc[t] # "idle" => /\ loc[t].op \in {"add", "delete", "find"}
                         /\ loc[t].arg \in Key /\ loc[t].key \in Key
    /\ pc[t] = "alock" => loc[t].n < 2 * mtx_size
    /\ pc[t] \notin Resizing \union {"alock"} => loc[t].n = 0
    /\ pc[t] \in {"head", "list", "node", "key", "hash"} => loc[t].round > 0
    /\ pc[t] \in Looked \/ (pc[t] \in Acquiring /\ loc[t].round = 0) =>
           loc[t].key = loc[t].arg

Knows == \A t \in Threads : KnowsOf(t)

\* The number of mutexes divides the size of the tables.
Sized == table_size \in Nat \ {0} /\ table_size % mtx_size = 0

Typed ==
    /\ mtx \in [Mutex -> Threads \union {NULL}]
    /\ pc \in [Threads -> Steps]
    /\ DOMAIN loc = Threads

Inv ==
    /\ Typed
    /\ Sized
    /\ Owned
    /\ Knows

-----------------------------------------------------------------------------
(* The mutexes: what the invariant says *)

LEMMA Bounds == mtx_size \in Nat \ {0} /\ \A k \in Key : k \in Nat
  BY CuckooAssumption DEF PowerOfTwo

LEMMA HashType ==
    ASSUME NEW no \in No, NEW k \in Nat
    PROVE  hashCode(no, k) \in Nat
  BY DEF hashCode, No

LEMMA MutexType ==
    ASSUME NEW no \in No, NEW k \in Nat
    PROVE  mutex(no, k) \in Mutex /\ mutex(no, k)[1] = no
<1>1. hashCode(no, k) % mtx_size \in 0..(mtx_size - 1)
  BY Bounds, HashType, DivMod
<1> QED
  BY <1>1 DEF mutex, Mutex

LEMMA HeldType ==
    ASSUME NEW k \in Nat
    PROVE  Held(k) = {mutex(0, k), mutex(1, k)} /\ Held(k) \subseteq Mutex
<1>1. 0 \in No /\ 1 \in No /\ \A no \in No : no = 0 \/ no = 1
  BY DEF No
<1>2. Held(k) = {mutex(0, k), mutex(1, k)}
  BY <1>1 DEF Held
<1> QED
  BY <1>1, <1>2, MutexType

LEMMA CallOf ==
    ASSUME Inv, NEW t \in Threads, pc[t] # "idle"
    PROVE  /\ loc[t].op \in {"add", "delete", "find"}
           /\ loc[t].arg \in Key /\ loc[t].arg \in Nat
           /\ loc[t].key \in Key /\ loc[t].key \in Nat
           /\ Held(loc[t].key) = {mutex(0, loc[t].key), mutex(1, loc[t].key)}
           /\ Held(loc[t].key) \subseteq Mutex
<1>1. /\ loc[t].op \in {"add", "delete", "find"}
      /\ loc[t].arg \in Key /\ loc[t].key \in Key
  BY DEF Inv, Knows, KnowsOf
<1>2. loc[t].arg \in Nat /\ loc[t].key \in Nat
  BY <1>1, Bounds
<1> QED
  BY <1>1, <1>2, HeldType

LEMMA HeldOnce ==
    ASSUME Inv, NEW t \in Threads, NEW u \in Threads, NEW m \in Mutex,
           Holds(t, m), Holds(u, m)
    PROVE  t = u
  BY DEF Inv, Owned

\* Keys that share a list share its mutex, however often the tables doubled.
LEMMA ListMutex ==
    ASSUME Inv, NEW j \in Nat, NEW k \in Nat, NEW no \in No,
           hashCode(no, j) % table_size = hashCode(no, k) % table_size
    PROVE  mutex(no, j) = mutex(no, k)
<1>1. (hashCode(no, j) % table_size) % mtx_size = hashCode(no, j) % mtx_size
  BY Bounds, HashType, ModMod DEF Inv, Sized
<1>2. (hashCode(no, k) % table_size) % mtx_size = hashCode(no, k) % mtx_size
  BY Bounds, HashType, ModMod DEF Inv, Sized
<1> QED
  BY <1>1, <1>2 DEF mutex

LEMMA InvListsGuarded ==
    ASSUME Inv
    PROVE  ListsGuarded
<1>1. ASSUME NEW t \in Threads, NEW u \in Threads, t # u,
             pc[t] \in Guarded, pc[u] \in Guarded,
             NEW l \in Lists(loc[t].key), l \in Lists(loc[u].key)
      PROVE  FALSE
  <2>1. pc[t] # "idle" /\ pc[u] # "idle"
    BY <1>1 DEF Guarded
  <2>2. loc[t].key \in Nat /\ loc[u].key \in Nat
    BY <2>1, CallOf
  <2>3. PICK n \in No : l = <<n, hashCode(n, loc[t].key) % table_size>>
    BY <1>1 DEF Lists
  <2>4. PICK o \in No : l = <<o, hashCode(o, loc[u].key) % table_size>>
    BY <1>1 DEF Lists
  <2>5. n = o /\ hashCode(n, loc[t].key) % table_size = hashCode(n, loc[u].key) % table_size
    BY <2>3, <2>4
  <2>6. mutex(n, loc[t].key) = mutex(n, loc[u].key) /\ mutex(n, loc[t].key) \in Mutex
    BY <2>2, <2>5, ListMutex, MutexType
  <2>7. Holds(t, mutex(n, loc[t].key)) /\ Holds(u, mutex(n, loc[t].key))
    BY <1>1, <2>6 DEF Holds, Held
  <2> QED
    BY <1>1, <2>6, <2>7, HeldOnce
<1>2. ASSUME NEW t \in Threads, NEW u \in Threads, t # u, pc[t] \in Resizing,
             pc[u] \in Guarded \union Resizing
      PROVE  FALSE
  <2>1. \A m \in Mutex : Holds(t, m)
    BY <1>2 DEF Holds
  <2>2. pc[u] # "idle"
    BY <1>2 DEF Guarded, Resizing
  <2>3. mutex(0, loc[u].key) \in Mutex /\ mutex(0, loc[u].key) \in Held(loc[u].key)
    BY <2>2, CallOf
  <2>4. Holds(u, mutex(0, loc[u].key))
    BY <1>2, <2>3 DEF Holds
  <2> QED
    BY <1>2, <2>1, <2>3, <2>4, HeldOnce
<1> QED
  BY <1>1, <1>2 DEF ListsGuarded

\* Who has locked a mutex that another thread waits for.
LEMMA Holder ==
    ASSUME Inv, NEW m \in Mutex, mtx[m] # NULL
    PROVE  /\ mtx[m] \in Threads /\ Holds(mtx[m], m)
           /\ pc[mtx[m]] \in {"lock1", "alock"} \union Guarded \union Resizing
<1>1. mtx[m] \in Threads
  BY DEF Inv, Typed
<1>2. Holds(mtx[m], m)
  BY <1>1 DEF Inv, Owned
<1> QED
  BY <1>1, <1>2 DEF Holds

LEMMA InvStuckInResizeOnly ==
    ASSUME Inv
    PROVE  StuckInResizeOnly
<1> SUFFICES ASSUME NEW t \in Threads, Blocked(t),
                    ~ \E u \in Threads : pc[u] # "idle" /\ ~Blocked(u),
                    ~ \E u \in Threads : pc[u] = "alock"
             PROVE  FALSE
  BY DEF StuckInResizeOnly
<1>1. \A u \in Threads : pc[u] \notin Guarded \union Resizing \union {"alock"}
  BY DEF Blocked, Guarded, Resizing
<1>2. ASSUME NEW u \in Threads, pc[u] = "lock1"
      PROVE  FALSE
  <2> DEFINE m == mutex(1, loc[u].key)
  <2>1. loc[u].key \in Nat
    BY <1>2, CallOf
  <2>2. m \in Mutex /\ m[1] = 1
    BY <2>1, MutexType DEF No
  <2>3. mtx[m] # NULL
    BY <1>2 DEF Blocked
  <2> HIDE DEF m
  <2>4. mtx[m] \in Threads /\ Holds(mtx[m], m) /\ pc[mtx[m]] = "lock1"
    BY <1>1, <2>2, <2>3, Holder
  <2>5. m = mutex(0, loc[mtx[m]].key)
    BY <2>4 DEF Holds, Guarded, Resizing
  <2>6. loc[mtx[m]].key \in Nat
    BY <2>4, CallOf
  <2>7. m[1] = 0
    BY <2>5, <2>6, MutexType DEF No
  <2> QED
    BY <2>2, <2>7
<1>3. pc[t] = "lock0" /\ mtx[mutex(0, loc[t].key)] # NULL
  BY <1>1, <1>2 DEF Blocked
<1>4. mutex(0, loc[t].key) \in Mutex
  <2>1. loc[t].key \in Nat
    BY <1>3, CallOf
  <2> QED
    BY <2>1, MutexType DEF No
<1>5. mtx[mutex(0, loc[t].key)] \in Threads /\ pc[mtx[mutex(0, loc[t].key)]] = "lock1"
  BY <1>1, <1>3, <1>4, Holder
<1> QED
  BY <1>2, <1>5
-----------------------------------------------------------------------------
(* The mutexes: what every step of a thread leaves alone *)

\* A deletion and resize write the y of threads that are choosing a victim.
Renews(u) ==
    \/ loc'[u] = loc[u]
    \/ pc[u] \in Choosing /\ \E y : loc'[u] = [loc[u] EXCEPT !.y = y]

Agrees(u) ==
    /\ pc'[u] = pc[u] /\ DOMAIN loc'[u] = DOMAIN loc[u]
    /\ loc'[u].op = loc[u].op /\ loc'[u].arg = loc[u].arg /\ loc'[u].key = loc[u].key
    /\ loc'[u].round = loc[u].round /\ loc'[u].n = loc[u].n

OnlyMoves(t) == \A u \in Threads \ {t} : Agrees(u)

\* A step takes mutexes that are free and gives up mutexes the thread holds.
Respects(t) ==
    \A m \in Mutex :
        /\ mtx'[m] = t <=> Holds(t, m)'
        /\ mtx'[m] # mtx[m] => mtx[m] \in {t, NULL} /\ mtx'[m] \in {t, NULL}

LEMMA RespectfulStep ==
    ASSUME Inv, NEW t \in Threads, OnlyMoves(t), Respects(t)
    PROVE  Owned'
<1>1. NULL \notin Threads
  BY CuckooAssumption
<1>2. ASSUME NEW u \in Threads, NEW m \in Mutex
      PROVE  mtx'[m] = u <=> Holds(u, m)'
  <2>1. CASE u = t
    BY <2>1 DEF Respects
  <2>2. CASE u # t
    <3>1. Holds(u, m)' <=> Holds(u, m)
      BY <2>2 DEF OnlyMoves, Agrees, Holds, mutex, Held, hashCode
    <3>2. mtx[m] = u <=> Holds(u, m)
      BY DEF Inv, Owned
    <3>3. mtx'[m] = u <=> mtx[m] = u
      BY <1>1, <2>2 DEF Respects
    <3> QED
      BY <3>1, <3>2, <3>3
  <2> QED
    BY <2>1, <2>2
<1> QED
  BY <1>2 DEF Owned, Mutex, No

LEMMA LocksKept ==
    ASSUME Inv, NEW t \in Threads, UNCHANGED mtx,
           \A m \in Mutex : Holds(t, m)' <=> Holds(t, m)
    PROVE  Respects(t)
  BY DEF Inv, Owned, Respects

\* The whole of a step, once it is known what it does to its own thread.
LEMMA StepOf ==
    ASSUME Inv, NEW t \in Threads, OnlyMoves(t), Typed', Sized', Respects(t), KnowsOf(t)'
    PROVE  Inv'
<1>1. Owned'
  BY RespectfulStep
<1>2. ASSUME NEW u \in Threads
      PROVE  KnowsOf(u)'
  <2>1. CASE u = t
    BY <2>1
  <2>2. CASE u # t
    <3>1. KnowsOf(u)
      BY DEF Inv, Knows
    <3> QED
      BY <2>2, <3>1 DEF OnlyMoves, Agrees, KnowsOf, NoLocals
  <2> QED
    BY <2>1, <2>2
<1> QED
  BY <1>1, <1>2 DEF Inv, Knows

\* A step that writes the pc and the locals of its own thread.
LEMMA OwnMoves ==
    ASSUME Inv, NEW t \in Threads, NEW l \in Steps, NEW r,
           pc' = [pc EXCEPT ![t] = l], loc' = [loc EXCEPT ![t] = r]
    PROVE  /\ OnlyMoves(t) /\ pc'[t] = l /\ loc'[t] = r
           /\ pc' \in [Threads -> Steps] /\ DOMAIN loc' = Threads
<1>1. pc \in [Threads -> Steps] /\ DOMAIN loc = Threads
  BY DEF Inv, Typed
<1> QED
  BY <1>1 DEF OnlyMoves, Agrees

LEMMA FaultInv ==
    ASSUME Inv, NEW why, Fault(why)
    PROVE  Inv'
<1>1. UNCHANGED <<table_size, mtx, pc, loc>>
  BY DEF Fault
<1>2. Typed' /\ Sized'
  BY <1>1 DEF Inv, Typed, Sized
<1>3. Owned'
  BY <1>1 DEF Inv, Owned, Holds, mutex, Held, hashCode
<1>4. Knows'
  BY <1>1 DEF Inv, Knows, KnowsOf
<1> QED
  BY <1>2, <1>3, <1>4 DEF Inv

LEMMA Fields ==
    /\ DOMAIN NoLocals = {"op", "arg", "key", "ok", "ret", "i", "hi", "round", "y", "ts",
                          "grow", "n", "old"}
    /\ NoLocals.n = 0 /\ NoLocals.round = 0
  BY DEF NoLocals

LEMMA FieldsOf ==
    ASSUME Inv, NEW t \in Threads
    PROVE  /\ DOMAIN loc[t] = {"op", "arg", "key", "ok", "ret", "i", "hi", "round", "y",
                               "ts", "grow", "n", "old"}
           /\ loc[t].n \in Nat /\ loc[t].round \in Nat
  BY Fields DEF Inv, Knows, KnowsOf

LEMMA Renewed ==
    ASSUME Inv, NEW u \in Threads, pc'[u] = pc[u], Renews(u)
    PROVE  Agrees(u)
  BY FieldsOf DEF Agrees, Renews
-----------------------------------------------------------------------------
(* The mutexes: the steps of a call *)

LEMMA CallInv ==
    ASSUME Inv, NEW t \in Threads, NEW op \in Ops, NEW k \in Key, Call(t, op, k)
    PROVE  Inv'
<1> DEFINE r == [NoLocals EXCEPT !.op = op, !.arg = k, !.key = k]
<1>1. /\ pc[t] = "idle" /\ pc' = [pc EXCEPT ![t] = "lock0"]
      /\ loc' = [loc EXCEPT ![t] = r] /\ UNCHANGED <<table_size, mtx>>
  BY DEF Call, At, Local, Goto, shared
<1>2. /\ DOMAIN r = DOMAIN NoLocals /\ r.op = op /\ r.arg = k /\ r.key = k
      /\ r.n = 0 /\ r.round = 0
  BY Fields
<1>3. op \in {"add", "delete", "find"}
  BY CuckooAssumption
<1> HIDE DEF r
<1>4. /\ OnlyMoves(t) /\ pc'[t] = "lock0" /\ loc'[t] = r
      /\ pc' \in [Threads -> Steps] /\ DOMAIN loc' = Threads
  BY <1>1, OwnMoves DEF Steps
<1>5. Typed' /\ Sized'
  BY <1>1, <1>4 DEF Inv, Typed, Sized
<1>6. Respects(t)
  <2>1. \A m \in Mutex : ~Holds(t, m)' /\ ~Holds(t, m)
    BY <1>1, <1>4 DEF Holds, Guarded, Resizing
  <2> QED
    BY <1>1, <2>1, LocksKept
<1>7. KnowsOf(t)'
  BY <1>2, <1>3, <1>4 DEF KnowsOf, Looked, Acquiring, Resizing
<1> QED
  BY <1>4, <1>5, <1>6, <1>7, StepOf

\* acquire's two steps.
LEMMA LockInv ==
    ASSUME Inv, NEW t \in Threads, Lock0(t) \/ Lock1(t)
    PROVE  Inv'
<1> DEFINE k == loc[t].key
           l == IF loc[t].round = 0 THEN loc[t].op ELSE "move"
<1>1. PICK no \in No, s \in Steps :
          /\ mtx[mutex(no, k)] = NULL /\ mtx' = [mtx EXCEPT ![mutex(no, k)] = t]
          /\ pc' = [pc EXCEPT ![t] = s] /\ UNCHANGED <<table_size, loc>>
          /\ \/ no = 0 /\ pc[t] = "lock0" /\ s = "lock1"
             \/ no = 1 /\ pc[t] = "lock1" /\ s = l
  <2>0. 0 \in No /\ 1 \in No /\ "lock1" \in Steps
    BY DEF No, Steps
  <2>1. CASE Lock0(t)
    <3>1. /\ pc[t] = "lock0" /\ mtx[mutex(0, k)] = NULL
          /\ mtx' = [mtx EXCEPT ![mutex(0, k)] = t]
          /\ pc' = [pc EXCEPT ![t] = "lock1"] /\ UNCHANGED <<table_size, loc>>
      BY <2>1 DEF Lock0, At, Goto
    <3> HIDE DEF l, k
    <3> USE <2>0
    <3> WITNESS 0 \in No, "lock1" \in Steps
    <3> QED
      BY <3>1
  <2>2. CASE Lock1(t)
    <3>1. /\ pc[t] = "lock1" /\ mtx[mutex(1, k)] = NULL
          /\ mtx' = [mtx EXCEPT ![mutex(1, k)] = t]
          /\ pc' = [pc EXCEPT ![t] = l] /\ UNCHANGED <<table_size, loc>>
      BY <2>2 DEF Lock1, At, Goto
    <3>2. l \in Steps
      BY <3>1, CallOf DEF Steps, Guarded
    <3> HIDE DEF l, k
    <3> USE <2>0, <3>2
    <3> WITNESS 1 \in No, l \in Steps
    <3> QED
      BY <3>1
  <2> QED
    BY <2>1, <2>2
<1>2. /\ pc[t] # "idle" /\ k \in Nat /\ mutex(no, k) \in Mutex
      /\ mutex(0, k) \in Mutex /\ mutex(1, k) \in Mutex
      /\ Held(k) = {mutex(0, k), mutex(1, k)}
  BY <1>1, CallOf, MutexType DEF No
<1>3. l \in Guarded /\ (loc[t].round = 0 => l \in Looked) /\ (loc[t].round # 0 => l = "move")
  BY <1>2, CallOf DEF Guarded, Looked
<1> HIDE DEF k, l
<1>4. OnlyMoves(t) /\ pc'[t] = s /\ loc' = loc /\ pc' \in [Threads -> Steps]
  BY <1>1 DEF Inv, Typed, OnlyMoves, Agrees
<1>5. \A m \in Mutex : mtx'[m] = IF m = mutex(no, k) THEN t ELSE mtx[m]
  BY <1>1 DEF Inv, Typed
<1>6. Typed' /\ Sized'
  <2>1. mtx' \in [Mutex -> Threads \union {NULL}]
    BY <1>1, <1>2 DEF Inv, Typed
  <2> QED
    BY <1>1, <1>4, <2>1 DEF Inv, Typed, Sized
<1>7. \A m \in Mutex : Holds(t, m)' <=> Holds(t, m) \/ m = mutex(no, k)
  <2>1. CASE no = 0
    BY <1>1, <1>4, <2>1 DEF Holds, Guarded, Resizing, mutex, hashCode, k
  <2>2. CASE no = 1
    <3>1. \A m \in Mutex : Holds(t, m) <=> m = mutex(0, k)
      BY <1>1, <2>2 DEF Holds, Guarded, Resizing, k
    <3>2. \A m \in Mutex : Holds(t, m)' <=> m \in Held(k)
      BY <1>1, <1>3, <1>4, <2>2 DEF Holds, Guarded, Resizing, Held, mutex, hashCode, k
    <3> QED
      BY <1>2, <2>2, <3>1, <3>2
  <2> QED
    BY <1>1, <2>1, <2>2
<1>8. Respects(t)
  BY <1>1, <1>2, <1>5, <1>7 DEF Inv, Owned, Respects
<1>9. KnowsOf(t)'
  <2>1. KnowsOf(t)
    BY DEF Inv, Knows
  <2>2. CASE no = 0
    BY <1>1, <1>4, <2>1, <2>2 DEF KnowsOf, Looked, Acquiring, Resizing
  <2>3. CASE no = 1
    BY <1>1, <1>3, <1>4, <2>1, <2>3 DEF KnowsOf, Looked, Acquiring, Resizing, Guarded
  <2> QED
    BY <1>1, <2>2, <2>3
<1> QED
  BY <1>4, <1>6, <1>8, <1>9, StepOf

\* A call that only looks keeps its mutexes until it releases them.
LEMMA LookInv ==
    ASSUME Inv, NEW t \in Threads, AddRefused(t) \/ FindNode(t)
    PROVE  Inv'
<1> DEFINE q == [loc[t] EXCEPT !.ok = contains_op(loc[t].arg), !.ret = contains_op(loc[t].arg)]
<1>1. /\ pc[t] \in {"add", "find"} /\ pc' = [pc EXCEPT ![t] = "release"]
      /\ UNCHANGED <<table_size, mtx>>
      /\ loc' = loc \/ loc' = [loc EXCEPT ![t] = q]
  BY DEF AddRefused, FindNode, At, Local, Goto, shared
<1>2. loc'[t] \in {loc[t], q} /\ DOMAIN loc' = Threads
      /\ \A u \in Threads \ {t} : loc'[u] = loc[u]
  <2> HIDE DEF q
  <2> QED
    BY <1>1 DEF Inv, Typed
<1>3. /\ DOMAIN loc'[t] = DOMAIN loc[t] /\ loc'[t].op = loc[t].op
      /\ loc'[t].arg = loc[t].arg /\ loc'[t].key = loc[t].key
      /\ loc'[t].n = loc[t].n /\ loc'[t].round = loc[t].round
  BY <1>2, FieldsOf
<1> HIDE DEF q
<1>4. OnlyMoves(t) /\ pc'[t] = "release" /\ pc' \in [Threads -> Steps]
  BY <1>1, <1>2 DEF Inv, Typed, OnlyMoves, Agrees, Steps, Guarded
<1>5. Typed' /\ Sized'
  BY <1>1, <1>2, <1>4 DEF Inv, Typed, Sized
<1>6. Respects(t)
  <2>1. \A m \in Mutex : Holds(t, m)' <=> Holds(t, m)
    BY <1>1, <1>3, <1>4 DEF Holds, Guarded, Resizing, Held, mutex, hashCode
  <2> QED
    BY <1>1, <2>1, LocksKept
<1>7. KnowsOf(t)'
  <2>1. KnowsOf(t)
    BY DEF Inv, Knows
  <2> QED
    BY <1>1, <1>3, <1>4, <2>1 DEF KnowsOf, Looked, Acquiring, Resizing, NoLocals
<1> QED
  BY <1>4, <1>5, <1>6, <1>7, StepOf

\* A step that releases the mutexes of the key they were taken for.
LEMMA ReleasingStep ==
    ASSUME Inv, NEW t \in Threads, pc[t] \in Guarded, mtx' = Unlocked(loc[t].key),
           UNCHANGED table_size, OnlyMoves(t),
           pc' \in [Threads -> Steps], DOMAIN loc' = Threads,
           pc'[t] \in {"ret", "head", "alock"}, loc'[t].n = 0, KnowsOf(t)'
    PROVE  Inv'
<1>1. \A m \in Mutex : mtx'[m] = IF m \in Held(loc[t].key) THEN NULL ELSE mtx[m]
  BY DEF Unlocked
<1>2. \A m \in Mutex : Holds(t, m) <=> m \in Held(loc[t].key)
  BY DEF Holds, Guarded, Resizing
<1>3. \A m \in Mutex : ~Holds(t, m)'
  <2>1. \A m \in Mutex : m[1] \in Nat /\ m[2] \in Nat
    BY Bounds DEF Mutex, No
  <2> QED
    BY <2>1 DEF Holds, Guarded, Resizing
<1>4. NULL \notin Threads
  BY CuckooAssumption
<1>5. Respects(t)
  BY <1>1, <1>2, <1>3, <1>4 DEF Inv, Owned, Respects
<1>6. Typed' /\ Sized'
  <2>1. mtx' \in [Mutex -> Threads \union {NULL}]
    BY DEF Unlocked, Inv, Typed
  <2> QED
    BY <2>1 DEF Inv, Typed, Sized
<1> QED
  BY <1>5, <1>6, StepOf

LEMMA ReleaseInv ==
    ASSUME Inv, NEW t \in Threads, Release(t)
    PROVE  Inv'
<1>1. /\ pc[t] = "release" /\ pc' = [pc EXCEPT ![t] = "ret"]
      /\ mtx' = Unlocked(loc[t].arg) /\ UNCHANGED <<table_size, loc>>
  BY DEF Release, At, Goto
<1>2. KnowsOf(t)
  BY DEF Inv, Knows
<1>3. loc[t].key = loc[t].arg /\ loc[t].n = 0
  BY <1>1, <1>2 DEF KnowsOf, Looked, Resizing
<1>4. OnlyMoves(t) /\ pc'[t] = "ret" /\ pc' \in [Threads -> Steps] /\ DOMAIN loc' = Threads
  BY <1>1 DEF Inv, Typed, OnlyMoves, Agrees, Steps
<1>5. KnowsOf(t)'
  BY <1>1, <1>2, <1>4 DEF KnowsOf, Looked, Acquiring, Resizing
<1>6. pc[t] \in Guarded
  BY <1>1 DEF Guarded
<1> QED
  BY <1>1, <1>3, <1>4, <1>5, <1>6, ReleasingStep

\* What a step that releases leaves in the locals.
LEMMA ReleasingMove ==
    ASSUME Inv, NEW t \in Threads, pc[t] \in Guarded, mtx' = Unlocked(loc[t].key),
           UNCHANGED table_size, NEW l \in {"ret", "head", "alock"}, NEW r,
           pc' = [pc EXCEPT ![t] = l], loc' = [loc EXCEPT ![t] = r],
           DOMAIN r = DOMAIN loc[t], r.op = loc[t].op, r.arg = loc[t].arg,
           r.key = loc[t].key, r.n = loc[t].n, r.round \in Nat,
           l = "head" => r.round > 0
    PROVE  Inv'
<1>1. /\ OnlyMoves(t) /\ pc'[t] = l /\ loc'[t] = r
      /\ pc' \in [Threads -> Steps] /\ DOMAIN loc' = Threads
  BY OwnMoves DEF Steps
<1>2. KnowsOf(t)
  BY DEF Inv, Knows
<1>3. /\ loc[t].n = 0 /\ loc[t].op \in {"add", "delete", "find"}
      /\ loc[t].arg \in Key /\ loc[t].key \in Key
  BY <1>2 DEF KnowsOf, Guarded, Resizing
<1>4. KnowsOf(t)'
  BY <1>1, <1>2, <1>3, Bounds DEF KnowsOf, Looked, Acquiring, Resizing, NoLocals
<1> QED
  BY <1>1, <1>3, <1>4, ReleasingStep

LEMMA AddNodeInv ==
    ASSUME Inv, NEW t \in Threads, AddNode(t)
    PROVE  Inv'
<1> DEFINE k == loc[t].arg
           p == Place(k)
           q == [loc[t] EXCEPT !.ok = TRUE, !.ret = TRUE, !.round = 1, !.i = p[1],
                               !.hi = hashCode(p[1], k) % table_size]
           d == [loc[t] EXCEPT !.ok = TRUE, !.ret = TRUE]
<1>1. /\ pc[t] = "add" /\ mtx' = Unlocked(k) /\ UNCHANGED table_size
      /\ \/ pc' = [pc EXCEPT ![t] = "head"] /\ loc' = [loc EXCEPT ![t] = q]
         \/ pc' = [pc EXCEPT ![t] = "ret"] /\ loc' = [loc EXCEPT ![t] = d]
  <2> HIDE DEF p
  <2>1. /\ pc[t] = "add" /\ mtx' = Unlocked(k) /\ UNCHANGED table_size
        /\ IF p[2]
           THEN Local(t, q) /\ Goto(t, "head")
           ELSE Local(t, d) /\ Goto(t, "ret")
    BY DEF AddNode, At, p
  <2> HIDE DEF q, d, k
  <2> QED
    BY <2>1 DEF Local, Goto
<1>2. k = loc[t].key /\ pc[t] \in Guarded
  BY <1>1 DEF Inv, Knows, KnowsOf, Looked, Guarded
<1> HIDE DEF p
<1>3. /\ DOMAIN q = DOMAIN loc[t] /\ q.op = loc[t].op /\ q.arg = loc[t].arg
      /\ q.key = loc[t].key /\ q.n = loc[t].n /\ q.round \in Nat /\ q.round > 0
  BY FieldsOf
<1>4. /\ DOMAIN d = DOMAIN loc[t] /\ d.op = loc[t].op /\ d.arg = loc[t].arg
      /\ d.key = loc[t].key /\ d.n = loc[t].n /\ d.round \in Nat
  BY FieldsOf
<1> HIDE DEF k, q, d
<1>5. CASE pc' = [pc EXCEPT ![t] = "head"] /\ loc' = [loc EXCEPT ![t] = q]
  BY <1>1, <1>2, <1>3, <1>5, ReleasingMove
<1>6. CASE pc' = [pc EXCEPT ![t] = "ret"] /\ loc' = [loc EXCEPT ![t] = d]
  BY <1>1, <1>2, <1>4, <1>6, ReleasingMove
<1> QED
  BY <1>1, <1>5, <1>6

LEMMA AddNoRoomInv ==
    ASSUME Inv, NEW t \in Threads, AddNoRoom(t)
    PROVE  Inv'
<1> DEFINE r == [loc[t] EXCEPT !.ret = TRUE, !.grow = TRUE]
<1>1. /\ pc[t] = "add" /\ mtx' = Unlocked(loc[t].arg) /\ UNCHANGED table_size
      /\ pc' = [pc EXCEPT ![t] = "alock"] /\ loc' = [loc EXCEPT ![t] = r]
  BY DEF AddNoRoom, At, Local, Goto
<1>2. loc[t].arg = loc[t].key /\ pc[t] \in Guarded
  BY <1>1 DEF Inv, Knows, KnowsOf, Looked, Guarded
<1>3. /\ DOMAIN r = DOMAIN loc[t] /\ r.op = loc[t].op /\ r.arg = loc[t].arg
      /\ r.key = loc[t].key /\ r.n = loc[t].n /\ r.round \in Nat
  BY FieldsOf
<1> HIDE DEF r
<1> QED
  BY <1>1, <1>2, <1>3, ReleasingMove

LEMMA DeleteNodeInv ==
    ASSUME Inv, NEW t \in Threads, DeleteNode(t)
    PROVE  Inv'
<1>1. pc[t] = "delete" /\ UNCHANGED table_size
  BY DEF DeleteNode, At
<1>2. KnowsOf(t)
  BY DEF Inv, Knows
<1>3. loc[t].key = loc[t].arg /\ loc[t].n = 0 /\ pc[t] \in Guarded
  BY <1>1, <1>2 DEF KnowsOf, Looked, Resizing, Guarded
<1>4. CASE mtx' = Unlocked(loc[t].arg) /\ Goto(t, "ret")
           /\ loc' = [u \in Threads |->
                         IF u = t THEN [loc[t] EXCEPT !.ok = TRUE, !.ret = TRUE]
                         ELSE IF pc[u] \in Choosing /\ loc[u].y = loc[t].arg
                         THEN [loc[u] EXCEPT !.y = Freed] ELSE loc[u]]
  <2> DEFINE r == [loc[t] EXCEPT !.ok = TRUE, !.ret = TRUE]
  <2>1. pc' = [pc EXCEPT ![t] = "ret"] /\ DOMAIN loc' = Threads /\ loc'[t] = r
    BY <1>4 DEF Goto
  <2>2. ASSUME NEW u \in Threads, u # t
        PROVE  Agrees(u)
    <3>1. pc'[u] = pc[u]
      BY <2>1, <2>2 DEF Inv, Typed
    <3>2. Renews(u)
      BY <1>4, <2>2 DEF Renews
    <3> QED
      BY <3>1, <3>2, Renewed
  <2>3. OnlyMoves(t) /\ pc'[t] = "ret" /\ pc' \in [Threads -> Steps]
    BY <2>1, <2>2 DEF Inv, Typed, OnlyMoves, Steps
  <2>4. /\ DOMAIN r = DOMAIN loc[t] /\ r.op = loc[t].op /\ r.arg = loc[t].arg
        /\ r.key = loc[t].key /\ r.n = loc[t].n /\ r.round = loc[t].round
    BY FieldsOf
  <2> HIDE DEF r
  <2>5. KnowsOf(t)'
    BY <1>1, <1>2, <2>1, <2>3, <2>4 DEF KnowsOf, Looked, Acquiring, Resizing, NoLocals
  <2> QED
    BY <1>1, <1>3, <1>4, <2>1, <2>3, <2>4, <2>5, ReleasingStep
<1>5. CASE Goto(t, "release") /\ UNCHANGED <<table, mtx, loc>>
  <2>1. pc' = [pc EXCEPT ![t] = "release"] /\ loc' = loc /\ mtx' = mtx
    BY <1>5 DEF Goto
  <2>2. OnlyMoves(t) /\ pc'[t] = "release" /\ pc' \in [Threads -> Steps]
    BY <2>1 DEF Inv, Typed, OnlyMoves, Agrees, Steps, Guarded
  <2>3. Typed' /\ Sized'
    BY <1>1, <2>1, <2>2 DEF Inv, Typed, Sized
  <2>4. Respects(t)
    <3>1. \A m \in Mutex : Holds(t, m)' <=> Holds(t, m)
      BY <1>1, <2>1, <2>2 DEF Holds, Guarded, Resizing, Held, mutex, hashCode
    <3> QED
      BY <2>1, <3>1, LocksKept
  <2>5. KnowsOf(t)'
    BY <1>1, <1>2, <2>1, <2>2 DEF KnowsOf, Looked, Acquiring, Resizing
  <2> QED
    BY <2>2, <2>3, <2>4, <2>5, StepOf
<1> QED
  BY <1>4, <1>5 DEF DeleteNode

-----------------------------------------------------------------------------
(* The mutexes: the steps of relocate *)

\* A step that writes at most f[t], for the thread t that takes it.
Sets(f, g, t, x) == g = [f EXCEPT ![t] = x] \/ (g = f /\ x = f[t])

\* A step of a thread that has locked nothing.
LEMMA LocklessStep ==
    ASSUME Inv, NEW t \in Threads, pc[t] \in {"head", "ret"} \union Choosing,
           UNCHANGED <<table_size, mtx>>, NEW l \in {"lock0", "idle"} \union Choosing, NEW r,
           Sets(pc, pc', t, l), Sets(loc, loc', t, r), KnowsOf(t)'
    PROVE  Inv'
<1>0. pc \in [Threads -> Steps] /\ DOMAIN loc = Threads
  BY DEF Inv, Typed
<1>1. /\ OnlyMoves(t) /\ pc'[t] = l /\ loc'[t] = r
      /\ pc' \in [Threads -> Steps] /\ DOMAIN loc' = Threads
  BY <1>0 DEF OnlyMoves, Agrees, Sets, Steps
<1>2. Typed' /\ Sized'
  BY <1>1 DEF Inv, Typed, Sized
<1>3. Respects(t)
  <2>1. \A m \in Mutex : ~Holds(t, m)' /\ ~Holds(t, m)
    BY <1>1 DEF Holds, Guarded, Resizing, Choosing
  <2> QED
    BY <2>1, LocksKept
<1> QED
  BY <1>1, <1>2, <1>3, StepOf

Chooses(t) ==
    \/ RelocateTable(t) \/ RelocateList(t) \/ RelocateHead(t)
    \/ RelocateKey(t) \/ RelocateHash(t)

\* The steps that choose a victim write y and ts, and key, with a key.
Chosen(t, r) ==
    /\ DOMAIN r = DOMAIN loc[t] /\ r.op = loc[t].op /\ r.arg = loc[t].arg
    /\ r.ok = loc[t].ok /\ r.grow = loc[t].grow /\ r.n = loc[t].n
    /\ r.round = loc[t].round /\ r.i = loc[t].i /\ r.hi = loc[t].hi /\ r.key \in Key

ChoosesTo(t, l, r) ==
    /\ pc[t] \in {"head"} \union Choosing /\ l \in {"lock0"} \union Choosing
    /\ Sets(pc, pc', t, l) /\ Sets(loc, loc', t, r) /\ Chosen(t, r)
    /\ UNCHANGED <<params, table_size, table, mtx, seen>>

LEMMA ChooseFacts ==
    ASSUME Inv, NEW t \in Threads, Chooses(t)
    PROVE  (\E why : Fault(why)) \/ (\E l, r : ChoosesTo(t, l, r))
<1>0. pc[t] \in {"head"} \union Choosing => loc[t].key \in Key
  BY DEF Inv, Knows, KnowsOf, Choosing
<1>1. CASE RelocateTable(t)
  <2> DEFINE r == [loc[t] EXCEPT !.ts = table_size, !.y = NULL]
  <2>1. /\ pc[t] = "head" /\ Sets(pc, pc', t, "list") /\ Sets(loc, loc', t, r)
        /\ UNCHANGED <<params, table_size, table, mtx, seen>>
    BY <1>1 DEF RelocateTable, At, Goto, Local, Sets, shared
  <2>2. Chosen(t, r)
    BY <1>0, <2>1, FieldsOf DEF Chosen
  <2> QED
    BY <2>1, <2>2 DEF ChoosesTo, Choosing
<1>2. CASE RelocateList(t) \/ RelocateHash(t)
  <2>1. Chosen(t, loc[t]) \/ loc[t].key \notin Key
    BY DEF Chosen
  <2>2. CASE RelocateList(t)
    <3>1. CASE Fault("freed memory")
      BY <3>1
    <3>2. CASE ~Fault("freed memory")
      <4>1. /\ pc[t] = "list" /\ Sets(pc, pc', t, "node") /\ Sets(loc, loc', t, loc[t])
            /\ UNCHANGED <<params, table_size, table, mtx, seen>>
        BY <2>2, <3>2 DEF RelocateList, At, Goto, Sets, shared
      <4> QED
        BY <1>0, <2>1, <4>1 DEF ChoosesTo, Choosing
    <3> QED
      BY <3>1, <3>2
  <2>3. CASE RelocateHash(t)
    <3>1. CASE Fault("freed memory")
      BY <3>1
    <3>2. CASE ~Fault("freed memory")
      <4>1. /\ pc[t] = "hash" /\ Sets(pc, pc', t, "lock0") /\ Sets(loc, loc', t, loc[t])
            /\ UNCHANGED <<params, table_size, table, mtx, seen>>
        BY <2>3, <3>2 DEF RelocateHash, At, Goto, Sets, shared
      <4> QED
        BY <1>0, <2>1, <4>1 DEF ChoosesTo, Choosing
    <3> QED
      BY <3>1, <3>2
  <2> QED
    BY <1>2, <2>2, <2>3
<1>3. CASE RelocateHead(t)
  <2> DEFINE y == IF loc[t].ts = table_size
                  THEN First(table[loc[t].i][loc[t].hi]) ELSE loc[t].y
             r == [loc[t] EXCEPT !.y = y]
  <2>1. /\ pc[t] = "node" /\ Sets(pc, pc', t, "key") /\ Sets(loc, loc', t, r)
        /\ UNCHANGED <<params, table_size, table, mtx, seen>>
    BY <1>3, FieldsOf DEF RelocateHead, At, Goto, Local, Sets, shared
  <2> HIDE DEF y
  <2>2. Chosen(t, r)
    BY <1>0, <2>1, FieldsOf DEF Chosen, Choosing
  <2> QED
    BY <2>1, <2>2 DEF ChoosesTo, Choosing
<1>4. CASE RelocateKey(t)
  <2>1. CASE Fault("null pointer") \/ Fault("freed memory")
    BY <2>1
  <2>2. CASE ~(Fault("null pointer") \/ Fault("freed memory"))
    <3> DEFINE r == [loc[t] EXCEPT !.key = loc[t].y]
    <3>1. /\ pc[t] = "key" /\ Sets(pc, pc', t, "hash") /\ Sets(loc, loc', t, r)
          /\ loc[t].y \in Key /\ UNCHANGED <<params, table_size, table, mtx, seen>>
      BY <1>4, <2>2 DEF RelocateKey, At, Goto, Local, Sets, shared
    <3>2. Chosen(t, r)
      BY <3>1, FieldsOf DEF Chosen
    <3> QED
      BY <3>1, <3>2 DEF ChoosesTo, Choosing
  <2> QED
    BY <2>1, <2>2
<1> QED
  BY <1>1, <1>2, <1>3, <1>4 DEF Chooses

LEMMA ChoosesInv ==
    ASSUME Inv, NEW t \in Threads, Chooses(t)
    PROVE  Inv'
<1>1. CASE \E why : Fault(why)
  BY <1>1, FaultInv
<1>2. ASSUME NEW l, NEW r, ChoosesTo(t, l, r)
      PROVE  Inv'
  <2>1. /\ pc[t] \in {"head"} \union Choosing /\ l \in {"lock0"} \union Choosing
        /\ Sets(pc, pc', t, l) /\ Sets(loc, loc', t, r) /\ Chosen(t, r)
        /\ UNCHANGED <<table_size, mtx>>
    BY <1>2 DEF ChoosesTo
  <2>2. pc'[t] = l /\ loc'[t] = r
    BY <2>1 DEF Inv, Typed, Sets
  <2>3. KnowsOf(t)
    BY DEF Inv, Knows
  <2>4. KnowsOf(t)'
    BY <2>1, <2>2, <2>3 DEF KnowsOf, Looked, Acquiring, Resizing, NoLocals, Chosen, Choosing
  <2> QED
    BY <2>1, <2>4, LocklessStep
<1> QED
  BY <1>1, <1>2, ChooseFacts

LEMMA RelocateMoveInv ==
    ASSUME Inv, NEW t \in Threads, RelocateMove(t)
    PROVE  Inv'
<1> DEFINE j == 1 - loc[t].i
           h == hashCode(j, loc[t].key) % table_size
           q == [loc[t] EXCEPT !.round = @ + 1, !.i = j, !.hi = h]
           d == [loc[t] EXCEPT !.round = 0, !.i = 0, !.hi = 0, !.ts = 0, !.y = NULL]
<1>1. CASE Fault("list of an old table") \/ Fault("null pointer")
  BY <1>1, FaultInv
<1>2. CASE ~(Fault("list of an old table") \/ Fault("null pointer"))
  <2>1. /\ pc[t] = "move" /\ mtx' = Unlocked(loc[t].key) /\ UNCHANGED table_size
        /\ \/ pc' = [pc EXCEPT ![t] = "head"] /\ loc' = [loc EXCEPT ![t] = q]
           \/ pc' = [pc EXCEPT ![t] = "ret"] /\ loc' = [loc EXCEPT ![t] = d]
           \/ pc' = [pc EXCEPT ![t] = "alock"] /\ loc' = [loc EXCEPT ![t] = d]
    BY <1>2 DEF RelocateMove, At, Local, Goto, Settled, GiveUp, Leave
  <2> HIDE DEF j, h
  <2>2. /\ DOMAIN q = DOMAIN loc[t] /\ q.op = loc[t].op /\ q.arg = loc[t].arg
        /\ q.key = loc[t].key /\ q.n = loc[t].n /\ q.round \in Nat /\ q.round > 0
    BY FieldsOf
  <2>3. /\ DOMAIN d = DOMAIN loc[t] /\ d.op = loc[t].op /\ d.arg = loc[t].arg
        /\ d.key = loc[t].key /\ d.n = loc[t].n /\ d.round \in Nat
    BY FieldsOf
  <2> HIDE DEF q, d
  <2>4. pc[t] \in Guarded
    BY <2>1 DEF Guarded
  <2>5. CASE pc' = [pc EXCEPT ![t] = "head"] /\ loc' = [loc EXCEPT ![t] = q]
    BY <2>1, <2>2, <2>4, <2>5, ReleasingMove
  <2>6. CASE pc' = [pc EXCEPT ![t] = "ret"] /\ loc' = [loc EXCEPT ![t] = d]
    BY <2>1, <2>3, <2>4, <2>6, ReleasingMove
  <2>7. CASE pc' = [pc EXCEPT ![t] = "alock"] /\ loc' = [loc EXCEPT ![t] = d]
    BY <2>1, <2>3, <2>4, <2>7, ReleasingMove
  <2> QED
    BY <2>1, <2>5, <2>6, <2>7
<1> QED
  BY <1>1, <1>2

LEMMA ReturnInv ==
    ASSUME Inv, NEW t \in Threads, Return(t)
    PROVE  Inv'
<1>1. /\ pc[t] = "ret" /\ pc' = [pc EXCEPT ![t] = "idle"]
      /\ loc' = [loc EXCEPT ![t] = NoLocals] /\ UNCHANGED <<table_size, mtx>>
  BY DEF Return, At, Local, Goto, shared
<1>2. pc'[t] = "idle" /\ loc'[t] = NoLocals
  BY <1>1 DEF Inv, Typed
<1>3. KnowsOf(t)'
  BY <1>2, Fields DEF KnowsOf, Looked, Acquiring, Resizing
<1> QED
  BY <1>1, <1>3, LocklessStep DEF Sets
-----------------------------------------------------------------------------
(* The mutexes: the steps of resize *)

LEMMA ALockInv ==
    ASSUME Inv, NEW t \in Threads, ALock(t)
    PROVE  Inv'
<1> DEFINE n == loc[t].n
           a == n % 2
           b == n \div 2
           l == IF n + 1 < 2 * mtx_size THEN "alock" ELSE "swap"
           r == [loc[t] EXCEPT !.n = @ + 1]
<1>1. /\ pc[t] = "alock" /\ mtx[<<a, b>>] = NULL
      /\ mtx' = [mtx EXCEPT ![<<a, b>>] = t]
      /\ pc' = [pc EXCEPT ![t] = l] /\ loc' = [loc EXCEPT ![t] = r]
      /\ UNCHANGED table_size
  BY DEF ALock, At, Local, Goto
<1>2. n \in Nat /\ n < 2 * mtx_size /\ mtx_size \in Nat \ {0}
  BY <1>1, Bounds DEF Inv, Knows, KnowsOf
<1>3. a \in No /\ b \in Nat /\ n = 2 * b + a /\ b < mtx_size
  <2>1. a \in 0..(2 - 1) /\ b \in Nat /\ n = 2 * b + a
    <3>1. 2 \in Nat \ {0}
      OBVIOUS
    <3>2. ASSUME NEW x \in Nat
          PROVE  x % 2 \in 0..(2 - 1) /\ x \div 2 \in Nat /\ x = 2 * (x \div 2) + (x % 2)
      BY <3>1, DivMod
    <3> QED
      BY <1>2, <3>2
  <2> HIDE DEF a, b, n
  <2> QED
    BY <1>2, <2>1 DEF No
<1>4. /\ DOMAIN r = DOMAIN loc[t] /\ r.op = loc[t].op /\ r.arg = loc[t].arg
      /\ r.key = loc[t].key /\ r.n = n + 1 /\ r.round = loc[t].round
  BY FieldsOf
<1>5. /\ l \in {"alock", "swap"} /\ (l = "alock" => n + 1 < 2 * mtx_size)
      /\ (l = "swap" => n + 1 = 2 * mtx_size)
  BY <1>2
<1>6. l \in Steps
  BY <1>5 DEF Steps, Resizing
<1> HIDE DEF a, b, l, r
<1>7. /\ OnlyMoves(t) /\ pc'[t] = l /\ loc'[t] = r
      /\ pc' \in [Threads -> Steps] /\ DOMAIN loc' = Threads
  BY <1>1, <1>6, OwnMoves
<1>8. <<a, b>> \in Mutex
  BY <1>2, <1>3 DEF Mutex
<1>9. Typed' /\ Sized'
  <2>1. mtx' \in [Mutex -> Threads \union {NULL}]
    BY <1>1, <1>8 DEF Inv, Typed
  <2> QED
    BY <1>1, <1>7, <2>1 DEF Inv, Typed, Sized
<1>10. ASSUME NEW m \in Mutex
       PROVE  Holds(t, m)' <=> Holds(t, m) \/ m = <<a, b>>
  <2>1. PICK x \in No, y \in 0..(mtx_size - 1) : m = <<x, y>>
    BY DEF Mutex
  <2>2. x \in 0..1 /\ a \in 0..1 /\ y \in Nat /\ y < mtx_size
    BY <1>2, <1>3, <2>1 DEF No
  <2>3. Holds(t, m) <=> 2 * y + x < n
    BY <1>1, <2>1 DEF Holds, Guarded, Resizing
  <2>4. m = <<a, b>> <=> x = a /\ y = b
    BY <2>1
  <2>5. 2 * y + x < n + 1 <=> 2 * y + x < n \/ (x = a /\ y = b)
    <3> HIDE DEF n
    <3> QED
      BY <1>2, <1>3, <2>2
  <2>6. CASE l = "alock"
    <3>1. Holds(t, m)' <=> 2 * y + x < n + 1
      BY <1>4, <1>7, <2>1, <2>6 DEF Holds, Guarded, Resizing
    <3> QED
      BY <2>3, <2>4, <2>5, <3>1
  <2>7. CASE l = "swap"
    <3>1. Holds(t, m)'
      BY <1>7, <2>7 DEF Holds, Resizing
    <3>2. 2 * y + x < n + 1
      BY <1>2, <1>5, <2>2, <2>7
    <3> QED
      BY <2>3, <2>4, <2>5, <3>1, <3>2
  <2> QED
    BY <1>5, <2>6, <2>7
<1>11. \A m \in Mutex : mtx'[m] = IF m = <<a, b>> THEN t ELSE mtx[m]
  BY <1>1 DEF Inv, Typed
<1>12. Respects(t)
  BY <1>1, <1>8, <1>10, <1>11 DEF Inv, Owned, Respects
<1>13. KnowsOf(t)'
  <2>1. KnowsOf(t)
    BY DEF Inv, Knows
  <2> QED
    BY <1>1, <1>2, <1>4, <1>5, <1>7, <2>1
    DEF KnowsOf, Looked, Acquiring, Resizing, NoLocals
<1> QED
  BY <1>7, <1>9, <1>12, <1>13, StepOf

\* Swap and rehash keep all the mutexes.
LEMMA ResizingInv ==
    ASSUME Inv, NEW t \in Threads, Swap(t) \/ RehashNode(t) \/ RehashEnd(t)
    PROVE  Inv'
<1>1. CASE Fault("no tables")
  BY <1>1, FaultInv
<1>2. CASE ~Fault("no tables")
  <2>0. PICK l \in {"rehash", "aunlock"} : \E r :
            /\ pc[t] \in {"swap", "rehash"} /\ UNCHANGED mtx
            /\ pc' = [pc EXCEPT ![t] = l] /\ loc'[t] = r /\ DOMAIN loc' = Threads
            /\ \A u \in Threads \ {t} : Renews(u)
            /\ \E o : r = [loc[t] EXCEPT !.old = o]
            /\ table_size' \in {table_size, 2 * table_size}
    <3>0. DOMAIN loc = Threads
      BY DEF Inv, Typed
    <3>1. CASE Swap(t)
      <4>1. \A u \in Threads \ {t} : Renews(u)
        BY <1>2, <3>1 DEF Swap, KeepsHead, Renews, Choosing
      <4> QED
        BY <1>2, <3>1, <4>1 DEF Swap, At, Goto
    <3>2. CASE RehashNode(t)
      <4>1. pc' = [pc EXCEPT ![t] = "rehash"] /\ pc[t] = "rehash"
        BY <3>2 DEF RehashNode, At, Inv, Typed
      <4>2. PICK o : loc' = [loc EXCEPT ![t] = [loc[t] EXCEPT !.old = o]]
        BY <3>2 DEF RehashNode, Local
      <4>3. mtx' = mtx /\ table_size' = table_size
        BY <3>2 DEF RehashNode
      <4> QED
        BY <3>0, <4>1, <4>2, <4>3 DEF Renews
    <3>3. CASE RehashEnd(t)
      BY <3>0, <3>3 DEF RehashEnd, At, Local, Goto, shared, Renews
    <3> QED
      BY <3>1, <3>2, <3>3
  <2>1. PICK r :
            /\ pc[t] \in {"swap", "rehash"} /\ UNCHANGED mtx
            /\ pc' = [pc EXCEPT ![t] = l] /\ loc'[t] = r /\ DOMAIN loc' = Threads
            /\ \A u \in Threads \ {t} : Renews(u)
            /\ \E o : r = [loc[t] EXCEPT !.old = o]
            /\ table_size' \in {table_size, 2 * table_size}
    BY <2>0
  <2>2. /\ DOMAIN r = DOMAIN loc[t] /\ r.op = loc[t].op /\ r.arg = loc[t].arg
        /\ r.key = loc[t].key /\ r.n = loc[t].n /\ r.round = loc[t].round
    BY <2>1, FieldsOf
  <2>3. /\ OnlyMoves(t) /\ pc'[t] = l /\ loc'[t] = r
        /\ pc' \in [Threads -> Steps] /\ DOMAIN loc' = Threads
    <3>1. pc' \in [Threads -> Steps] /\ pc'[t] = l /\ \A u \in Threads \ {t} : pc'[u] = pc[u]
      BY <2>1 DEF Inv, Typed, Steps, Resizing
    <3> QED
      BY <2>1, <3>1, Renewed DEF OnlyMoves
  <2>4. Typed'
    BY <2>1, <2>3 DEF Inv, Typed
  <2>5. Sized'
    <3>1. 2 * table_size \in Nat \ {0} /\ (2 * table_size) % mtx_size = 0
      <4>1. table_size \in Nat \ {0} /\ table_size % mtx_size = 0
        BY DEF Inv, Sized
      <4>2. (2 * table_size) % mtx_size = 0
        BY <4>1, Bounds, DoubleMod
      <4>3. 2 * table_size \in Nat \ {0}
        BY <4>1
      <4> QED
        BY <4>2, <4>3
    <3> QED
      BY <2>1, <3>1 DEF Inv, Sized
  <2>6. Respects(t)
    <3>1. \A m \in Mutex : Holds(t, m)' /\ Holds(t, m)
      BY <2>1, <2>3 DEF Holds, Resizing
    <3> QED
      BY <2>1, <3>1, LocksKept
  <2>7. KnowsOf(t)'
    <3>1. KnowsOf(t)
      BY DEF Inv, Knows
    <3> QED
      BY <2>1, <2>2, <2>3, <3>1 DEF KnowsOf, Looked, Acquiring, Resizing, NoLocals
  <2> QED
    BY <2>3, <2>4, <2>5, <2>6, <2>7, StepOf
<1> QED
  BY <1>1, <1>2

LEMMA AUnLockInv ==
    ASSUME Inv, NEW t \in Threads, AUnLock(t)
    PROVE  Inv'
<1> DEFINE l == IF loc[t].grow THEN "lock0" ELSE "ret"
           r == [loc[t] EXCEPT !.grow = FALSE, !.n = 0, !.key = loc[t].arg]
<1>1. /\ pc[t] = "aunlock" /\ mtx' = [m \in Mutex |-> NULL]
      /\ pc' = [pc EXCEPT ![t] = l] /\ loc' = [loc EXCEPT ![t] = r]
      /\ UNCHANGED table_size
  BY DEF AUnLock, AfterResize, At, Local, Goto
<1>2. /\ DOMAIN r = DOMAIN loc[t] /\ r.op = loc[t].op /\ r.arg = loc[t].arg
      /\ r.key = loc[t].arg /\ r.n = 0 /\ r.round = loc[t].round
  BY FieldsOf
<1>3. l \in {"lock0", "ret"}
  OBVIOUS
<1> HIDE DEF l, r
<1>4. /\ OnlyMoves(t) /\ pc'[t] = l /\ loc'[t] = r
      /\ pc' \in [Threads -> Steps] /\ DOMAIN loc' = Threads
  BY <1>1, <1>3, OwnMoves DEF Steps
<1>5. Typed' /\ Sized'
  BY <1>1, <1>4 DEF Inv, Typed, Sized
<1>6. Respects(t)
  <2>1. \A m \in Mutex : Holds(t, m) /\ ~Holds(t, m)'
    BY <1>1, <1>3, <1>4 DEF Holds, Guarded, Resizing
  <2>2. NULL \notin Threads
    BY CuckooAssumption
  <2> QED
    BY <1>1, <2>1, <2>2 DEF Inv, Owned, Respects
<1>7. KnowsOf(t)'
  <2>1. KnowsOf(t)
    BY DEF Inv, Knows
  <2> QED
    BY <1>1, <1>2, <1>3, <1>4, <2>1 DEF KnowsOf, Looked, Acquiring, Resizing, NoLocals
<1> QED
  BY <1>4, <1>5, <1>6, <1>7, StepOf

-----------------------------------------------------------------------------
(* The mutexes: the theorems *)

LEMMA InitInv == Init => Inv
<1> SUFFICES ASSUME Init
             PROVE  Inv
  OBVIOUS
<1>1. mtx_size \in Nat \ {0}
  BY Bounds
<1>2. Typed
  BY DEF Init, Typed, Steps
<1>3. Sized
  <2>1. (mtx_size * 1 + 0) % mtx_size = 0
    BY <1>1, ModUnique
  <2>2. table_size = mtx_size * 1 + 0
    BY <1>1 DEF Init
  <2> QED
    BY <1>1, <2>1, <2>2 DEF Init, Sized
<1>4. \A t \in Threads : pc[t] = "idle" /\ loc[t] = NoLocals
  BY DEF Init
<1>5. Owned
  <2>1. NULL \notin Threads
    BY CuckooAssumption
  <2> QED
    BY <1>4, <2>1 DEF Init, Owned, Holds, Guarded, Resizing
<1>6. Knows
  BY <1>4, Fields DEF Knows, KnowsOf, Looked, Acquiring, Resizing
<1> QED
  BY <1>2, <1>3, <1>5, <1>6 DEF Inv

LEMMA StutterInv == Inv /\ UNCHANGED vars => Inv'
<1> SUFFICES ASSUME Inv, UNCHANGED vars
             PROVE  Inv'
  OBVIOUS
<1>1. UNCHANGED <<table_size, mtx, pc, loc>>
  BY DEF vars, shared
<1>2. Typed' /\ Sized'
  BY <1>1 DEF Inv, Typed, Sized
<1>3. Owned'
  BY <1>1 DEF Inv, Owned, Holds, mutex, Held, hashCode
<1>4. Knows'
  BY <1>1 DEF Inv, Knows, KnowsOf
<1> QED
  BY <1>2, <1>3, <1>4 DEF Inv

LEMMA NextInv == Inv /\ [Next]_vars => Inv'
<1> SUFFICES ASSUME Inv, [Next]_vars
             PROVE  Inv'
  OBVIOUS
<1>1. ASSUME NEW t \in Threads, Step(t)
      PROVE  Inv'
  BY <1>1, LockInv, LookInv, AddNodeInv, AddNoRoomInv, DeleteNodeInv, ReleaseInv,
     ChoosesInv, RelocateMoveInv, ALockInv, ResizingInv, AUnLockInv,
     ReturnInv DEF Step, Chooses
<1>2. ASSUME NEW t \in Threads, NEW op \in Ops, NEW k \in Key, Call(t, op, k)
      PROVE  Inv'
  BY <1>2, CallInv
<1>3. CASE UNCHANGED vars
  BY <1>3, StutterInv
<1> QED
  BY <1>1, <1>2, <1>3 DEF Next

\* Who holds which mutex, and for which key: the invariant the properties follow
\* from.
THEOREM Invariance == Spec => []Inv
<1>1. Init => Inv
  BY InitInv
<1>2. Inv /\ [Next]_vars => Inv'
  BY NextInv
<1> QED
  BY <1>1, <1>2, PTL DEF Spec

\* Between acquire and release of hash/ConcurrentCuckooHash.c no other thread is
\* at a list of the same key, and none is at any list while resize replaces the
\* tables, however often they have outgrown the mutexes.
THEOREM MutexesGuardLists == Spec => []ListsGuarded
<1>1. Inv => ListsGuarded
  BY InvListsGuarded
<1> QED
  BY <1>1, Invariance, PTL

\* However many threads wait, one of them is in aLock or one that runs can go on:
\* add, delete, find and relocate never close a cycle by themselves.
THEOREM CallsNeverDeadlock == Spec => []StuckInResizeOnly
<1>1. Inv => StuckInResizeOnly
  BY InvStuckInResizeOnly
<1> QED
  BY <1>1, Invariance, PTL

-----------------------------------------------------------------------------
(* The lists: what tables are made of *)

Tables == [No -> [Bucket -> Seq(Key)]]

\* No key is twice in the lists.
Once(tab) ==
    \A n, m \in No, b, c \in Bucket :
        \A i \in 1..Len(tab[n][b]), j \in 1..Len(tab[m][c]) :
            tab[n][b][i] = tab[m][c][j] => n = m /\ b = c /\ i = j

\* The keys are in the lists in which list looks for them.
Filed(tab, size) ==
    \A n \in No, b \in Bucket : \A i \in 1..Len(tab[n][b]) :
        b = hashCode(n, tab[n][b][i]) % size

Short(tab, probe) == \A n \in No, b \in Bucket : Len(tab[n][b]) <= probe

LEMMA KeysOfTable ==
    ASSUME NEW tab \in Tables
    PROVE  KeysOf(tab) = {k \in Key : \E n \in No, b \in Bucket : Contains(tab[n][b], k)}
<1>1. ASSUME NEW n \in No, NEW b \in Bucket
      PROVE  Range(tab[n][b]) = {k \in Key : Contains(tab[n][b], k)}
  <2>1. tab[n][b] \in Seq(Key)
    BY DEF Tables
  <2> QED
    BY <2>1 DEF Range, Contains
<1> QED
  BY <1>1 DEF KeysOf

LEMMA InTable ==
    ASSUME NEW tab \in Tables
    PROVE  /\ \A n \in No, b \in Bucket : \A i \in 1..Len(tab[n][b]) :
                  tab[n][b][i] \in KeysOf(tab) /\ tab[n][b][i] \in Key
           /\ \A k \in KeysOf(tab) : k \in Key /\ \E n \in No, b \in Bucket :
                  \E i \in 1..Len(tab[n][b]) : tab[n][b][i] = k
<1>1. ASSUME NEW n \in No, NEW b \in Bucket, NEW i \in 1..Len(tab[n][b])
      PROVE  tab[n][b][i] \in KeysOf(tab) /\ tab[n][b][i] \in Key
  <2>1. tab[n][b] \in Seq(Key)
    BY DEF Tables
  <2> QED
    BY <2>1, KeysOfTable DEF Contains
<1>2. ASSUME NEW k \in KeysOf(tab)
      PROVE  k \in Key /\ \E n \in No, b \in Bucket :
                 \E i \in 1..Len(tab[n][b]) : tab[n][b][i] = k
  BY KeysOfTable DEF Contains
<1> QED
  BY <1>1, <1>2

\* Tables with list r at bucket b of table n.
With(tab, n, b, r) == [tab EXCEPT ![n][b] = r]

LEMMA Replaced ==
    ASSUME NEW tab \in Tables, NEW n \in No, NEW b \in Bucket, NEW r \in Seq(Key)
    PROVE  /\ With(tab, n, b, r) \in Tables
           /\ With(tab, n, b, r)[n][b] = r
           /\ \A m \in No, c \in Bucket :
                  m # n \/ c # b => With(tab, n, b, r)[m][c] = tab[m][c]
<1> DEFINE u == With(tab, n, b, r)
<1>1. u = [tab EXCEPT ![n] = [tab[n] EXCEPT ![b] = r]]
  BY DEF With
<1>2. tab[n] \in [Bucket -> Seq(Key)]
  BY DEF Tables
<1>3. [tab[n] EXCEPT ![b] = r] \in [Bucket -> Seq(Key)]
  BY <1>2
<1> HIDE DEF u
<1>4. u \in Tables
  BY <1>1, <1>3 DEF Tables
<1>5. \A m \in No : u[m] = IF m = n THEN [tab[n] EXCEPT ![b] = r] ELSE tab[m]
  BY <1>1 DEF Tables
<1>6. \A c \in Bucket : [tab[n] EXCEPT ![b] = r][c] = IF c = b THEN r ELSE tab[n][c]
  BY <1>2
<1>7. u[n][b] = r /\ \A m \in No, c \in Bucket : m # n \/ c # b => u[m][c] = tab[m][c]
  BY <1>5, <1>6
<1> QED
  BY <1>4, <1>7 DEF u

\* add_node_atTail: a key that is in no list is put at the end of one.
LEMMA Put ==
    ASSUME NEW tab \in Tables, Once(tab), NEW n \in No, NEW b \in Bucket,
           NEW k \in Key, k \notin KeysOf(tab)
    PROVE  LET new == With(tab, n, b, Append(tab[n][b], k)) IN
           /\ new \in Tables /\ Once(new)
           /\ KeysOf(new) = KeysOf(tab) \union {k}
           /\ \A size : Filed(tab, size) /\ b = hashCode(n, k) % size => Filed(new, size)
           /\ \A probe \in Nat : Short(tab, probe) /\ Len(tab[n][b]) < probe => Short(new, probe)
<1> DEFINE s == tab[n][b]
           r == Append(s, k)
           new == With(tab, n, b, Append(tab[n][b], k))
<1>1. s \in Seq(Key)
  BY DEF Tables
<1>2. /\ r \in Seq(Key) /\ Len(s) \in Nat /\ Len(r) = Len(s) + 1
      /\ \A i \in 1..Len(s) : r[i] = s[i]
      /\ r[Len(s) + 1] = k
  BY <1>1
<1>u. new = With(tab, n, b, r)
  OBVIOUS
<1> HIDE DEF r, new
<1>3. /\ new \in Tables
      /\ new[n][b] = r
      /\ \A m \in No, c \in Bucket : m # n \/ c # b => new[m][c] = tab[m][c]
  <2>1. r \in Seq(Key)
    BY <1>2
  <2>2. With(tab, n, b, r) \in Tables
    BY ONLY <2>1, Replaced, tab \in Tables, n \in No, b \in Bucket
  <2>3. With(tab, n, b, r)[n][b] = r
    BY ONLY <2>1, Replaced, tab \in Tables, n \in No, b \in Bucket
  <2>4. ASSUME NEW m \in No, NEW c \in Bucket, m # n \/ c # b
        PROVE  With(tab, n, b, r)[m][c] = tab[m][c]
    BY ONLY <2>1, Replaced, tab \in Tables, n \in No, b \in Bucket, <2>4,
            m \in No, c \in Bucket
  <2> QED
    BY <1>u, <2>2, <2>3, <2>4, Zenon
<1>4. \A m \in No, c \in Bucket : tab[m][c] \in Seq(Key) /\ Len(tab[m][c]) \in Nat
  BY DEF Tables
<1>5. \A m \in No, c \in Bucket : \A i \in 1..Len(tab[m][c]) : tab[m][c][i] # k
  BY InTable
\* Where the keys of the new table are.
<1>6. ASSUME NEW m \in No, NEW c \in Bucket, NEW i \in 1..Len(new[m][c])
      PROVE  \/ i \in 1..Len(tab[m][c]) /\ new[m][c][i] = tab[m][c][i]
             \/ m = n /\ c = b /\ i = Len(s) + 1 /\ new[m][c][i] = k
  <2>1. CASE m = n /\ c = b
    BY <1>2, <1>3, <2>1
  <2>2. CASE ~(m = n /\ c = b)
    BY <1>3, <2>2
  <2> QED
    BY <2>1, <2>2
<1>7. Once(new)
  <2> SUFFICES ASSUME NEW m \in No, NEW o \in No, NEW c \in Bucket, NEW d \in Bucket,
                      NEW i \in 1..Len(new[m][c]), NEW j \in 1..Len(new[o][d]),
                      new[m][c][i] = new[o][d][j]
               PROVE  m = o /\ c = d /\ i = j
    BY DEF Once
  <2>0. ASSUME NEW x \in No, NEW y \in Bucket, NEW z \in 1..Len(new[x][y]), new[x][y][z] = k
        PROVE  x = n /\ y = b /\ z = Len(s) + 1
    <3>1. ~(z \in 1..Len(tab[x][y]) /\ tab[x][y][z] = k)
      BY <1>5
    <3> QED
      BY <1>6, <2>0, <3>1
  <2>1. CASE new[m][c][i] = k
    <3>1. new[o][d][j] = k
      BY <2>1
    <3>2. m = n /\ c = b /\ i = Len(s) + 1
      BY <2>0, <2>1
    <3>3. o = n /\ d = b /\ j = Len(s) + 1
      BY <2>0, <3>1
    <3> QED
      BY <3>2, <3>3
  <2>2. CASE new[m][c][i] # k
    <3>1. /\ i \in 1..Len(tab[m][c]) /\ j \in 1..Len(tab[o][d])
          /\ tab[m][c][i] = tab[o][d][j]
      BY <1>6, <2>2
    <3> QED
      BY <3>1 DEF Once
  <2> QED
    BY <2>1, <2>2
<1>8. \A m \in No, c \in Bucket : \A i \in 1..Len(tab[m][c]) :
          i \in 1..Len(new[m][c]) /\ new[m][c][i] = tab[m][c][i]
  <2> SUFFICES ASSUME NEW m \in No, NEW c \in Bucket, NEW i \in 1..Len(tab[m][c])
               PROVE  i \in 1..Len(new[m][c]) /\ new[m][c][i] = tab[m][c][i]
    OBVIOUS
  <2>1. CASE m = n /\ c = b
    BY <1>2, <1>3, <2>1
  <2>2. CASE ~(m = n /\ c = b)
    BY <1>3, <2>2
  <2> QED
    BY <2>1, <2>2
<1>9. KeysOf(new) = KeysOf(tab) \union {k}
  <2>1. ASSUME NEW x \in KeysOf(new)
        PROVE  x \in KeysOf(tab) \union {k}
    <3>1. PICK m \in No, c \in Bucket : \E i \in 1..Len(new[m][c]) : new[m][c][i] = x
      BY <1>3, InTable
    <3>2. PICK i \in 1..Len(new[m][c]) : new[m][c][i] = x
      BY <3>1
    <3> QED
      BY <1>6, <3>2, InTable
  <2>2. ASSUME NEW x \in KeysOf(tab)
        PROVE  x \in KeysOf(new)
    <3>1. PICK m \in No, c \in Bucket : \E i \in 1..Len(tab[m][c]) : tab[m][c][i] = x
      BY InTable
    <3>2. PICK i \in 1..Len(tab[m][c]) : tab[m][c][i] = x
      BY <3>1
    <3>3. i \in 1..Len(new[m][c]) /\ new[m][c][i] = x
      BY <1>8, <3>2
    <3>4. new[m][c][i] \in KeysOf(new)
      BY <1>3, <3>3, InTable
    <3> QED
      BY <3>3, <3>4
  <2>3. k \in KeysOf(new)
    <3>1. new[n][b] = r /\ Len(s) + 1 \in 1..Len(r)
      BY <1>2, <1>3
    <3>2. new[n][b][Len(s) + 1] \in KeysOf(new)
      BY <1>3, <3>1, InTable
    <3> QED
      BY <1>2, <3>1, <3>2
  <2> QED
    BY <2>1, <2>2, <2>3
<1>10. ASSUME NEW size, Filed(tab, size), b = hashCode(n, k) % size
       PROVE  Filed(new, size)
  BY <1>6, <1>10 DEF Filed
<1>11. ASSUME NEW probe \in Nat, Short(tab, probe), Len(tab[n][b]) < probe
       PROVE  Short(new, probe)
  BY <1>2, <1>3, <1>11 DEF Short
<1> QED
  BY <1>3, <1>7, <1>9, <1>10, <1>11 DEF new

LEMMA ConcatFacts ==
    ASSUME NEW S, NEW f \in Seq(S), NEW g \in Seq(S)
    PROVE  /\ f \o g \in Seq(S) /\ Len(f \o g) = Len(f) + Len(g)
           /\ \A i \in 1..(Len(f) + Len(g)) :
                  (f \o g)[i] = IF i <= Len(f) THEN f[i] ELSE g[i - Len(f)]
OBVIOUS

LEMMA RemoveAtFacts ==
    ASSUME NEW s \in Seq(Key), NEW p \in 1..Len(s)
    PROVE  /\ RemoveAt(s, p) \in Seq(Key) /\ Len(RemoveAt(s, p)) = Len(s) - 1
           /\ \A i \in 1..(Len(s) - 1) :
                  RemoveAt(s, p)[i] = IF i < p THEN s[i] ELSE s[i + 1]
<1> DEFINE f == SubSeq(s, 1, p - 1)
           g == SubSeq(s, p + 1, Len(s))
<1>0. Len(s) \in Nat /\ p \in Int /\ 1 <= p /\ p <= Len(s)
  OBVIOUS
<1>1. f \in Seq(Key) /\ Len(f) = p - 1 /\ \A i \in 1..(p - 1) : f[i] = s[i]
  BY <1>0
<1>2. g \in Seq(Key) /\ Len(g) = Len(s) - p /\ \A i \in 1..(Len(s) - p) : g[i] = s[p + i]
  BY <1>0
<1> HIDE DEF f, g
<1>3. f \o g \in Seq(Key) /\ Len(f \o g) = Len(s) - 1
  <2>1. f \o g \in Seq(Key)
    BY <1>1, <1>2
  <2>2. Len(f \o g) = Len(f) + Len(g)
    BY <1>1, <1>2, ConcatFacts, Zenon
  <2> QED
    BY <1>0, <1>1, <1>2, <2>1, <2>2
<1>4. ASSUME NEW i \in 1..(Len(s) - 1)
      PROVE  (f \o g)[i] = IF i < p THEN s[i] ELSE s[i + 1]
  <2>1. (f \o g)[i] = IF i <= Len(f) THEN f[i] ELSE g[i - Len(f)]
    BY <1>0, <1>1, <1>2
  <2>2. CASE i < p
    BY <1>0, <1>1, <2>1, <2>2
  <2>3. CASE i >= p
    <3>1. PICK j \in 1..(Len(s) - p) : j = i - Len(f) /\ p + j = i + 1 /\ ~(i <= Len(f))
      BY <1>0, <1>1, <2>3
    <3>2. (f \o g)[i] = g[j] /\ g[j] = s[i + 1]
      BY <1>2, <2>1, <3>1
    <3> QED
      BY <1>0, <2>3, <3>2
  <2>4. i < p \/ i >= p
    BY <1>0
  <2> QED
    BY <2>2, <2>3, <2>4
<1> QED
  BY <1>3, <1>4 DEF RemoveAt, f, g

LEMMA TailFacts ==
    ASSUME NEW s \in Seq(Key), s # <<>>
    PROVE  /\ 1 \in 1..Len(s) /\ Head(s) = s[1] /\ Tail(s) = RemoveAt(s, 1)
<1>1. Len(s) \in Nat /\ Len(s) # 0
  OBVIOUS
<1>2. Tail(s) = SubSeq(s, 2, Len(s))
  BY <1>1
<1>3. SubSeq(s, 1, 0) \o SubSeq(s, 2, Len(s)) = SubSeq(s, 2, Len(s))
  BY <1>1
<1> QED
  BY <1>1, <1>2, <1>3 DEF RemoveAt

\* delete_node finds the key if the list contains it.
LEMMA WithoutFacts ==
    ASSUME NEW s \in Seq(Key), NEW k, Contains(s, k)
    PROVE  \E p \in 1..Len(s) : s[p] = k /\ Without(s, k) = RemoveAt(s, p)
<1> DEFINE I == {i \in 1..Len(s) : s[i] = k}
<1>1. I # {} /\ I \in SUBSET Nat
  BY DEF Contains
<1>2. SelectInSeq(s, LAMBDA v : v = k) = Min(I)
  BY <1>1 DEF SelectInSeq
<1>3. Min(I) \in I
  BY <1>1, LeastElement DEF Min
<1>4. Without(s, k) = RemoveAt(s, Min(I))
  BY <1>2 DEF Without, RemoveFirst, Contains
<1> QED
  BY <1>3, <1>4

LEMMA WithoutShorter ==
    ASSUME NEW s \in Seq(Key), NEW k, Contains(s, k)
    PROVE  Len(Without(s, k)) = Len(s) - 1
<1>1. PICK p \in 1..Len(s) : s[p] = k /\ Without(s, k) = RemoveAt(s, p)
  BY WithoutFacts
<1> QED
  BY <1>1, RemoveAtFacts

\* delete_node: one key is taken out of its list.
LEMMA Take ==
    ASSUME NEW tab \in Tables, Once(tab), NEW n \in No, NEW b \in Bucket,
           NEW p \in 1..Len(tab[n][b])
    PROVE  LET new == With(tab, n, b, RemoveAt(tab[n][b], p)) IN
           /\ new \in Tables /\ Once(new)
           /\ KeysOf(new) = KeysOf(tab) \ {tab[n][b][p]}
           /\ Len(new[n][b]) = Len(tab[n][b]) - 1
           /\ \A m \in No, c \in Bucket : m # n \/ c # b => new[m][c] = tab[m][c]
           /\ \A size : Filed(tab, size) => Filed(new, size)
           /\ \A probe \in Nat : Short(tab, probe) => Short(new, probe)
<1> DEFINE s == tab[n][b]
           k == tab[n][b][p]
           r == RemoveAt(s, p)
           new == With(tab, n, b, RemoveAt(tab[n][b], p))
<1>1. s \in Seq(Key) /\ Len(s) \in Nat /\ p \in 1..Len(s)
  BY DEF Tables
<1>2. /\ r \in Seq(Key) /\ Len(r) = Len(s) - 1
      /\ \A i \in 1..(Len(s) - 1) : r[i] = IF i < p THEN s[i] ELSE s[i + 1]
  BY <1>1, RemoveAtFacts
<1>u. new = With(tab, n, b, r)
  OBVIOUS
<1> HIDE DEF r, new
<1>3. /\ new \in Tables
      /\ new[n][b] = r
      /\ \A m \in No, c \in Bucket : m # n \/ c # b => new[m][c] = tab[m][c]
  <2>1. r \in Seq(Key)
    BY <1>2
  <2>2. With(tab, n, b, r) \in Tables
    BY ONLY <2>1, Replaced, tab \in Tables, n \in No, b \in Bucket
  <2>3. With(tab, n, b, r)[n][b] = r
    BY ONLY <2>1, Replaced, tab \in Tables, n \in No, b \in Bucket
  <2>4. ASSUME NEW m \in No, NEW c \in Bucket, m # n \/ c # b
        PROVE  With(tab, n, b, r)[m][c] = tab[m][c]
    BY ONLY <2>1, Replaced, tab \in Tables, n \in No, b \in Bucket, <2>4,
            m \in No, c \in Bucket
  <2> QED
    BY <1>u, <2>2, <2>3, <2>4, Zenon
<1>4. \A m \in No, c \in Bucket : tab[m][c] \in Seq(Key) /\ Len(tab[m][c]) \in Nat
  BY DEF Tables
\* Where a key of the new table was.
<1> DEFINE Was(m, c, i, x) ==
        /\ new[m][c][i] = tab[m][c][x]
        /\ m = n /\ c = b => x # p /\ i = IF x < p THEN x ELSE x - 1
        /\ m # n \/ c # b => x = i
<1>5. ASSUME NEW m \in No, NEW c \in Bucket, NEW i \in 1..Len(new[m][c])
      PROVE  \E x \in 1..Len(tab[m][c]) : Was(m, c, i, x)
  <2>1. CASE m = n /\ c = b
    <3>1. new[m][c] = r /\ tab[m][c] = s /\ i \in 1..(Len(s) - 1) /\ p \in Int
      BY <1>2, <1>3, <2>1
    <3> DEFINE x == IF i < p THEN i ELSE i + 1
    <3>2. x \in 1..Len(s) /\ x # p /\ i = IF x < p THEN x ELSE x - 1
      BY <1>1, <3>1
    <3>3. r[i] = s[x]
      BY <1>2, <3>1
    <3> HIDE DEF s, x
    <3> QED
      BY <2>1, <3>1, <3>2, <3>3
  <2>2. CASE m # n \/ c # b
    <3>1. new[m][c] = tab[m][c]
      BY <1>3, <2>2
    <3> QED
      BY <2>2, <3>1
  <2> QED
    BY <2>1, <2>2
<1> HIDE DEF Was
<1>6. Once(new)
  <2> SUFFICES ASSUME NEW m \in No, NEW o \in No, NEW c \in Bucket, NEW d \in Bucket,
                      NEW i \in 1..Len(new[m][c]), NEW j \in 1..Len(new[o][d]),
                      new[m][c][i] = new[o][d][j]
               PROVE  m = o /\ c = d /\ i = j
    BY DEF Once
  <2>1. PICK x \in 1..Len(tab[m][c]) : Was(m, c, i, x)
    BY <1>5
  <2>2. PICK y \in 1..Len(tab[o][d]) : Was(o, d, j, y)
    BY <1>5
  <2>3. tab[m][c][x] = tab[o][d][y]
    BY <2>1, <2>2 DEF Was
  <2>4. m = o /\ c = d /\ x = y
    <3> HIDE DEF s
    <3> QED
      BY ONLY <2>3, Once(tab), m \in No, o \in No, c \in Bucket, d \in Bucket,
              x \in 1..Len(tab[m][c]), y \in 1..Len(tab[o][d]) DEF Once
  <2> QED
    BY <2>1, <2>2, <2>4 DEF Was
<1>7. KeysOf(new) = KeysOf(tab) \ {k}
  <2>1. ASSUME NEW x \in KeysOf(new)
        PROVE  x \in KeysOf(tab) /\ x # k
    <3>1. PICK m \in No, c \in Bucket : \E i \in 1..Len(new[m][c]) : new[m][c][i] = x
      BY <1>3, InTable
    <3>2. PICK i \in 1..Len(new[m][c]) : new[m][c][i] = x
      BY <3>1
    <3>3. PICK y \in 1..Len(tab[m][c]) : Was(m, c, i, y)
      BY <1>5
    <3>4. x = tab[m][c][y] /\ ~(m = n /\ c = b /\ y = p)
      BY <3>2, <3>3 DEF Was
    <3>5. x \in KeysOf(tab)
      BY <3>4, InTable
    <3>6. x # k
      BY <3>4 DEF Once
    <3> QED
      BY <3>5, <3>6
  <2>2. ASSUME NEW x \in KeysOf(tab), x # k
        PROVE  x \in KeysOf(new)
    <3>1. PICK m \in No, c \in Bucket : \E i \in 1..Len(tab[m][c]) : tab[m][c][i] = x
      BY InTable
    <3>2. PICK i \in 1..Len(tab[m][c]) : tab[m][c][i] = x
      BY <3>1
    <3>3. CASE m = n /\ c = b
      <4>1. i # p /\ i \in Int /\ p \in Int
        BY <2>2, <3>2, <3>3
      <4>2. PICK j \in 1..(Len(s) - 1) : r[j] = s[i]
        <5>1. CASE i < p
          <6>1. i \in 1..(Len(s) - 1)
            BY <1>1, <3>2, <3>3, <5>1
          <6> QED
            BY <1>2, <5>1, <6>1
        <5>2. CASE i > p
          <6>1. i - 1 \in 1..(Len(s) - 1) /\ ~(i - 1 < p) /\ (i - 1) + 1 = i
            BY <1>1, <3>2, <3>3, <5>2, <4>1
          <6> QED
            BY <1>2, <6>1
        <5> QED
          BY <4>1, <5>1, <5>2
      <4>3. new[m][c] = r /\ j \in 1..Len(r) /\ r[j] = x
        BY <1>2, <1>3, <3>2, <3>3, <4>2
      <4>4. new[m][c][j] \in KeysOf(new)
        BY <1>3, <4>3, InTable
      <4> QED
        BY <4>3, <4>4
    <3>4. CASE ~(m = n /\ c = b)
      <4>1. new[m][c] = tab[m][c]
        BY <1>3, <3>4
      <4>2. new[m][c][i] \in KeysOf(new)
        BY <1>3, <3>2, <4>1, InTable
      <4> QED
        BY <3>2, <4>1, <4>2
    <3> QED
      BY <3>3, <3>4
  <2> QED
    BY <2>1, <2>2
<1>8. ASSUME NEW size, Filed(tab, size)
      PROVE  Filed(new, size)
  <2> SUFFICES ASSUME NEW m \in No, NEW c \in Bucket, NEW i \in 1..Len(new[m][c])
               PROVE  c = hashCode(m, new[m][c][i]) % size
    BY DEF Filed
  <2>1. PICK x \in 1..Len(tab[m][c]) : Was(m, c, i, x)
    BY <1>5
  <2> QED
    BY <1>8, <2>1 DEF Was, Filed
<1>9. ASSUME NEW probe \in Nat, Short(tab, probe)
      PROVE  Short(new, probe)
  BY <1>1, <1>2, <1>3, <1>4, <1>9 DEF Short
<1>10. Len(new[n][b]) = Len(tab[n][b]) - 1
  BY <1>2, <1>3
<1> QED
  BY <1>3, <1>6, <1>7, <1>8, <1>9, <1>10 DEF new

-----------------------------------------------------------------------------
(* The lists: why resize finds room *)

\* The hash functions tell keys apart that size tells apart.
Tells(size) == Cancels(65699, size) /\ Cancels(65701, size)

LEMMA Together ==
    ASSUME NEW n \in Nat \ {0}, Tells(n), NEW no \in No, NEW j \in Nat, NEW k \in Nat
    PROVE  hashCode(no, j) % n = hashCode(no, k) % n <=> j % n = k % n
<1>1. PICK c \in Nat : Cancels(c, n) /\ hashCode(no, j) = c * j /\ hashCode(no, k) = c * k
  BY DEF Tells, hashCode, No
<1>2. Injects(c, n)
  BY <1>1, CancelsInjects
<1> QED
  BY <1>1, <1>2 DEF Injects

\* The keys of S that meet k in both lists, and how many there may be.
Crowd(S, size, k) == {j \in S : j % size = k % size}
Sparse(S, size, probe) ==
    \A k \in S : /\ IsFiniteSet(Crowd(S, size, k))
                 /\ Cardinality(Crowd(S, size, k)) <= 2 * probe

LEMMA ListKeys ==
    ASSUME NEW s \in Seq(Key)
    PROVE  /\ IsFiniteSet(Range(s)) /\ Cardinality(Range(s)) \in Nat
           /\ Cardinality(Range(s)) <= Len(s)
           /\ IsInjective(s) => Cardinality(Range(s)) = Len(s)
<1>1. Len(s) \in Nat /\ s \in [1..Len(s) -> Key] /\ DOMAIN s = 1..Len(s)
  OBVIOUS
<1>2. s \in Surjection(1..Len(s), Range(s))
  BY <1>1 DEF Surjection, Range
<1>3. IsFiniteSet(1..Len(s)) /\ Cardinality(1..Len(s)) = Len(s)
  BY <1>1, FS_Interval
<1>4. /\ IsFiniteSet(Range(s)) /\ Cardinality(Range(s)) <= Len(s)
      /\ Cardinality(Range(s)) = Len(s) <=> s \in Injection(1..Len(s), Range(s))
  BY <1>2, <1>3, FS_Surjection
<1>5. IsInjective(s) => s \in Injection(1..Len(s), Range(s))
  BY <1>1, <1>2 DEF IsInjective, Injection, Surjection
<1>6. Cardinality(Range(s)) \in Nat
  BY <1>4, FS_CardinalityType
<1> QED
  BY <1>4, <1>5, <1>6

\* What the lists of full tables hold when their size is doubled.
LEMMA SparseDouble ==
    ASSUME NEW tab \in Tables, NEW n \in Nat \ {0}, n <= MaxTable, Tells(n),
           NEW probe \in Nat, Filed(tab, n), Short(tab, probe)
    PROVE  Sparse(KeysOf(tab), 2 * n, probe)
<1> SUFFICES ASSUME NEW k \in KeysOf(tab)
             PROVE  /\ IsFiniteSet(Crowd(KeysOf(tab), 2 * n, k))
                    /\ Cardinality(Crowd(KeysOf(tab), 2 * n, k)) <= 2 * probe
  BY DEF Sparse
<1> DEFINE b(no) == hashCode(no, k) % n
           C == Crowd(KeysOf(tab), 2 * n, k)
           R == Range(tab[0][b(0)]) \union Range(tab[1][b(1)])
<1>1. k \in Nat /\ \A j \in KeysOf(tab) : j \in Nat
  BY InTable, Bounds
<1>2. \A no \in No : b(no) \in Bucket
  <2>1. MaxTable \in Nat
    BY CuckooAssumption
  <2>2. ASSUME NEW no \in No
        PROVE  hashCode(no, k) % n \in 0..(n - 1)
    BY <1>1, HashType, DivMod
  <2> QED
    BY <2>1, <2>2 DEF Bucket
<1>3. 0 \in No /\ 1 \in No /\ \A no \in No : no = 0 \/ no = 1
  BY DEF No
<1>4. ASSUME NEW j \in C
      PROVE  j \in R
  <2>1. j \in KeysOf(tab) /\ j \in Nat /\ j % (2 * n) = k % (2 * n)
    BY <1>1 DEF Crowd
  <2>2. j % n = k % n
    <3>1. 2 * n \in Nat \ {0} /\ 2 * n = n * 2
      OBVIOUS
    <3>2. (2 * n) % n = 0
      BY <3>1, Multiple
    <3>3. (j % (2 * n)) % n = j % n /\ (k % (2 * n)) % n = k % n
      BY <1>1, <2>1, <3>1, <3>2, ModMod
    <3> QED
      BY <2>1, <3>3
  <2>3. PICK no \in No, c \in Bucket : \E i \in 1..Len(tab[no][c]) : tab[no][c][i] = j
    BY <2>1, InTable
  <2>4. PICK i \in 1..Len(tab[no][c]) : tab[no][c][i] = j
    BY <2>3
  <2>5. c = hashCode(no, j) % n
    BY <2>4 DEF Filed
  <2>6. c = b(no)
    BY <1>1, <2>1, <2>2, <2>5, Together
  <2>7. tab[no][c] \in Seq(Key)
    BY DEF Tables
  <2>8. j \in Range(tab[no][c])
    BY <2>4, <2>7 DEF Range
  <2> QED
    BY <1>3, <2>6, <2>8
<1>5. /\ tab[0][b(0)] \in Seq(Key) /\ Len(tab[0][b(0)]) <= probe
      /\ tab[1][b(1)] \in Seq(Key) /\ Len(tab[1][b(1)]) <= probe
  BY <1>2, <1>3 DEF Tables, Short
<1> HIDE DEF b
<1>6. IsFiniteSet(R) /\ Cardinality(R) <= 2 * probe
  <2> DEFINE R0 == Range(tab[0][b(0)])
             R1 == Range(tab[1][b(1)])
  <2>1. /\ IsFiniteSet(R0) /\ Cardinality(R0) \in Nat
        /\ Cardinality(R0) <= Len(tab[0][b(0)]) /\ Len(tab[0][b(0)]) \in Nat
    BY <1>5, ListKeys
  <2>2. /\ IsFiniteSet(R1) /\ Cardinality(R1) \in Nat
        /\ Cardinality(R1) <= Len(tab[1][b(1)]) /\ Len(tab[1][b(1)]) \in Nat
    BY <1>5, ListKeys
  <2> HIDE DEF R0, R1
  <2>3. /\ IsFiniteSet(R0 \union R1)
        /\ Cardinality(R0 \union R1) =
              Cardinality(R0) + Cardinality(R1) - Cardinality(R0 \intersect R1)
    BY <2>1, <2>2, FS_Union
  <2>4. Cardinality(R0 \intersect R1) \in Nat
    <3>1. IsFiniteSet(R0 \intersect R1)
      BY <2>1, FS_Intersection
    <3> QED
      BY <3>1, FS_CardinalityType
  <2>5. Cardinality(R0 \union R1) <= 2 * probe
    BY <1>5, <2>1, <2>2, <2>3, <2>4
  <2> QED
    BY <2>3, <2>5 DEF R0, R1
<1> HIDE DEF C, R
<1>7. IsFiniteSet(C) /\ Cardinality(C) <= Cardinality(R)
  BY <1>4, <1>6, FS_Subset
<1>8. Cardinality(C) \in Nat /\ Cardinality(R) \in Nat
  BY <1>6, <1>7, FS_CardinalityType
<1> QED
  BY <1>6, <1>7, <1>8 DEF C

\* Two full lists and one key more are too many.
LEMMA RoomForOne ==
    ASSUME NEW tab \in Tables, NEW S \in SUBSET Key, NEW n \in Nat \ {0}, n <= MaxTable,
           Tells(n), NEW probe \in Nat, Once(tab), Filed(tab, n),
           KeysOf(tab) \subseteq S, NEW k \in S, k \notin KeysOf(tab), Sparse(S, n, probe)
    PROVE  \E no \in No : Len(tab[no][hashCode(no, k) % n]) < probe
<1> SUFFICES ASSUME \A no \in No : ~(Len(tab[no][hashCode(no, k) % n]) < probe)
             PROVE  FALSE
  OBVIOUS
<1> DEFINE b(no) == hashCode(no, k) % n
           C == Crowd(S, n, k)
           l0 == tab[0][b(0)]
           l1 == tab[1][b(1)]
<1>1. k \in Nat /\ \A j \in S : j \in Nat
  BY Bounds
<1>2. 0 \in No /\ 1 \in No
  BY DEF No
<1>3. \A no \in No : b(no) \in Bucket
  <2>1. MaxTable \in Nat
    BY CuckooAssumption
  <2>2. ASSUME NEW no \in No
        PROVE  hashCode(no, k) % n \in 0..(n - 1)
    BY <1>1, HashType, DivMod
  <2> QED
    BY <2>1, <2>2 DEF Bucket
<1>4. ASSUME NEW no \in No
      PROVE  /\ tab[no][b(no)] \in Seq(Key) /\ IsInjective(tab[no][b(no)])
             /\ \A j \in Range(tab[no][b(no)]) : j \in C
  <2>1. b(no) \in Bucket
    BY <1>3
  <2>2. tab[no][b(no)] \in Seq(Key)
    BY <2>1 DEF Tables
  <2>3. IsInjective(tab[no][b(no)])
    BY <2>1, <2>2 DEF IsInjective, Once
  <2>4. ASSUME NEW j \in Range(tab[no][b(no)])
        PROVE  j \in C
    <3>1. PICK i \in 1..Len(tab[no][b(no)]) : tab[no][b(no)][i] = j
      BY <2>2 DEF Range
    <3>2. b(no) = hashCode(no, j) % n
      BY <2>1, <3>1 DEF Filed
    <3>3. j \in KeysOf(tab)
      BY <2>1, <3>1, InTable
    <3>4. j \in S /\ j \in Nat
      BY <1>1, <3>3
    <3>5. j % n = k % n
      BY <1>1, <3>2, <3>4, Together
    <3> QED
      BY <3>4, <3>5 DEF Crowd
  <2> QED
    BY <2>2, <2>3, <2>4
<1>5. /\ l0 \in Seq(Key) /\ IsInjective(l0) /\ Range(l0) \subseteq C
      /\ l1 \in Seq(Key) /\ IsInjective(l1) /\ Range(l1) \subseteq C
  BY <1>2, <1>4
<1>6. Len(l0) >= probe /\ Len(l1) >= probe /\ Len(l0) \in Nat /\ Len(l1) \in Nat
  <2>1. ~(Len(l0) < probe) /\ ~(Len(l1) < probe)
    BY <1>2
  <2> HIDE DEF l0, l1
  <2> QED
    BY <1>5, <2>1
<1>7. Range(l0) \intersect Range(l1) = {}
  <2> SUFFICES ASSUME NEW x \in Range(l0), x \in Range(l1)
               PROVE  FALSE
    OBVIOUS
  <2>1. PICK i \in 1..Len(l0) : l0[i] = x
    BY <1>5 DEF Range
  <2>2. PICK j \in 1..Len(l1) : l1[j] = x
    BY <1>5 DEF Range
  <2>3. 0 = 1
    BY <1>2, <1>3, <2>1, <2>2 DEF Once
  <2> QED
    BY <2>3
<1>8. k \notin Range(l0) \union Range(l1)
  <2>1. ASSUME NEW no \in No
        PROVE  k \notin Range(tab[no][b(no)])
    <3> SUFFICES ASSUME k \in Range(tab[no][b(no)])
                 PROVE  FALSE
      OBVIOUS
    <3>1. PICK i \in 1..Len(tab[no][b(no)]) : tab[no][b(no)][i] = k
      BY <1>4 DEF Range
    <3>2. k \in KeysOf(tab)
      BY <1>3, <3>1, InTable
    <3> QED
      BY <3>2
  <2> QED
    BY <1>2, <2>1
<1>9. k \in C
  BY DEF Crowd
<1>10. IsFiniteSet(C) /\ Cardinality(C) <= 2 * probe
  BY DEF Sparse
<1> HIDE DEF C, l0, l1
<1> DEFINE R == Range(l0) \union Range(l1)
<1>11. IsFiniteSet(R) /\ Cardinality(R) = Len(l0) + Len(l1)
  <2>1. /\ IsFiniteSet(Range(l0)) /\ Cardinality(Range(l0)) = Len(l0)
        /\ IsFiniteSet(Range(l1)) /\ Cardinality(Range(l1)) = Len(l1)
    BY <1>5, ListKeys
  <2>2. Cardinality(Range(l0) \intersect Range(l1)) = 0
    BY <1>7, FS_EmptySet
  <2>3. /\ IsFiniteSet(R)
        /\ Cardinality(R) = Cardinality(Range(l0)) + Cardinality(Range(l1))
                                - Cardinality(Range(l0) \intersect Range(l1))
    BY <2>1, FS_Union
  <2> QED
    BY <1>6, <2>1, <2>2, <2>3
<1>12. R \subseteq C /\ k \notin R
  BY <1>5, <1>8
<1> HIDE DEF R
<1>13. IsFiniteSet(R \union {k}) /\ Cardinality(R \union {k}) = Len(l0) + Len(l1) + 1
  BY <1>11, <1>12, FS_AddElement
<1>14. Cardinality(R \union {k}) <= Cardinality(C)
  <2>1. R \union {k} \in SUBSET C
    BY <1>9, <1>12
  <2> QED
    BY <1>10, <2>1, FS_Subset
<1>15. Cardinality(C) \in Nat
  BY <1>10, FS_CardinalityType
<1> QED
  BY <1>6, <1>10, <1>13, <1>14, <1>15

-----------------------------------------------------------------------------
(* The lists: the inductive invariant *)

Contents ==
    /\ params \in Params /\ DOMAIN seen = Threads
    /\ table_size \in mtx_size..MaxTable /\ Tells(table_size)
    /\ table \in Tables /\ Once(table) /\ Filed(table, table_size)
    /\ Short(table, params.probe)

\* The tables that are rehashed have the rest of the keys, and not too many.
RehashOf(t) ==
    pc[t] = "rehash" =>
        /\ loc[t].old \in Tables /\ Once(loc[t].old)
        /\ KeysOf(loc[t].old) \intersect KeysOf(table) = {}
        /\ Sparse(KeysOf(table) \union KeysOf(loc[t].old), table_size, params.probe)

NoMemory == "no memory"
Refusals == {"present", NoMemory}

\* What a call that did nothing has met.
Justified(t) ==
    CASE loc[t].op = "add" -> ~loc[t].ok /\ seen[t] \intersect Refusals # {}
      [] loc[t].op = "delete" -> ~loc[t].ok /\ "absent" \in seen[t]
      [] OTHER -> IF loc[t].ok THEN "present" \in seen[t] ELSE "absent" \in seen[t]

\* How far a call is, by its step and its locals.
AnswerOf(t) ==
    /\ loc[t].n \in 0..(2 * mtx_size)
    /\ loc[t].round \in 0..LIMIT /\ loc[t].i \in No /\ loc[t].hi \in Bucket
    /\ loc[t].ok \in BOOLEAN /\ loc[t].grow \in BOOLEAN
    /\ pc[t] = "idle" => loc[t] = NoLocals
    /\ pc[t] \in {"add", "delete", "find"} => loc[t].op = pc[t]
    /\ pc[t] \in Looked => loc[t].round = 0
    /\ pc[t] \in {"add", "delete", "find"} \/ (pc[t] \in Acquiring /\ loc[t].round = 0) =>
           ~loc[t].ok /\ ~loc[t].grow
    /\ pc[t] \in {"head", "list", "node", "key", "hash", "move"}
           \/ (pc[t] \in Acquiring /\ loc[t].round # 0) =>
           loc[t].op = "add" /\ loc[t].ok /\ ~loc[t].grow
    /\ pc[t] \in {"alock"} \union Resizing =>
           loc[t].op = "add" /\ loc[t].round = 0 /\ loc[t].grow = ~loc[t].ok
    /\ pc[t] = "release" => Justified(t)

TableInv ==
    /\ Inv
    /\ Contents
    /\ \A t \in Threads : RehashOf(t) /\ AnswerOf(t)

LEMMA SizeOf ==
    ASSUME Contents
    PROVE  /\ table_size \in Nat \ {0} /\ mtx_size \in Nat \ {0}
           /\ mtx_size <= table_size /\ table_size <= MaxTable /\ MaxTable \in Nat
           /\ params.probe \in Nat /\ params.threshold \in Nat
           /\ 1 <= params.threshold /\ params.threshold <= params.probe
<1>1. mtx_size \in Nat \ {0} /\ MaxTable \in Nat
  BY Bounds, CuckooAssumption
<1>2. params.probe \in Nat /\ params.threshold \in 1..params.probe
  BY CuckooAssumption DEF Contents
<1> QED
  BY <1>1, <1>2 DEF Contents

\* Where a key is looked for.
LEMMA ListOf ==
    ASSUME Contents, NEW k \in Key, NEW no \in No
    PROVE  /\ hashCode(no, k) % table_size \in Bucket
           /\ list(no, k) \in Seq(Key) /\ Len(list(no, k)) \in Nat
           /\ list(no, k) = table[no][hashCode(no, k) % table_size]
<1>1. hashCode(no, k) % table_size \in 0..(table_size - 1)
  BY SizeOf, Bounds, HashType, DivMod
<1>2. hashCode(no, k) % table_size \in Bucket
  BY <1>1, SizeOf DEF Bucket
<1>3. list(no, k) = table[no][hashCode(no, k) % table_size]
  BY DEF list
<1>4. table[no][hashCode(no, k) % table_size] \in Seq(Key)
  BY <1>2 DEF Contents, Tables
<1> QED
  BY <1>2, <1>3, <1>4

\* The two lists of a key are enough to find it.
LEMMA ContainsOp ==
    ASSUME Contents, NEW k \in Key
    PROVE  contains_op(k) <=> k \in KeysOf(table)
<1>0. table \in Tables
  BY DEF Contents
<1>1. ASSUME contains_op(k)
      PROVE  k \in KeysOf(table)
  <2>1. PICK no \in No : Contains(list(no, k), k)
    BY <1>1 DEF contains_op
  <2>2. hashCode(no, k) % table_size \in Bucket
        /\ Contains(table[no][hashCode(no, k) % table_size], k)
    BY <2>1, ListOf
  <2> QED
    BY <1>0, <2>2, KeysOfTable
<1>2. ASSUME k \in KeysOf(table)
      PROVE  contains_op(k)
  <2>1. PICK n \in No, b \in Bucket : \E i \in 1..Len(table[n][b]) : table[n][b][i] = k
    BY <1>0, <1>2, InTable
  <2>2. PICK i \in 1..Len(table[n][b]) : table[n][b][i] = k
    BY <2>1
  <2>3. b = hashCode(n, k) % table_size
    BY <2>2 DEF Contents, Filed
  <2>4. Contains(list(n, k), k)
    BY <2>2, <2>3 DEF list, Contains
  <2> QED
    BY <2>4 DEF contains_op
<1> QED
  BY <1>1, <1>2

\* add and resize put a node into a list that has room, if there is one.
LEMMA PlaceFacts ==
    ASSUME Contents, NEW k \in Key, \E no \in No : Room(no, k, params.probe)
    PROVE  /\ Place(k)[1] \in No /\ Room(Place(k)[1], k, params.probe)
           /\ Place(k)[2] \in BOOLEAN
<1>1. ASSUME NEW no \in No, Room(no, k, params.threshold)
      PROVE  Room(no, k, params.probe)
  BY <1>1, SizeOf, ListOf DEF Room
<1>2. 0 \in No /\ 1 \in No /\ \A no \in No : no = 0 \/ no = 1
  BY DEF No
<1>3. Room(0, k, params.probe) \/ Room(1, k, params.probe)
  BY <1>2
<1>4. CASE Room(0, k, params.threshold)
  BY <1>1, <1>2, <1>4 DEF Place
<1>5. CASE ~Room(0, k, params.threshold) /\ Room(1, k, params.threshold)
  BY <1>1, <1>2, <1>5 DEF Place
<1>6. CASE ~Room(0, k, params.threshold) /\ ~Room(1, k, params.threshold)
           /\ Room(0, k, params.probe)
  BY <1>2, <1>6 DEF Place
<1>7. CASE ~Room(0, k, params.threshold) /\ ~Room(1, k, params.threshold)
           /\ ~Room(0, k, params.probe)
  BY <1>2, <1>3, <1>7 DEF Place
<1> QED
  BY <1>4, <1>5, <1>6, <1>7

LEMMA PutNode ==
    ASSUME Contents, NEW k \in Key, k \notin KeysOf(table), NEW no \in No,
           Room(no, k, params.probe)
    PROVE  /\ AddTail(no, k) \in Tables /\ Once(AddTail(no, k))
           /\ KeysOf(AddTail(no, k)) = KeysOf(table) \union {k}
           /\ Filed(AddTail(no, k), table_size) /\ Short(AddTail(no, k), params.probe)
<1> DEFINE b == hashCode(no, k) % table_size
           new == With(table, no, b, Append(table[no][b], k))
<1>1. b \in Bucket /\ Len(table[no][b]) < params.probe /\ params.probe \in Nat
  BY ListOf, SizeOf DEF Room
<1>2. AddTail(no, k) = new
  BY DEF AddTail, With
<1>3. /\ table \in Tables /\ Once(table) /\ Filed(table, table_size)
      /\ Short(table, params.probe)
  BY DEF Contents
<1>4. b = hashCode(no, k) % table_size
  OBVIOUS
<1> HIDE DEF b
<1>5. new \in Tables /\ Once(new) /\ KeysOf(new) = KeysOf(table) \union {k}
  BY <1>1, <1>3, Put
<1>6. Filed(new, table_size)
  BY <1>1, <1>3, <1>4, Put
<1>7. Short(new, params.probe)
  BY <1>1, <1>3, Put
<1> HIDE DEF new
<1> QED
  BY <1>2, <1>5, <1>6, <1>7

-----------------------------------------------------------------------------
(* The lists: what a step leaves alone *)

Keeps(u) ==
    /\ pc'[u] = pc[u] /\ seen'[u] = seen[u]
    /\ pc[u] = "idle" => loc'[u] = loc[u]
    /\ loc'[u].op = loc[u].op /\ loc'[u].arg = loc[u].arg /\ loc'[u].ok = loc[u].ok
    /\ loc'[u].round = loc[u].round /\ loc'[u].i = loc[u].i /\ loc'[u].hi = loc[u].hi
    /\ loc'[u].grow = loc[u].grow /\ loc'[u].n = loc[u].n /\ loc'[u].old = loc[u].old

Others(t) == \A u \in Threads \ {t} : Keeps(u)

SameTables == UNCHANGED <<params, table_size, table>>

\* Nobody rehashes while another thread is at the lists.
LEMMA NoRehash ==
    ASSUME Inv, NEW t \in Threads, pc[t] \in Guarded \union Resizing,
           NEW u \in Threads, u # t
    PROVE  pc[u] # "rehash"
  BY InvListsGuarded DEF ListsGuarded, Resizing

LEMMA OthersKept ==
    ASSUME TableInv, NEW t \in Threads, Others(t), NEW u \in Threads, u # t,
           SameTables \/ pc[t] \in Guarded \union Resizing
    PROVE  AnswerOf(u)' /\ RehashOf(u)'
<1>1. Keeps(u)
  BY DEF Others
<1>2. AnswerOf(u) /\ RehashOf(u) /\ Inv
  BY DEF TableInv
<1>3. AnswerOf(u)'
  <2>1. Justified(u)' <=> Justified(u)
    BY <1>1 DEF Keeps, Justified
  <2> QED
    BY <1>1, <1>2, <2>1 DEF Keeps, AnswerOf
<1>4. RehashOf(u)'
  <2>1. CASE pc[t] \in Guarded \union Resizing
    BY <1>1, <1>2, <2>1, NoRehash DEF Keeps, RehashOf
  <2>2. CASE SameTables
    BY <1>1, <1>2, <2>2 DEF Keeps, RehashOf, SameTables
  <2> QED
    BY <2>1, <2>2
<1> QED
  BY <1>3, <1>4

\* The whole of a step, once it is known what it does to the lists and to its own
\* thread.
LEMMA TableStep ==
    ASSUME TableInv, Inv', NEW t \in Threads, Others(t),
           SameTables \/ pc[t] \in Guarded \union Resizing,
           Contents', RehashOf(t)', AnswerOf(t)'
    PROVE  TableInv'
<1>1. ASSUME NEW u \in Threads
      PROVE  RehashOf(u)' /\ AnswerOf(u)'
  <2>1. CASE u = t
    BY <2>1
  <2>2. CASE u # t
    BY <2>2, OthersKept
  <2> QED
    BY <2>1, <2>2
<1> QED
  BY <1>1 DEF TableInv

LEMMA SameContents ==
    ASSUME Contents, SameTables, DOMAIN seen' = Threads
    PROVE  Contents'
  BY DEF Contents, SameTables

\* A step that leaves the tables alone and does not lead into rehash.
LEMMA QuietStep ==
    ASSUME TableInv, Inv', NEW t \in Threads, Others(t), SameTables,
           DOMAIN seen' = Threads, pc'[t] # "rehash", AnswerOf(t)'
    PROVE  TableInv'
<1>1. Contents'
  BY SameContents DEF TableInv
<1>2. RehashOf(t)'
  BY DEF RehashOf
<1> QED
  BY <1>1, <1>2, TableStep

LEMMA OwnStep ==
    ASSUME TableInv, NEW t \in Threads, NEW l, NEW r, NEW s,
           Sets(pc, pc', t, l), Sets(loc, loc', t, r), Sets(seen, seen', t, s)
    PROVE  /\ Others(t) /\ pc'[t] = l /\ loc'[t] = r /\ seen'[t] = s
           /\ DOMAIN seen' = Threads
<1>1. DOMAIN pc = Threads /\ DOMAIN loc = Threads /\ DOMAIN seen = Threads
  BY DEF TableInv, Inv, Typed, Contents
<1> QED
  BY <1>1 DEF Others, Keeps, Sets

\* A step that also writes the y of threads that are choosing.
LEMMA RenewingStep ==
    ASSUME TableInv, NEW t \in Threads, NEW l, NEW s,
           Sets(pc, pc', t, l), Sets(seen, seen', t, s), \A u \in Threads \ {t} : Renews(u)
    PROVE  Others(t) /\ pc'[t] = l /\ DOMAIN seen' = Threads
<1>1. DOMAIN pc = Threads /\ DOMAIN seen = Threads
  BY DEF TableInv, Inv, Typed, Contents
<1>2. /\ pc'[t] = l /\ DOMAIN seen' = Threads
      /\ \A u \in Threads \ {t} : pc'[u] = pc[u] /\ seen'[u] = seen[u]
  BY <1>1 DEF Sets
<1>3. ASSUME NEW u \in Threads, u # t
      PROVE  Keeps(u)
  <2>1. Renews(u)
    BY <1>3
  <2>2. CASE loc'[u] = loc[u]
    BY <1>2, <1>3, <2>2 DEF Keeps
  <2>3. CASE pc[u] \in Choosing /\ \E y : loc'[u] = [loc[u] EXCEPT !.y = y]
    BY <1>2, <1>3, <2>3, FieldsOf DEF Keeps, Choosing, TableInv
  <2> QED
    BY <2>1, <2>2, <2>3 DEF Renews
<1> QED
  BY <1>2, <1>3 DEF Others

LEMMA AnswerFacts ==
    ASSUME TableInv, NEW t \in Threads
    PROVE  /\ Inv /\ Contents /\ AnswerOf(t) /\ KnowsOf(t)
           /\ DOMAIN loc[t] = {"op", "arg", "key", "ok", "ret", "i", "hi", "round", "y",
                               "ts", "grow", "n", "old"}
  BY FieldsOf DEF TableInv, Inv, Knows

\* An action of a thread gives it step l and locals r.
LEMMA QuietMove ==
    ASSUME TableInv, Inv', NEW t \in Threads, NEW l, NEW r, NEW s,
           Sets(pc, pc', t, l), Sets(loc, loc', t, r), Sets(seen, seen', t, s),
           SameTables, l # "rehash", AnswerOf(t)'
    PROVE  TableInv'
  BY OwnStep, QuietStep

-----------------------------------------------------------------------------
(* The lists: the steps of a call *)

LEMMA NoLocalsFields ==
    /\ NoLocals.op = "none" /\ NoLocals.arg = 0 /\ NoLocals.ok = FALSE /\ NoLocals.i = 0
    /\ NoLocals.hi = 0 /\ NoLocals.round = 0 /\ NoLocals.grow = FALSE /\ NoLocals.n = 0
  BY DEF NoLocals

\* A call that has not begun, or has ended.
LEMMA FreshAnswer ==
    /\ 0 \in 0..(2 * mtx_size) /\ 0 \in 0..LIMIT /\ 0 \in No /\ 0 \in Bucket
    /\ 1 \in 0..LIMIT
<1>1. mtx_size \in Nat \ {0} /\ LIMIT \in Nat \ {0} /\ MaxTable \in Nat
      /\ MaxTable >= mtx_size
  BY Bounds, CuckooAssumption
<1> QED
  BY <1>1 DEF No, Bucket

LEMMA CallTable ==
    ASSUME TableInv, Inv', NEW t \in Threads, NEW op \in Ops, NEW k \in Key, Call(t, op, k)
    PROVE  TableInv'
<1> DEFINE r == [NoLocals EXCEPT !.op = op, !.arg = k, !.key = k]
<1>1. /\ Sets(pc, pc', t, "lock0") /\ Sets(loc, loc', t, r)
      /\ Sets(seen, seen', t, seen[t]) /\ SameTables
  BY DEF Call, Goto, Local, shared, SameTables, Sets
<1>2. /\ r.ok = FALSE /\ r.i = 0 /\ r.hi = 0 /\ r.round = 0 /\ r.grow = FALSE /\ r.n = 0
  BY Fields, NoLocalsFields
<1> HIDE DEF r
<1>3. pc'[t] = "lock0" /\ loc'[t] = r
  BY <1>1, OwnStep
<1>4. AnswerOf(t)'
  BY <1>2, <1>3, FreshAnswer DEF AnswerOf, Looked, Acquiring, Resizing
<1> QED
  BY <1>1, <1>4, QuietMove

LEMMA LockTable ==
    ASSUME TableInv, Inv', NEW t \in Threads, Lock0(t) \/ Lock1(t)
    PROVE  TableInv'
<1> DEFINE m == IF loc[t].round = 0 THEN loc[t].op ELSE "move"
           l == IF pc[t] = "lock0" THEN "lock1" ELSE m
<1>1. /\ pc[t] \in Acquiring /\ Sets(pc, pc', t, l) /\ SameTables
      /\ Sets(loc, loc', t, loc[t]) /\ Sets(seen, seen', t, seen[t])
  <2>1. CASE Lock0(t)
    BY <2>1 DEF Lock0, At, Goto, SameTables, Acquiring, Sets
  <2>2. CASE Lock1(t)
    BY <2>2 DEF Lock1, At, Goto, SameTables, Acquiring, Sets
  <2> QED
    BY <2>1, <2>2
<1>3. loc[t].op \in {"add", "delete", "find"}
  BY <1>1, AnswerFacts DEF KnowsOf, Acquiring
<1>4. /\ m \in {"add", "delete", "find", "move"}
      /\ m = "move" <=> loc[t].round # 0
      /\ m # "move" => loc[t].op = m
  BY <1>3
<1>5. l = "lock1" \/ l = m
  OBVIOUS
<1> HIDE DEF m, l
<1>6. pc'[t] = l /\ loc'[t] = loc[t]
  BY <1>1, OwnStep
<1>7. AnswerOf(t)'
  BY <1>1, <1>4, <1>5, <1>6, AnswerFacts DEF AnswerOf, Looked, Acquiring, Resizing
<1>8. l # "rehash"
  BY <1>4, <1>5
<1> QED
  BY <1>1, <1>7, <1>8, QuietMove

\* All the keys are in the tables while a thread is at a list.
LEMMA MembersOf ==
    ASSUME TableInv, NEW t \in Threads, pc[t] \in Guarded
    PROVE  Members = KeysOf(table)
<1>1. \A u \in Threads : pc[u] # "rehash"
  <2>1. Inv /\ pc[t] # "rehash"
    BY DEF TableInv, Guarded
  <2> QED
    BY <2>1, NoRehash
<1> QED
  BY <1>1 DEF Members

LEMMA LookMeets ==
    ASSUME TableInv, NEW t \in Threads, pc[t] \in Guarded, Look(t)
    PROVE  /\ loc[t].arg \in Key
           /\ contains_op(loc[t].arg) <=> loc[t].arg \in Members
           /\ contains_op(loc[t].arg) => Meet(t, "present")
           /\ ~contains_op(loc[t].arg) => Meet(t, "absent")
<1>1. loc[t].arg \in Key
  BY AnswerFacts DEF KnowsOf, Guarded
<1>2. contains_op(loc[t].arg) <=> loc[t].arg \in Members
  BY <1>1, MembersOf, ContainsOp DEF TableInv
<1> QED
  BY <1>1, <1>2 DEF Look

\* A call that changes nothing goes on to release what it locked.
LEMMA LookTable ==
    ASSUME TableInv, Inv', NEW t \in Threads, pc[t] \in {"add", "delete", "find"},
           NEW r, NEW w, Sets(pc, pc', t, "release"), Sets(loc, loc', t, r), Meet(t, w),
           SameTables, r.op = loc[t].op, r.n = loc[t].n, r.round = loc[t].round,
           r.i = loc[t].i, r.hi = loc[t].hi, r.grow = loc[t].grow, r.ok \in BOOLEAN,
           pc[t] = "add" => ~r.ok /\ w \in Refusals,
           pc[t] = "delete" => ~r.ok /\ w = "absent",
           pc[t] = "find" => w = IF r.ok THEN "present" ELSE "absent"
    PROVE  TableInv'
<1>1. Sets(seen, seen', t, seen[t] \union {w})
  BY DEF Meet, Sets
<1>2. /\ pc'[t] = "release" /\ loc'[t] = r /\ seen'[t] = seen[t] \union {w}
  BY <1>1, OwnStep
<1>3. AnswerOf(t) /\ loc[t].op = pc[t] /\ loc[t].round = 0
  BY AnswerFacts DEF AnswerOf, Looked
<1>4. Justified(t)'
  <2>1. CASE pc[t] = "add"
    BY <1>2, <1>3, <2>1 DEF Justified
  <2>2. CASE pc[t] = "delete"
    BY <1>2, <1>3, <2>2 DEF Justified
  <2>3. CASE pc[t] = "find"
    BY <1>2, <1>3, <2>3 DEF Justified
  <2> QED
    BY <2>1, <2>2, <2>3
<1>5. AnswerOf(t)'
  BY <1>2, <1>3, <1>4 DEF AnswerOf, Looked, Acquiring, Resizing
<1> QED
  BY <1>1, <1>5, QuietMove

LEMMA AddRefusedTable ==
    ASSUME TableInv, Inv', NEW t \in Threads, AddRefused(t)
    PROVE  TableInv'
<1>1. /\ pc[t] = "add" /\ Sets(pc, pc', t, "release") /\ Sets(loc, loc', t, loc[t])
      /\ SameTables
  BY DEF AddRefused, At, Goto, SameTables, Sets, shared
<1>2. \/ contains_op(loc[t].arg) /\ Look(t)
      \/ Meet(t, NoMemory)
  BY DEF AddRefused, NoMemory
<1>3. \E w \in Refusals : Meet(t, w)
  BY <1>1, <1>2, LookMeets DEF Refusals, Guarded
<1>4. loc[t].ok \in BOOLEAN /\ ~loc[t].ok
  BY <1>1, AnswerFacts DEF AnswerOf
<1> QED
  BY <1>1, <1>3, <1>4, LookTable

LEMMA FindTable ==
    ASSUME TableInv, Inv', NEW t \in Threads, FindNode(t)
    PROVE  TableInv'
<1> DEFINE c == contains_op(loc[t].arg)
           r == [loc[t] EXCEPT !.ok = c, !.ret = c]
<1>1. /\ pc[t] = "find" /\ Sets(pc, pc', t, "release") /\ Sets(loc, loc', t, r)
      /\ SameTables /\ Look(t)
  BY DEF FindNode, At, Goto, Local, SameTables, Sets, shared
<1>2. c \in BOOLEAN
  BY DEF contains_op
<1>3. (c => Meet(t, "present")) /\ (~c => Meet(t, "absent"))
  BY <1>1, LookMeets DEF Guarded
<1> HIDE DEF c
<1>4. /\ r.op = loc[t].op /\ r.n = loc[t].n /\ r.round = loc[t].round /\ r.i = loc[t].i
      /\ r.hi = loc[t].hi /\ r.grow = loc[t].grow /\ r.ok = c
  BY AnswerFacts
<1> HIDE DEF r
<1>5. CASE c
  BY <1>1, <1>2, <1>3, <1>4, <1>5, LookTable
<1>6. CASE ~c
  BY <1>1, <1>2, <1>3, <1>4, <1>6, LookTable
<1> QED
  BY <1>5, <1>6

LEMMA ReleaseTable ==
    ASSUME TableInv, Inv', NEW t \in Threads, Release(t)
    PROVE  TableInv'
<1>1. /\ Sets(pc, pc', t, "ret") /\ Sets(loc, loc', t, loc[t])
      /\ Sets(seen, seen', t, seen[t]) /\ SameTables
  BY DEF Release, Goto, SameTables, Sets
<1>2. pc'[t] = "ret" /\ loc'[t] = loc[t]
  BY <1>1, OwnStep
<1>3. AnswerOf(t)'
  BY <1>2, AnswerFacts DEF AnswerOf, Looked, Acquiring, Resizing
<1> QED
  BY <1>1, <1>3, QuietMove

LEMMA AddNoRoomTable ==
    ASSUME TableInv, Inv', NEW t \in Threads, AddNoRoom(t)
    PROVE  TableInv'
<1> DEFINE r == [loc[t] EXCEPT !.ret = TRUE, !.grow = TRUE]
<1>1. /\ pc[t] = "add" /\ Sets(pc, pc', t, "alock") /\ Sets(loc, loc', t, r)
      /\ Sets(seen, seen', t, seen[t]) /\ SameTables
  BY DEF AddNoRoom, At, Goto, Local, SameTables, Sets
<1>2. /\ r.op = loc[t].op /\ r.n = loc[t].n /\ r.round = loc[t].round /\ r.i = loc[t].i
      /\ r.hi = loc[t].hi /\ r.grow = TRUE /\ r.ok = loc[t].ok
  BY AnswerFacts
<1> HIDE DEF r
<1>3. pc'[t] = "alock" /\ loc'[t] = r
  BY <1>1, OwnStep
<1>4. AnswerOf(t)'
  BY <1>1, <1>2, <1>3, AnswerFacts DEF AnswerOf, Looked, Acquiring, Resizing
<1> QED
  BY <1>1, <1>4, QuietMove

LEMMA ReturnTable ==
    ASSUME TableInv, Inv', NEW t \in Threads, Return(t)
    PROVE  TableInv'
<1>1. /\ Sets(pc, pc', t, "idle") /\ Sets(loc, loc', t, NoLocals)
      /\ Sets(seen, seen', t, {}) /\ SameTables
  BY DEF Return, Goto, Local, SameTables, Sets, shared
<1>2. pc'[t] = "idle" /\ loc'[t] = NoLocals
  BY <1>1, OwnStep
<1>3. AnswerOf(t)'
  BY <1>2, FreshAnswer, NoLocalsFields DEF AnswerOf, Looked, Acquiring, Resizing
<1> QED
  BY <1>1, <1>3, QuietMove

-----------------------------------------------------------------------------
(* The lists: the steps of add and delete that write them *)

LEMMA NewContents ==
    ASSUME Contents, UNCHANGED <<params, table_size>>, DOMAIN seen' = Threads,
           table' \in Tables, Once(table'), Filed(table', table_size),
           Short(table', params.probe)
    PROVE  Contents'
  BY DEF Contents

LEMMA AddNodeFacts ==
    ASSUME TableInv, NEW t \in Threads, AddNode(t)
    PROVE  LET k == loc[t].arg
               p == Place(k)
           IN  /\ pc[t] = "add" /\ k \in Key /\ k \notin KeysOf(table)
               /\ p[1] \in No /\ p[2] \in BOOLEAN /\ Room(p[1], k, params.probe)
               /\ table' = AddTail(p[1], k) /\ UNCHANGED <<params, table_size>>
               /\ Sets(seen, seen', t, {})
               /\ IF p[2]
                  THEN /\ Local(t, [loc[t] EXCEPT !.ok = TRUE, !.ret = TRUE, !.round = 1,
                                        !.i = p[1], !.hi = hashCode(p[1], k) % table_size])
                       /\ Goto(t, "head")
                  ELSE Local(t, [loc[t] EXCEPT !.ok = TRUE, !.ret = TRUE]) /\ Goto(t, "ret")
<1> DEFINE k == loc[t].arg
           p == Place(k)
<1>1. pc[t] = "add" /\ ~contains_op(k) /\ ~Full(k)
  BY DEF AddNode, At
<1>2. k \in Key
  BY <1>1, AnswerFacts DEF KnowsOf
<1>3. k \notin KeysOf(table)
  BY <1>1, <1>2, ContainsOp DEF TableInv
<1>4. \E no \in No : Room(no, k, params.probe)
  BY <1>1 DEF Full
<1>5. p[1] \in No /\ p[2] \in BOOLEAN /\ Room(p[1], k, params.probe)
  BY <1>2, <1>4, PlaceFacts DEF TableInv
<1> HIDE DEF p
<1>6. /\ table' = AddTail(p[1], k) /\ UNCHANGED <<params, table_size>>
      /\ seen' = [seen EXCEPT ![t] = {}]
      /\ IF p[2]
         THEN /\ Local(t, [loc[t] EXCEPT !.ok = TRUE, !.ret = TRUE, !.round = 1,
                               !.i = p[1], !.hi = hashCode(p[1], k) % table_size])
              /\ Goto(t, "head")
         ELSE Local(t, [loc[t] EXCEPT !.ok = TRUE, !.ret = TRUE]) /\ Goto(t, "ret")
  BY DEF AddNode, p
<1>7. Sets(seen, seen', t, {})
  BY <1>6 DEF Sets
<1> HIDE DEF k
<1> QED
  BY <1>1, <1>2, <1>3, <1>5, <1>6, <1>7 DEF k, p

LEMMA AddNodeTable ==
    ASSUME TableInv, Inv', NEW t \in Threads, AddNode(t)
    PROVE  TableInv'
<1> DEFINE k == loc[t].arg
           p == Place(k)
           h == hashCode(p[1], k) % table_size
           q == [loc[t] EXCEPT !.ok = TRUE, !.ret = TRUE, !.round = 1, !.i = p[1],
                               !.hi = h]
           d == [loc[t] EXCEPT !.ok = TRUE, !.ret = TRUE]
<1>1. /\ pc[t] = "add" /\ k \in Key /\ k \notin KeysOf(table)
      /\ p[1] \in No /\ p[2] \in BOOLEAN /\ Room(p[1], k, params.probe)
      /\ table' = AddTail(p[1], k) /\ UNCHANGED <<params, table_size>>
      /\ Sets(seen, seen', t, {})
      /\ IF p[2] THEN Local(t, q) /\ Goto(t, "head") ELSE Local(t, d) /\ Goto(t, "ret")
  BY AddNodeFacts
<1> HIDE DEF p
<1>2. h \in Bucket
  BY <1>1, ListOf DEF TableInv
<1>3. AnswerOf(t) /\ loc[t].op = "add" /\ ~loc[t].grow
  BY <1>1, AnswerFacts DEF AnswerOf
<1> HIDE DEF k, h
<1>4. /\ q.op = loc[t].op /\ q.n = loc[t].n /\ q.round = 1 /\ q.i = p[1]
      /\ q.hi = h /\ q.grow = loc[t].grow /\ q.ok = TRUE
  BY AnswerFacts
<1>5. /\ d.op = loc[t].op /\ d.n = loc[t].n /\ d.round = loc[t].round /\ d.i = loc[t].i
      /\ d.hi = loc[t].hi /\ d.grow = loc[t].grow /\ d.ok = TRUE
  BY AnswerFacts
<1> HIDE DEF q, d
<1>6. Others(t) /\ DOMAIN seen' = Threads /\ AnswerOf(t)' /\ pc'[t] # "rehash"
  <2>1. CASE p[2]
    <3>1. Sets(pc, pc', t, "head") /\ Sets(loc, loc', t, q)
      BY <1>1, <2>1 DEF Local, Goto, Sets
    <3>2. /\ Others(t) /\ DOMAIN seen' = Threads /\ pc'[t] = "head" /\ loc'[t] = q
      BY <1>1, <3>1, OwnStep
    <3>3. AnswerOf(t)'
      BY <1>1, <1>2, <1>3, <1>4, <3>2, FreshAnswer DEF AnswerOf, Looked, Acquiring, Resizing
    <3> QED
      BY <3>2, <3>3
  <2>2. CASE ~p[2]
    <3>1. Sets(pc, pc', t, "ret") /\ Sets(loc, loc', t, d)
      BY <1>1, <2>2 DEF Local, Goto, Sets
    <3>2. /\ Others(t) /\ DOMAIN seen' = Threads /\ pc'[t] = "ret" /\ loc'[t] = d
      BY <1>1, <3>1, OwnStep
    <3>3. AnswerOf(t)'
      BY <1>3, <1>5, <3>2 DEF AnswerOf, Looked, Acquiring, Resizing
    <3> QED
      BY <3>2, <3>3
  <2> QED
    BY <2>1, <2>2
<1>7. Contents'
  <2>1. /\ AddTail(p[1], k) \in Tables /\ Once(AddTail(p[1], k))
        /\ Filed(AddTail(p[1], k), table_size) /\ Short(AddTail(p[1], k), params.probe)
    BY <1>1, PutNode DEF TableInv
  <2> QED
    BY <1>1, <1>6, <2>1, NewContents DEF TableInv
<1>8. RehashOf(t)' /\ pc[t] \in Guarded
  BY <1>1, <1>6 DEF RehashOf, Guarded
<1> QED
  BY <1>6, <1>7, <1>8, TableStep

\* delete_node takes the key it finds out of its list, and out of the table.
LEMMA TakeNode ==
    ASSUME Contents, NEW n \in No, NEW b \in Bucket, NEW k, Contains(table[n][b], k)
    PROVE  LET new == With(table, n, b, Without(table[n][b], k)) IN
           /\ k \in KeysOf(table) /\ k \in Key /\ b = hashCode(n, k) % table_size
           /\ new \in Tables /\ Once(new) /\ KeysOf(new) = KeysOf(table) \ {k}
           /\ Filed(new, table_size) /\ Short(new, params.probe)
           /\ Len(new[n][b]) = Len(table[n][b]) - 1
           /\ \A m \in No, c \in Bucket : m # n \/ c # b => new[m][c] = table[m][c]
<1> DEFINE l == Without(table[n][b], k)
           new == With(table, n, b, l)
<1>1. /\ table \in Tables /\ Once(table) /\ Filed(table, table_size)
      /\ Short(table, params.probe) /\ params.probe \in Nat
  BY SizeOf DEF Contents
<1>2. table[n][b] \in Seq(Key)
  BY <1>1 DEF Tables
<1>3. PICK p \in 1..Len(table[n][b]) : table[n][b][p] = k /\ l = RemoveAt(table[n][b], p)
  BY <1>2, WithoutFacts
<1> HIDE DEF l
<1>4. k \in KeysOf(table) /\ k \in Key
  BY <1>1, <1>3, InTable
<1>5. b = hashCode(n, k) % table_size
  BY <1>1, <1>3 DEF Filed
<1>6. new = With(table, n, b, RemoveAt(table[n][b], p))
  BY <1>3
<1> HIDE DEF new
<1>7. new \in Tables /\ Once(new) /\ KeysOf(new) = KeysOf(table) \ {k}
  BY <1>1, <1>3, <1>6, Take
<1>8. /\ Len(new[n][b]) = Len(table[n][b]) - 1
      /\ \A m \in No, c \in Bucket : m # n \/ c # b => new[m][c] = table[m][c]
  BY <1>1, <1>3, <1>6, Take
<1>9. Filed(new, table_size) /\ Short(new, params.probe)
  BY <1>1, <1>3, <1>6, Take
<1> QED
  BY <1>4, <1>5, <1>7, <1>8, <1>9 DEF new, l

LEMMA DeleteNodeFacts ==
    ASSUME TableInv, NEW t \in Threads, DeleteNode(t), contains_op(loc[t].arg)
    PROVE  /\ pc[t] = "delete" /\ loc[t].arg \in KeysOf(table) /\ loc[t].op = "delete"
           /\ table' \in Tables /\ Once(table') /\ Filed(table', table_size)
           /\ Short(table', params.probe) /\ KeysOf(table') = KeysOf(table) \ {loc[t].arg}
           /\ UNCHANGED <<params, table_size>> /\ Sets(seen, seen', t, {})
           /\ Sets(pc, pc', t, "ret")
           /\ loc'[t] = [loc[t] EXCEPT !.ok = TRUE, !.ret = TRUE]
           /\ \A u \in Threads \ {t} : Renews(u)
<1> DEFINE k == loc[t].arg
           no == IF Contains(list(0, k), k) THEN 0 ELSE 1
           b == hashCode(no, k) % table_size
<1>1. /\ pc[t] = "delete" /\ UNCHANGED <<params, table_size>>
      /\ table' = [table EXCEPT ![no][b] = Without(@, k)]
      /\ loc' = [u \in Threads |->
                    IF u = t THEN [loc[t] EXCEPT !.ok = TRUE, !.ret = TRUE]
                    ELSE IF pc[u] \in Choosing /\ loc[u].y = k
                    THEN [loc[u] EXCEPT !.y = Freed] ELSE loc[u]]
      /\ seen' = [seen EXCEPT ![t] = {}] /\ pc' = [pc EXCEPT ![t] = "ret"]
  BY DEF DeleteNode, At, Goto
<1>2. k \in Key /\ loc[t].op = "delete"
  BY <1>1, AnswerFacts DEF KnowsOf, AnswerOf
<1>3. no \in No /\ Contains(list(no, k), k)
  BY DEF contains_op, No
<1> HIDE DEF no
<1>4. b \in Bucket /\ Contains(table[no][b], k)
  BY <1>2, <1>3, ListOf DEF TableInv
<1>5. table' = With(table, no, b, Without(table[no][b], k))
  BY <1>1 DEF With
<1>6. /\ k \in KeysOf(table)
      /\ table' \in Tables /\ Once(table') /\ Filed(table', table_size)
      /\ Short(table', params.probe) /\ KeysOf(table') = KeysOf(table) \ {k}
  BY <1>3, <1>4, <1>5, TakeNode DEF TableInv
<1> HIDE DEF b
<1>7. Sets(seen, seen', t, {}) /\ Sets(pc, pc', t, "ret")
  BY <1>1 DEF Sets
<1>8. /\ loc'[t] = [loc[t] EXCEPT !.ok = TRUE, !.ret = TRUE]
      /\ \A u \in Threads \ {t} : Renews(u)
  BY <1>1 DEF Renews
<1> QED
  BY <1>1, <1>2, <1>6, <1>7, <1>8

LEMMA DeleteNodeOthers ==
    ASSUME TableInv, NEW t \in Threads, DeleteNode(t), contains_op(loc[t].arg)
    PROVE  Others(t) /\ pc'[t] = "ret" /\ DOMAIN seen' = Threads
<1>1. /\ Sets(seen, seen', t, {}) /\ Sets(pc, pc', t, "ret")
      /\ \A u \in Threads \ {t} : Renews(u)
  BY DeleteNodeFacts
<1> QED
  BY <1>1, RenewingStep

LEMMA DeleteNodeTable ==
    ASSUME TableInv, Inv', NEW t \in Threads, DeleteNode(t)
    PROVE  TableInv'
<1>1. CASE contains_op(loc[t].arg)
  <2>1. /\ pc[t] = "delete" /\ loc[t].op = "delete"
        /\ table' \in Tables /\ Once(table') /\ Filed(table', table_size)
        /\ Short(table', params.probe) /\ UNCHANGED <<params, table_size>>
        /\ loc'[t] = [loc[t] EXCEPT !.ok = TRUE, !.ret = TRUE]
    BY <1>1, DeleteNodeFacts
  <2>2. Others(t) /\ pc'[t] = "ret" /\ DOMAIN seen' = Threads
    BY <1>1, DeleteNodeOthers
  <2>3. /\ loc'[t].n = loc[t].n /\ loc'[t].round = loc[t].round /\ loc'[t].i = loc[t].i
        /\ loc'[t].hi = loc[t].hi /\ loc'[t].grow = loc[t].grow /\ loc'[t].ok = TRUE
        /\ loc'[t].op = loc[t].op
    BY <2>1, AnswerFacts
  <2>4. AnswerOf(t)'
    BY <2>1, <2>2, <2>3, AnswerFacts DEF AnswerOf, Looked, Acquiring, Resizing
  <2>5. Contents'
    BY <2>1, <2>2, NewContents DEF TableInv
  <2>6. RehashOf(t)' /\ pc[t] \in Guarded
    BY <2>1, <2>2 DEF RehashOf, Guarded
  <2> QED
    BY <2>2, <2>4, <2>5, <2>6, TableStep
<1>2. CASE ~contains_op(loc[t].arg)
  <2>1. /\ pc[t] = "delete" /\ Sets(pc, pc', t, "release") /\ Sets(loc, loc', t, loc[t])
        /\ SameTables /\ Look(t)
    BY <1>2 DEF DeleteNode, At, Goto, SameTables, Sets
  <2>2. Meet(t, "absent")
    BY <1>2, <2>1, LookMeets DEF Guarded
  <2>3. loc[t].ok \in BOOLEAN /\ ~loc[t].ok
    BY <2>1, AnswerFacts DEF AnswerOf
  <2> QED
    BY <2>1, <2>2, <2>3, LookTable
<1> QED
  BY <1>1, <1>2

-----------------------------------------------------------------------------
(* The lists: the steps of relocate *)

LEMMA FaultTable ==
    ASSUME TableInv, Inv', NEW why, Fault(why)
    PROVE  TableInv'
<1>1. UNCHANGED <<params, table_size, table, pc, loc, seen>>
  BY DEF Fault
<1>2. Contents'
  BY <1>1 DEF TableInv, Contents
<1>3. ASSUME NEW u \in Threads
      PROVE  RehashOf(u)' /\ AnswerOf(u)'
  <2>1. RehashOf(u) /\ AnswerOf(u)
    BY DEF TableInv
  <2>2. Justified(u)' <=> Justified(u)
    BY <1>1 DEF Justified
  <2>3. AnswerOf(u)'
    BY <1>1, <2>1, <2>2 DEF AnswerOf
  <2>4. RehashOf(u)'
    BY <1>1, <2>1 DEF RehashOf
  <2> QED
    BY <2>3, <2>4
<1> QED
  BY <1>2, <1>3 DEF TableInv

LEMMA ChoosesTable ==
    ASSUME TableInv, Inv', NEW t \in Threads, Chooses(t)
    PROVE  TableInv'
<1>1. CASE \E why : Fault(why)
  BY <1>1, FaultTable
<1>2. ASSUME NEW l, NEW r, ChoosesTo(t, l, r)
      PROVE  TableInv'
  <2>1. /\ pc[t] \in {"head"} \union Choosing /\ l \in {"lock0"} \union Choosing
        /\ Sets(pc, pc', t, l) /\ Sets(loc, loc', t, r) /\ Sets(seen, seen', t, seen[t])
        /\ Chosen(t, r) /\ SameTables
    BY <1>2 DEF ChoosesTo, SameTables, Sets
  <2>2. pc'[t] = l /\ loc'[t] = r
    BY <2>1, OwnStep
  <2>3. loc[t].round # 0
    BY <2>1, AnswerFacts DEF KnowsOf, Choosing
  <2>4. AnswerOf(t)'
    BY <2>1, <2>2, <2>3, AnswerFacts
    DEF AnswerOf, Looked, Acquiring, Resizing, Chosen, Choosing
  <2>5. l # "rehash"
    BY <2>1 DEF Choosing
  <2> QED
    BY <2>1, <2>4, <2>5, QuietMove
<1> QED
  BY <1>1, <1>2, ChooseFacts DEF TableInv

\* Tables with the same keys, in their places.
Kept(new) ==
    /\ new \in Tables /\ Once(new) /\ KeysOf(new) = KeysOf(table)
    /\ Filed(new, table_size) /\ Short(new, params.probe)

\* What becomes of the lists when the victim of a relocate goes from one to the
\* end of another, or of the same.
LEMMA Moved ==
    ASSUME Contents, NEW n \in No, NEW b \in Bucket, NEW k, Contains(table[n][b], k),
           NEW m \in No, NEW c \in Bucket, c = hashCode(m, k) % table_size,
           Len(With(table, n, b, Without(table[n][b], k))[m][c]) < params.probe
    PROVE  LET mid == With(table, n, b, Without(table[n][b], k))
           IN  Kept(With(mid, m, c, Append(mid[m][c], k)))
<1> DEFINE mid == With(table, n, b, Without(table[n][b], k))
           new == With(mid, m, c, Append(mid[m][c], k))
<1>0. Contents /\ n \in No /\ b \in Bucket /\ Contains(table[n][b], k)
  OBVIOUS
<1>1. /\ k \in KeysOf(table) /\ k \in Key
      /\ mid \in Tables /\ Once(mid) /\ KeysOf(mid) = KeysOf(table) \ {k}
      /\ Filed(mid, table_size) /\ Short(mid, params.probe)
  <2>1. k \in KeysOf(table) /\ k \in Key
    BY ONLY <1>0, TakeNode
  <2>2. mid \in Tables /\ Once(mid)
    BY ONLY <1>0, TakeNode
  <2>3. KeysOf(mid) = KeysOf(table) \ {k}
    BY ONLY <1>0, TakeNode
  <2>4. Filed(mid, table_size)
    BY ONLY <1>0, TakeNode
  <2>5. Short(mid, params.probe)
    BY ONLY <1>0, TakeNode
  <2> QED
    BY <2>1, <2>2, <2>3, <2>4, <2>5
<1> HIDE DEF mid
<1>2. k \notin KeysOf(mid) /\ params.probe \in Nat
  BY <1>1, SizeOf
<1>3. Len(mid[m][c]) < params.probe
  BY DEF mid
<1>4. new \in Tables /\ Once(new) /\ KeysOf(new) = KeysOf(mid) \union {k}
  BY ONLY <1>1, <1>2, m \in No, c \in Bucket, Put
<1>5. Filed(new, table_size)
  BY ONLY <1>1, <1>2, m \in No, c \in Bucket, c = hashCode(m, k) % table_size, Put
<1>6. Short(new, params.probe)
  BY ONLY <1>1, <1>2, <1>3, m \in No, c \in Bucket, Put
<1> HIDE DEF new
<1> QED
  BY <1>1, <1>4, <1>5, <1>6 DEF Kept, new, mid

\* What one round of relocate leads to.
NextRound(t, j, h) ==
    /\ loc[t].round # LIMIT
    /\ Local(t, [loc[t] EXCEPT !.round = @ + 1, !.i = j, !.hi = h])
    /\ Goto(t, "head")

LEMMA RelocateMoveCases ==
    ASSUME NEW t \in Threads, RelocateMove(t)
    PROVE  LET k == loc[t].key  i == loc[t].i  j == 1 - i  hi == loc[t].hi IN
           \/ \E why : Fault(why)
           \/ /\ pc[t] = "move" /\ Contains(table[i][hi], k)
              /\ UNCHANGED <<params, table_size, seen>>
              /\ \/ /\ Room(j, k, params.threshold) \/ Room(j, k, params.probe)
                    /\ table' = Move(k, i)
                 \/ table' = [table EXCEPT ![i][hi] = Append(Without(@, k), k)]
              /\ \/ Settled(t) \/ GiveUp(t)
                 \/ NextRound(t, j, hashCode(j, k) % table_size)
<1>1. CASE Fault("list of an old table") \/ Fault("null pointer")
  BY <1>1
<1>2. CASE ~(Fault("list of an old table") \/ Fault("null pointer"))
  <2> DEFINE k == loc[t].key
             i == loc[t].i
             j == 1 - i
             hi == loc[t].hi
  <2>1. /\ pc[t] = "move" /\ Contains(table[i][hi], k)
        /\ UNCHANGED <<params, table_size, seen>>
    BY <1>2 DEF RelocateMove, At
  <2>2. \/ Room(j, k, params.threshold) /\ table' = Move(k, i) /\ Settled(t)
        \/ /\ Room(j, k, params.probe) /\ table' = Move(k, i)
           /\ GiveUp(t) \/ NextRound(t, j, hashCode(j, k) % table_size)
        \/ table' = [table EXCEPT ![i][hi] = Append(Without(@, k), k)] /\ GiveUp(t)
    BY <1>2 DEF RelocateMove, NextRound
  <2> HIDE DEF k, i, j, hi
  <2>3. /\ \/ /\ Room(j, k, params.threshold) \/ Room(j, k, params.probe)
              /\ table' = Move(k, i)
           \/ table' = [table EXCEPT ![i][hi] = Append(Without(@, k), k)]
        /\ \/ Settled(t) \/ GiveUp(t)
           \/ NextRound(t, j, hashCode(j, k) % table_size)
    BY <2>2
  <2> QED
    BY <2>1, <2>3 DEF k, i, j, hi
<1> QED
  BY <1>1, <1>2

LEMMA MoveKeeps ==
    ASSUME Contents, NEW i \in No, NEW b \in Bucket, NEW k, Contains(table[i][b], k),
           \/ /\ Room(1 - i, k, params.threshold) \/ Room(1 - i, k, params.probe)
              /\ table' = Move(k, i)
           \/ table' = [table EXCEPT ![i][b] = Append(Without(@, k), k)]
    PROVE  Kept(table') /\ k \in Key
<1> DEFINE j == 1 - i
           c == hashCode(j, k) % table_size
           mid == With(table, i, b, Without(table[i][b], k))
<1>0. Contents /\ i \in No /\ b \in Bucket /\ Contains(table[i][b], k)
  OBVIOUS
<1>1. k \in Key /\ b = hashCode(i, k) % table_size
  <2>1. k \in Key
    BY ONLY <1>0, TakeNode
  <2>2. b = hashCode(i, k) % table_size
    BY ONLY <1>0, TakeNode
  <2> QED
    BY <2>1, <2>2
<1>2. j \in No /\ j # i
  BY DEF No
<1>3. Len(Without(table[i][b], k)) = Len(table[i][b]) - 1
  <2>1. table[i][b] \in Seq(Key)
    BY DEF Contents, Tables
  <2>2. Contains(table[i][b], k)
    OBVIOUS
  <2> QED
    BY ONLY <2>1, <2>2, WithoutShorter
<1>4. c \in Bucket
  BY <1>1, <1>2, ListOf
<1>5. table \in Tables
  BY DEF Contents
<1>6. CASE /\ Room(j, k, params.threshold) \/ Room(j, k, params.probe)
           /\ table' = Move(k, i)
  <2>1. Len(table[j][c]) < params.probe
    <3>1. Room(j, k, params.threshold) \/ Room(j, k, params.probe)
      BY <1>6
    <3>2. /\ params.probe \in Nat /\ params.threshold \in Nat
          /\ params.threshold <= params.probe
      BY ONLY <1>0, SizeOf
    <3>3. Len(table[j][c]) \in Nat
      BY <1>2, <1>4, <1>5 DEF Tables
    <3>4. list(j, k) = table[j][c]
      BY DEF list
    <3> HIDE DEF j, c
    <3> QED
      BY ONLY <3>1, <3>2, <3>3, <3>4 DEF Room
  <2>2. mid[j][c] = table[j][c]
    BY <1>2, <1>4, <1>5 DEF With, Tables
  <2> DEFINE x == Without(table[i][b], k)
             y == Append(table[j][c], k)
  <2>3. table' = [table EXCEPT ![i][b] = x, ![j][c] = y]
    BY <1>1, <1>2, <1>4, <1>5, <1>6 DEF Move, Tables
  <2>4. With(mid, j, c, Append(mid[j][c], k)) = With(With(table, i, b, x), j, c, y)
    BY <2>2
  <2>5. table' = With(With(table, i, b, x), j, c, y)
    <3> HIDE DEF x, y, j, c
    <3> QED
      BY <1>2, <1>4, <1>5, <2>3 DEF With, Tables
  <2>6. Len(mid[j][c]) < params.probe
    BY <2>1, <2>2
  <2>7. c = hashCode(j, k) % table_size
    OBVIOUS
  <2> HIDE DEF c, j
  <2>8. Kept(With(mid, j, c, Append(mid[j][c], k)))
    BY ONLY <1>0, <1>2, <1>4, <2>6, <2>7, Moved
  <2> QED
    BY <1>1, <2>4, <2>5, <2>8
<1>7. CASE table' = [table EXCEPT ![i][b] = Append(Without(@, k), k)]
  <2> DEFINE x == Without(table[i][b], k)
  <2>1. mid[i][b] = x
    BY <1>5 DEF With, Tables
  <2>2. table' = [table EXCEPT ![i][b] = Append(x, k)]
    BY <1>5, <1>7
  <2>3. table' = With(With(table, i, b, x), i, b, Append(x, k))
    <3> HIDE DEF x
    <3> QED
      BY <1>5, <2>2 DEF With, Tables
  <2>4. Len(mid[i][b]) < params.probe
    <3>1. Len(table[i][b]) <= params.probe /\ Len(table[i][b]) \in Nat
      BY <1>5 DEF Contents, Short, Tables
    <3> QED
      BY <1>3, <2>1, <3>1, SizeOf
  <2>5. Kept(With(mid, i, b, Append(mid[i][b], k)))
    BY ONLY <1>0, <1>1, <2>4, Moved
  <2> QED
    BY <1>1, <2>1, <2>3, <2>5
<1> QED
  BY <1>1, <1>6, <1>7

LEMMA RelocateMoveTable ==
    ASSUME TableInv, Inv', NEW t \in Threads, RelocateMove(t)
    PROVE  TableInv'
<1> DEFINE k == loc[t].key
           i == loc[t].i
           j == 1 - i
           b == loc[t].hi
           h == hashCode(j, k) % table_size
           q == [loc[t] EXCEPT !.round = @ + 1, !.i = j, !.hi = h]
           d == [loc[t] EXCEPT !.round = 0, !.i = 0, !.hi = 0, !.ts = 0, !.y = NULL]
<1>1. CASE \E why : Fault(why)
  BY <1>1, FaultTable
<1>2. CASE /\ pc[t] = "move" /\ Contains(table[i][b], k)
           /\ UNCHANGED <<params, table_size, seen>>
           /\ \/ /\ Room(j, k, params.threshold) \/ Room(j, k, params.probe)
                 /\ table' = Move(k, i)
              \/ table' = [table EXCEPT ![i][b] = Append(Without(@, k), k)]
           /\ Settled(t) \/ GiveUp(t) \/ NextRound(t, j, h)
  <2>1. AnswerOf(t) /\ Contents /\ i \in No /\ b \in Bucket
    BY AnswerFacts DEF AnswerOf
  <2>2. Kept(table') /\ k \in Key
    BY <1>2, <2>1, MoveKeeps
  <2>3. j \in No /\ h \in Bucket
    <3>1. j \in No
      BY <2>1 DEF No
    <3> HIDE DEF j
    <3> QED
      BY <2>1, <2>2, <3>1, ListOf
  <2>4. \/ Sets(pc, pc', t, "head") /\ Sets(loc, loc', t, q) /\ loc[t].round # LIMIT
        \/ \E l \in {"ret", "alock"} : Sets(pc, pc', t, l) /\ Sets(loc, loc', t, d)
    <3> HIDE DEF h, j
    <3> QED
      BY <1>2 DEF Settled, GiveUp, Leave, NextRound, Local, Goto, Sets
  <2>5. Sets(seen, seen', t, seen[t])
    BY <1>2 DEF Sets
  <2>6. pc[t] = "move" /\ UNCHANGED <<params, table_size>>
    BY <1>2
  <2> HIDE DEF j, h
  <2>7. /\ q.op = loc[t].op /\ q.n = loc[t].n /\ q.round = loc[t].round + 1 /\ q.i = j
        /\ q.hi = h /\ q.grow = loc[t].grow /\ q.ok = loc[t].ok
    BY AnswerFacts
  <2>8. /\ d.op = loc[t].op /\ d.n = loc[t].n /\ d.round = 0 /\ d.i = 0
        /\ d.hi = 0 /\ d.grow = loc[t].grow /\ d.ok = loc[t].ok
    BY AnswerFacts
  <2> HIDE DEF k, i, b, q, d
  <2>9. Others(t) /\ DOMAIN seen' = Threads /\ AnswerOf(t)' /\ pc'[t] # "rehash"
    <3>1. CASE Sets(pc, pc', t, "head") /\ Sets(loc, loc', t, q) /\ loc[t].round # LIMIT
      <4>1. /\ Others(t) /\ DOMAIN seen' = Threads /\ pc'[t] = "head" /\ loc'[t] = q
        BY <2>5, <3>1, OwnStep
      <4>2. loc[t].round + 1 \in 0..LIMIT
        BY <2>1, <3>1, CuckooAssumption DEF AnswerOf
      <4>3. AnswerOf(t)'
        BY <2>1, <2>3, <2>6, <2>7, <4>1, <4>2 DEF AnswerOf, Looked, Acquiring, Resizing
      <4> QED
        BY <4>1, <4>3
    <3>2. ASSUME NEW l \in {"ret", "alock"}, Sets(pc, pc', t, l), Sets(loc, loc', t, d)
          PROVE  Others(t) /\ DOMAIN seen' = Threads /\ AnswerOf(t)' /\ pc'[t] # "rehash"
      <4>1. /\ Others(t) /\ DOMAIN seen' = Threads /\ pc'[t] = l /\ loc'[t] = d
        BY <2>5, <3>2, OwnStep
      <4>2. AnswerOf(t)'
        BY <2>1, <2>6, <2>8, <4>1, FreshAnswer DEF AnswerOf, Looked, Acquiring, Resizing
      <4> QED
        BY <4>1, <4>2
    <3> QED
      BY <2>4, <3>1, <3>2
  <2>10. Contents'
    BY <2>1, <2>2, <2>6, <2>9, NewContents DEF Kept
  <2>11. RehashOf(t)' /\ pc[t] \in Guarded
    BY <2>6, <2>9 DEF RehashOf, Guarded
  <2> QED
    BY <2>9, <2>10, <2>11, TableStep
<1> QED
  BY <1>1, <1>2, RelocateMoveCases

-----------------------------------------------------------------------------
(* The lists: the steps of resize *)

LEMMA ALockTable ==
    ASSUME TableInv, Inv', NEW t \in Threads, ALock(t)
    PROVE  TableInv'
<1> DEFINE l == IF loc[t].n + 1 < 2 * mtx_size THEN "alock" ELSE "swap"
           r == [loc[t] EXCEPT !.n = @ + 1]
<1>1. /\ pc[t] = "alock" /\ Sets(pc, pc', t, l) /\ Sets(loc, loc', t, r)
      /\ Sets(seen, seen', t, seen[t]) /\ SameTables
  BY DEF ALock, At, Goto, Local, SameTables, Sets
<1>2. l \in {"alock", "swap"}
  OBVIOUS
<1>3. /\ r.op = loc[t].op /\ r.n = loc[t].n + 1 /\ r.round = loc[t].round /\ r.i = loc[t].i
      /\ r.hi = loc[t].hi /\ r.grow = loc[t].grow /\ r.ok = loc[t].ok
  BY AnswerFacts
<1> HIDE DEF l, r
<1>4. pc'[t] = l /\ loc'[t] = r
  BY <1>1, OwnStep
<1>5. r.n \in 0..(2 * mtx_size)
  BY <1>1, <1>3, AnswerFacts, Bounds DEF KnowsOf
<1>6. AnswerOf(t)'
  BY <1>1, <1>2, <1>3, <1>4, <1>5, AnswerFacts DEF AnswerOf, Looked, Acquiring, Resizing
<1>7. l # "rehash"
  BY <1>2
<1> QED
  BY <1>1, <1>6, <1>7, QuietMove

LEMMA AUnLockTable ==
    ASSUME TableInv, Inv', NEW t \in Threads, AUnLock(t)
    PROVE  TableInv'
<1> DEFINE l == IF loc[t].grow THEN "lock0" ELSE "ret"
           r == [loc[t] EXCEPT !.grow = FALSE, !.n = 0, !.key = loc[t].arg]
<1>1. /\ pc[t] = "aunlock" /\ Sets(pc, pc', t, l) /\ Sets(loc, loc', t, r)
      /\ Sets(seen, seen', t, seen[t]) /\ SameTables
  BY DEF AUnLock, AfterResize, At, Goto, Local, SameTables, Sets
<1>2. AnswerOf(t) /\ loc[t].round = 0 /\ loc[t].grow = ~loc[t].ok /\ loc[t].grow \in BOOLEAN
  BY <1>1, AnswerFacts DEF AnswerOf, Resizing
<1>3. (l = "lock0" /\ ~loc[t].ok) \/ l = "ret"
  BY <1>2
<1>4. /\ r.op = loc[t].op /\ r.n = 0 /\ r.round = loc[t].round /\ r.i = loc[t].i
      /\ r.hi = loc[t].hi /\ r.grow = FALSE /\ r.ok = loc[t].ok
  BY AnswerFacts
<1> HIDE DEF l, r
<1>5. pc'[t] = l /\ loc'[t] = r
  BY <1>1, OwnStep
<1>6. AnswerOf(t)'
  BY <1>2, <1>3, <1>4, <1>5, FreshAnswer DEF AnswerOf, Looked, Acquiring, Resizing
<1>7. l # "rehash"
  BY <1>3
<1> QED
  BY <1>1, <1>6, <1>7, QuietMove

LEMMA RehashEndTable ==
    ASSUME TableInv, Inv', NEW t \in Threads, RehashEnd(t)
    PROVE  TableInv'
<1> DEFINE r == [loc[t] EXCEPT !.old = NULL]
<1>1. /\ pc[t] = "rehash" /\ Sets(pc, pc', t, "aunlock") /\ Sets(loc, loc', t, r)
      /\ Sets(seen, seen', t, seen[t]) /\ SameTables
  BY DEF RehashEnd, At, Goto, Local, SameTables, Sets, shared
<1>2. /\ r.op = loc[t].op /\ r.n = loc[t].n /\ r.round = loc[t].round /\ r.i = loc[t].i
      /\ r.hi = loc[t].hi /\ r.grow = loc[t].grow /\ r.ok = loc[t].ok
  BY AnswerFacts
<1> HIDE DEF r
<1>3. pc'[t] = "aunlock" /\ loc'[t] = r
  BY <1>1, OwnStep
<1>4. AnswerOf(t)'
  BY <1>1, <1>2, <1>3, AnswerFacts DEF AnswerOf, Looked, Acquiring, Resizing
<1> QED
  BY <1>1, <1>4, QuietMove

Empty == [no \in No |-> [b \in Bucket |-> <<>>]]

LEMMA EmptyTables ==
    /\ Empty \in Tables /\ Once(Empty) /\ KeysOf(Empty) = {}
    /\ \A n : Filed(Empty, n)
    /\ \A probe \in Nat : Short(Empty, probe)
<1>1. \A n \in No, b \in Bucket : Empty[n][b] = <<>>
  BY DEF Empty
<1>2. Empty \in Tables
  BY DEF Empty, Tables
<1>3. \A n \in No, b \in Bucket : Len(Empty[n][b]) = 0
  BY <1>1
<1>4. Once(Empty) /\ (\A n : Filed(Empty, n)) /\ \A probe \in Nat : Short(Empty, probe)
  BY <1>3 DEF Once, Filed, Short
<1>5. KeysOf(Empty) = {}
  BY <1>2, <1>3, InTable
<1> QED
  BY <1>2, <1>4, <1>5

\* Tables of twice the size tell the keys apart that the old tables did.
LEMMA TellsDouble ==
    ASSUME NEW n \in Nat \ {0}, Tells(n)
    PROVE  Tells(2 * n)
<1>1. 65699 \in Nat /\ 65699 % 2 = 1 /\ 65701 \in Nat /\ 65701 % 2 = 1
  OBVIOUS
<1>2. ASSUME NEW c \in Nat, c % 2 = 1, Cancels(c, n)
      PROVE  Cancels(c, 2 * n)
  BY <1>2, CancelsDouble
<1> QED
  BY <1>1, <1>2 DEF Tells

LEMMA SwapCases ==
    ASSUME NEW t \in Threads, Swap(t)
    PROVE  \/ \E why : Fault(why)
           \/ /\ pc[t] = "swap" /\ 2 * table_size <= MaxTable
              /\ table' = Empty /\ table_size' = 2 * table_size
              /\ Sets(pc, pc', t, "rehash")
              /\ loc'[t] = [loc[t] EXCEPT !.old = table]
              /\ \A u \in Threads \ {t} : Renews(u)
              /\ Sets(seen, seen', t, seen[t]) /\ UNCHANGED params
<1>1. CASE Fault("no tables")
  BY <1>1
<1>2. CASE ~Fault("no tables")
  <2>1. \A u \in Threads \ {t} : Renews(u)
    BY <1>2 DEF Swap, KeepsHead, Renews, Choosing
  <2> QED
    BY <1>2, <2>1 DEF Swap, At, Goto, Sets, Empty
<1> QED
  BY <1>1, <1>2

LEMMA SwapTable ==
    ASSUME TableInv, Inv', NEW t \in Threads, Swap(t)
    PROVE  TableInv'
<1> DEFINE r == [loc[t] EXCEPT !.old = table]
<1>1. CASE \E why : Fault(why)
  BY <1>1, FaultTable
<1>2. CASE /\ pc[t] = "swap" /\ 2 * table_size <= MaxTable
           /\ table' = Empty /\ table_size' = 2 * table_size
           /\ Sets(pc, pc', t, "rehash") /\ loc'[t] = r
           /\ \A u \in Threads \ {t} : Renews(u)
           /\ Sets(seen, seen', t, seen[t]) /\ UNCHANGED params
  <2>1. /\ r.op = loc[t].op /\ r.n = loc[t].n /\ r.round = loc[t].round /\ r.i = loc[t].i
        /\ r.hi = loc[t].hi /\ r.grow = loc[t].grow /\ r.ok = loc[t].ok /\ r.old = table
    BY AnswerFacts
  <2> HIDE DEF r
  <2>2. /\ Others(t) /\ DOMAIN seen' = Threads /\ pc'[t] = "rehash" /\ loc'[t] = r
    BY <1>2, RenewingStep
  <2>3. AnswerOf(t)'
    BY <1>2, <2>1, <2>2, AnswerFacts DEF AnswerOf, Looked, Acquiring, Resizing
  <2>4. /\ table_size \in Nat \ {0} /\ mtx_size \in Nat \ {0} /\ mtx_size <= table_size
        /\ table_size <= MaxTable /\ MaxTable \in Nat /\ params.probe \in Nat
        /\ Tells(table_size) /\ table \in Tables /\ Once(table) /\ params \in Params
        /\ Filed(table, table_size) /\ Short(table, params.probe)
    BY SizeOf DEF TableInv, Contents
  <2>5. Contents'
    <3>1. table_size' \in mtx_size..MaxTable
      BY <1>2, <2>4
    <3>2. Tells(table_size')
      BY <1>2, <2>4, TellsDouble
    <3>3. /\ table' \in Tables /\ Once(table') /\ Filed(table', table_size')
          /\ Short(table', params.probe)
      BY <1>2, <2>4, EmptyTables
    <3> QED
      BY <1>2, <2>2, <2>4, <3>1, <3>2, <3>3 DEF Contents
  <2>6. RehashOf(t)'
    <3>1. Sparse(KeysOf(table), 2 * table_size, params.probe)
      BY <2>4, SparseDouble
    <3>2. KeysOf(table') = {} /\ KeysOf(table') \union KeysOf(table) = KeysOf(table)
      BY <1>2, EmptyTables
    <3>3. Sparse(KeysOf(table') \union KeysOf(table), table_size', params.probe)
      BY <1>2, <3>1, <3>2
    <3> QED
      BY <1>2, <2>1, <2>2, <2>4, <3>2, <3>3 DEF RehashOf
  <2>7. pc[t] \in Resizing
    BY <1>2 DEF Resizing
  <2> QED
    BY <2>2, <2>3, <2>5, <2>6, <2>7, TableStep
<1> QED
  BY <1>1, <1>2, SwapCases

LEMMA RehashNodeFacts ==
    ASSUME TableInv, NEW t \in Threads, RehashNode(t)
    PROVE  \E old \in Tables :
               /\ pc[t] = "rehash" /\ Sets(pc, pc', t, "rehash")
               /\ Sets(loc, loc', t, [loc[t] EXCEPT !.old = old])
               /\ Sets(seen, seen', t, seen[t]) /\ UNCHANGED <<params, table_size>>
               /\ Once(old) /\ table' \in Tables /\ Once(table')
               /\ Filed(table', table_size) /\ Short(table', params.probe)
               /\ KeysOf(old) \intersect KeysOf(table') = {}
               /\ KeysOf(table') \union KeysOf(old) =
                      KeysOf(table) \union KeysOf(loc[t].old)
<1>1. /\ pc[t] = "rehash" /\ Sets(pc, pc', t, "rehash") /\ Sets(seen, seen', t, seen[t])
      /\ UNCHANGED <<params, table_size>>
  BY DEF RehashNode, At, Sets
<1>2. PICK n \in No, b \in Bucket :
          /\ NextList(loc[t].old, n, b) /\ ~Full(Head(loc[t].old[n][b]))
          /\ table' = AddTail(Place(Head(loc[t].old[n][b]))[1], Head(loc[t].old[n][b]))
          /\ Local(t, [loc[t] EXCEPT !.old =
                          [loc[t].old EXCEPT ![n][b] = Tail(loc[t].old[n][b])]])
  BY DEF RehashNode
<1> DEFINE old == loc[t].old
           s == old[n][b]
           k == s[1]
           new == With(old, n, b, RemoveAt(s, 1))
<1>3. /\ old \in Tables /\ Once(old) /\ KeysOf(old) \intersect KeysOf(table) = {}
      /\ Contents
  BY <1>1 DEF TableInv, RehashOf
<1>4. s \in Seq(Key) /\ s # <<>>
  BY <1>2, <1>3 DEF NextList, Tables
<1>5. 1 \in 1..Len(s) /\ Head(s) = k /\ Tail(s) = RemoveAt(s, 1)
  BY <1>4, TailFacts
<1>6. k \in Key /\ k \in KeysOf(old) /\ k \notin KeysOf(table)
  BY <1>3, <1>5, InTable
<1>7. new \in Tables /\ Once(new) /\ KeysOf(new) = KeysOf(old) \ {k}
  <2>1. ASSUME NEW tab \in Tables, Once(tab), 1 \in 1..Len(tab[n][b])
        PROVE  /\ With(tab, n, b, RemoveAt(tab[n][b], 1)) \in Tables
               /\ Once(With(tab, n, b, RemoveAt(tab[n][b], 1)))
               /\ KeysOf(With(tab, n, b, RemoveAt(tab[n][b], 1))) =
                      KeysOf(tab) \ {tab[n][b][1]}
    BY ONLY <2>1, n \in No, b \in Bucket, Take
  <2> HIDE DEF old
  <2> QED
    BY <1>3, <1>5, <2>1
<1>8. Local(t, [loc[t] EXCEPT !.old = new])
  BY <1>2, <1>5 DEF With
<1>9. Sets(loc, loc', t, [loc[t] EXCEPT !.old = new])
  BY <1>8 DEF Local, Sets
<1>10. table' = AddTail(Place(k)[1], k) /\ ~Full(k)
  BY <1>2, <1>5
<1> HIDE DEF new, k, s
<1>11. Place(k)[1] \in No /\ Room(Place(k)[1], k, params.probe)
  BY <1>3, <1>6, <1>10, PlaceFacts DEF Full
<1>12. /\ table' \in Tables /\ Once(table') /\ KeysOf(table') = KeysOf(table) \union {k}
       /\ Filed(table', table_size) /\ Short(table', params.probe)
  BY <1>3, <1>6, <1>10, <1>11, PutNode
<1>13. /\ KeysOf(new) \intersect KeysOf(table') = {}
       /\ KeysOf(table') \union KeysOf(new) = KeysOf(table) \union KeysOf(old)
  BY <1>3, <1>6, <1>7, <1>12
<1> QED
  BY <1>1, <1>7, <1>9, <1>12, <1>13

LEMMA RehashNodeTable ==
    ASSUME TableInv, Inv', NEW t \in Threads, RehashNode(t)
    PROVE  TableInv'
<1>1. PICK old \in Tables :
          /\ pc[t] = "rehash" /\ Sets(pc, pc', t, "rehash")
          /\ Sets(loc, loc', t, [loc[t] EXCEPT !.old = old])
          /\ Sets(seen, seen', t, seen[t]) /\ UNCHANGED <<params, table_size>>
          /\ Once(old) /\ table' \in Tables /\ Once(table')
          /\ Filed(table', table_size) /\ Short(table', params.probe)
          /\ KeysOf(old) \intersect KeysOf(table') = {}
          /\ KeysOf(table') \union KeysOf(old) = KeysOf(table) \union KeysOf(loc[t].old)
  BY RehashNodeFacts
<1> DEFINE r == [loc[t] EXCEPT !.old = old]
<1>2. /\ r.op = loc[t].op /\ r.n = loc[t].n /\ r.round = loc[t].round /\ r.i = loc[t].i
      /\ r.hi = loc[t].hi /\ r.grow = loc[t].grow /\ r.ok = loc[t].ok /\ r.old = old
  BY AnswerFacts
<1>3. Sets(loc, loc', t, r)
  BY <1>1
<1> HIDE DEF r
<1>4. /\ Others(t) /\ DOMAIN seen' = Threads /\ pc'[t] = "rehash" /\ loc'[t] = r
  BY <1>1, <1>3, OwnStep
<1>5. AnswerOf(t)'
  BY <1>1, <1>2, <1>4, AnswerFacts DEF AnswerOf, Looked, Acquiring, Resizing
<1>6. Contents'
  BY <1>1, <1>4, NewContents DEF TableInv
<1>7. RehashOf(t)'
  <2>1. Sparse(KeysOf(table) \union KeysOf(loc[t].old), table_size, params.probe)
    BY <1>1 DEF TableInv, RehashOf
  <2>2. Sparse(KeysOf(table') \union KeysOf(old), table_size', params'.probe)
    BY <1>1, <2>1
  <2> QED
    BY <1>1, <1>2, <1>4, <2>2 DEF RehashOf
<1>8. pc[t] \in Resizing
  BY <1>1 DEF Resizing
<1> QED
  BY <1>4, <1>5, <1>6, <1>7, <1>8, TableStep

-----------------------------------------------------------------------------
(* The lists: what they hold *)

LEMMA TellsStart == Tells(mtx_size)
<1>1. 65699 \in Nat /\ 65699 % 2 = 1 /\ 65701 \in Nat /\ 65701 % 2 = 1
  OBVIOUS
<1>2. mtx_size \in Nat \ {0} /\ \A d \in 1..mtx_size : mtx_size % d = 0 => d = 1 \/ d % 2 = 0
  BY CuckooAssumption DEF PowerOfTwo
<1>3. ASSUME NEW c \in Nat, c % 2 = 1
      PROVE  Cancels(c, mtx_size)
  BY <1>2, <1>3, CancelsPower
<1> QED
  BY <1>1, <1>3 DEF Tells

LEMMA InitTable == Init => TableInv
<1> SUFFICES ASSUME Init
             PROVE  TableInv
  OBVIOUS
<1>1. Inv
  BY InitInv
<1>2. table = Empty
  BY DEF Init, Empty
<1>3. params \in Params /\ table_size = mtx_size /\ DOMAIN seen = Threads
  BY DEF Init
<1>4. params.probe \in Nat /\ mtx_size \in mtx_size..MaxTable
  BY <1>3, Bounds, CuckooAssumption
<1>5. Contents
  BY <1>2, <1>3, <1>4, EmptyTables, TellsStart DEF Contents
<1>6. ASSUME NEW t \in Threads
      PROVE  RehashOf(t) /\ AnswerOf(t)
  <2>1. pc[t] = "idle" /\ loc[t] = NoLocals
    BY DEF Init
  <2> QED
    BY <2>1, FreshAnswer, NoLocalsFields
    DEF RehashOf, AnswerOf, Looked, Acquiring, Resizing
<1> QED
  BY <1>1, <1>5, <1>6 DEF TableInv

LEMMA StutterTable ==
    ASSUME TableInv, Inv', UNCHANGED vars
    PROVE  TableInv'
<1>1. UNCHANGED <<params, table_size, table, pc, loc, seen>>
  BY DEF vars, shared
<1>2. Contents'
  BY <1>1 DEF TableInv, Contents
<1>3. ASSUME NEW u \in Threads
      PROVE  RehashOf(u)' /\ AnswerOf(u)'
  <2>1. RehashOf(u) /\ AnswerOf(u)
    BY DEF TableInv
  <2>2. Justified(u)' <=> Justified(u)
    BY <1>1 DEF Justified
  <2>3. AnswerOf(u)'
    BY <1>1, <2>1, <2>2 DEF AnswerOf
  <2>4. RehashOf(u)'
    BY <1>1, <2>1 DEF RehashOf
  <2> QED
    BY <2>3, <2>4
<1> QED
  BY <1>2, <1>3 DEF TableInv

LEMMA NextTable == TableInv /\ [Next]_vars => TableInv'
<1> SUFFICES ASSUME TableInv, [Next]_vars
             PROVE  TableInv'
  OBVIOUS
<1>0. Inv'
  BY NextInv DEF TableInv
<1>1. ASSUME NEW t \in Threads, Step(t)
      PROVE  TableInv'
  BY <1>0, <1>1, LockTable, AddRefusedTable, AddNodeTable, AddNoRoomTable, DeleteNodeTable,
     FindTable, ReleaseTable, ChoosesTable, RelocateMoveTable,
     ALockTable, SwapTable, RehashNodeTable, RehashEndTable, AUnLockTable, ReturnTable
  DEF Step, Chooses
<1>2. ASSUME NEW t \in Threads, NEW op \in Ops, NEW k \in Key, Call(t, op, k)
      PROVE  TableInv'
  BY <1>0, <1>2, CallTable
<1>3. CASE UNCHANGED vars
  BY <1>0, <1>3, StutterTable
<1> QED
  BY <1>1, <1>2, <1>3 DEF Next

\* Where the keys are, what is rehashed, and how far every call is.
THEOREM TableInvariance == Spec => []TableInv
<1>1. Init => TableInv
  BY InitTable
<1>2. TableInv /\ [Next]_vars => TableInv'
  BY NextTable
<1> QED
  BY <1>1, <1>2, PTL DEF Spec

LEMMA TableInItsLists ==
    ASSUME TableInv
    PROVE  InItsLists
<1>0. Contents
  BY DEF TableInv
<1>1. ASSUME NEW no \in No, NEW b \in Bucket
      PROVE  LET l == table[no][b] IN
             /\ Len(l) <= params.probe
             /\ IsInjective(l)
             /\ \A k \in Range(l) :
                   /\ b = hashCode(no, k) % table_size
                   /\ ~Contains(table[1 - no][hashCode(1 - no, k) % table_size], k)
  <2>1. table[no][b] \in Seq(Key)
    BY <1>0 DEF Contents, Tables
  <2>2. Len(table[no][b]) <= params.probe
    BY <1>0 DEF Contents, Short
  <2>3. IsInjective(table[no][b])
    BY <1>0, <2>1 DEF Contents, Once, IsInjective
  <2>4. ASSUME NEW k \in Range(table[no][b])
        PROVE  /\ b = hashCode(no, k) % table_size
               /\ ~Contains(table[1 - no][hashCode(1 - no, k) % table_size], k)
    <3>1. PICK i \in 1..Len(table[no][b]) : table[no][b][i] = k
      BY <2>1 DEF Range
    <3>2. b = hashCode(no, k) % table_size
      BY <1>0, <3>1 DEF Contents, Filed
    <3>3. k \in Key /\ 1 - no \in No /\ 1 - no # no
      BY <1>0, <3>1, InTable DEF Contents, No
    <3> DEFINE c == hashCode(1 - no, k) % table_size
    <3>4. c \in Bucket
      BY <1>0, <3>3, ListOf
    <3> HIDE DEF c
    <3>5. ASSUME Contains(table[1 - no][c], k)
          PROVE  FALSE
      <4>1. table[1 - no][c] \in Seq(Key)
        BY <1>0, <3>3, <3>4 DEF Contents, Tables
      <4>2. PICK j \in 1..Len(table[1 - no][c]) : table[1 - no][c][j] = k
        BY <3>5, <4>1 DEF Contains
      <4>3. no = 1 - no
        BY <1>0, <3>1, <3>3, <3>4, <4>2 DEF Contents, Once
      <4> QED
        BY <3>3, <4>3
    <3> QED
      BY <3>2, <3>5 DEF c
  <2> QED
    BY <2>2, <2>3, <2>4
<1>2. ASSUME NEW t \in Threads, pc[t] = "rehash", NEW k \in KeysOf(loc[t].old)
      PROVE  ~Full(k)
  <2> DEFINE S == KeysOf(table) \union KeysOf(loc[t].old)
  <2>1. /\ loc[t].old \in Tables /\ KeysOf(loc[t].old) \intersect KeysOf(table) = {}
        /\ Sparse(S, table_size, params.probe)
    BY <1>2 DEF TableInv, RehashOf
  <2>2. table \in Tables /\ Once(table) /\ Filed(table, table_size) /\ Tells(table_size)
    BY <1>0 DEF Contents
  <2>3. /\ KeysOf(table) \subseteq S /\ k \in S /\ k \notin KeysOf(table) /\ S \in SUBSET Key
        /\ k \in Key
    BY <1>2, <2>1, <2>2, InTable
  <2> HIDE DEF S
  <2>4. /\ table_size \in Nat \ {0} /\ table_size <= MaxTable /\ params.probe \in Nat
    BY <1>0, SizeOf
  <2>5. PICK no \in No : Len(table[no][hashCode(no, k) % table_size]) < params.probe
    BY <2>1, <2>2, <2>3, <2>4, RoomForOne
  <2>6. Room(no, k, params.probe)
    BY <2>5 DEF Room, list
  <2> QED
    BY <2>6 DEF Full
<1> QED
  BY <1>1, <1>2 DEF InItsLists

-----------------------------------------------------------------------------
(* The types *)

Faults == {"none", "null pointer", "freed memory", "list of an old table", "no tables"}

\* What may end the program.
LEMMA FaultStep == fault \in Faults /\ [Next]_vars => fault' \in Faults
<1> SUFFICES ASSUME fault \in Faults, [Next]_vars
             PROVE  fault' \in Faults
  OBVIOUS
<1>1. ASSUME NEW why \in Faults, Fault(why)
      PROVE  fault' \in Faults
  BY <1>1 DEF Fault
<1>2. ASSUME NEW t \in Threads, Step(t)
      PROVE  UNCHANGED fault \/ \E why \in Faults : Fault(why)
  <2>1. CASE Lock0(t) \/ Lock1(t) \/ AddNode(t) \/ AddNoRoom(t) \/ DeleteNode(t) \/ Release(t)
    BY <2>1 DEF Lock0, Lock1, AddNode, AddNoRoom, DeleteNode, Release
  <2>2. CASE \/ AddRefused(t) \/ FindNode(t) \/ RelocateTable(t) \/ RelocateHead(t)
             \/ Return(t)
    BY <2>2 DEF AddRefused, FindNode, RelocateTable, RelocateHead, Return, shared
  <2>3. CASE RelocateList(t) \/ RelocateKey(t) \/ RelocateHash(t)
    BY <2>3 DEF RelocateList, RelocateKey, RelocateHash, Faults, shared
  <2>4. CASE RelocateMove(t)
    BY <2>4 DEF RelocateMove, Faults
  <2>5. CASE Swap(t)
    BY <2>5 DEF Swap, Faults
  <2>6. CASE ALock(t) \/ RehashNode(t) \/ RehashEnd(t) \/ AUnLock(t)
    BY <2>6 DEF ALock, RehashNode, RehashEnd, AUnLock, shared
  <2> QED
    BY <1>2, <2>1, <2>2, <2>3, <2>4, <2>5, <2>6 DEF Step
<1>3. ASSUME NEW t \in Threads, NEW op \in Ops, NEW k \in Key, Call(t, op, k)
      PROVE  UNCHANGED fault
  BY <1>3 DEF Call, shared
<1>4. CASE UNCHANGED vars
  BY <1>4 DEF vars, shared
<1> QED
  BY <1>1, <1>2, <1>3, <1>4 DEF Next

LEMMA TableTypeOK ==
    ASSUME TableInv, fault \in Faults
    PROVE  TypeOK
<1>0. Contents /\ Inv
  BY DEF TableInv
<1>1. params \in Params /\ table_size \in mtx_size..MaxTable
  BY <1>0 DEF Contents
<1>2. \A no \in No, b \in Bucket : Range(table[no][b]) \subseteq Key
  <2>1. \A no \in No, b \in Bucket : table[no][b] \in Seq(Key)
    BY <1>0 DEF Contents, Tables
  <2> QED
    BY <2>1 DEF Range
<1>3. DOMAIN mtx = Mutex /\ Range(mtx) \subseteq Threads \union {NULL}
  BY <1>0 DEF Inv, Typed, Range
<1>4. \A t \in Threads : /\ pc[t] \in Steps /\ DOMAIN loc[t] = DOMAIN NoLocals
                         /\ loc[t].round \in 0..LIMIT /\ loc[t].n \in 0..(2 * mtx_size)
  <2> SUFFICES ASSUME NEW t \in Threads
               PROVE  /\ pc[t] \in Steps /\ DOMAIN loc[t] = DOMAIN NoLocals
                      /\ loc[t].round \in 0..LIMIT /\ loc[t].n \in 0..(2 * mtx_size)
    OBVIOUS
  <2>1. pc[t] \in Steps
    BY <1>0 DEF Inv, Typed
  <2>2. DOMAIN loc[t] = DOMAIN NoLocals
    BY <1>0 DEF Inv, Knows, KnowsOf
  <2> QED
    BY <2>1, <2>2, AnswerFacts DEF AnswerOf
<1>5. \A m \in Mutex : mtx[m] # NULL =>
          \/ pc[mtx[m]] \in {"lock1"} \union Guarded /\ m \in Held(loc[mtx[m]].key)
          \/ pc[mtx[m]] \in {"alock"} \union Resizing
  <2> SUFFICES ASSUME NEW m \in Mutex, mtx[m] # NULL
               PROVE  \/ pc[mtx[m]] \in {"lock1"} \union Guarded
                         /\ m \in Held(loc[mtx[m]].key)
                      \/ pc[mtx[m]] \in {"alock"} \union Resizing
    OBVIOUS
  <2>1. mtx[m] \in Threads /\ Holds(mtx[m], m)
    BY <1>0, Holder
  <2>2. CASE pc[mtx[m]] = "lock1" /\ m = mutex(0, loc[mtx[m]].key)
    BY <2>2 DEF Held, No
  <2> QED
    BY <2>1, <2>2 DEF Holds
<1>6. fault \in {"none", "null pointer", "freed memory", "list of an old table", "no tables"}
  BY DEF Faults
<1> QED
  BY <1>1, <1>2, <1>3, <1>4, <1>5, <1>6, Zenon DEF TypeOK

\* The variables of hash/ConcurrentCuckooHash.c have their types, and a mutex is
\* held by a thread that is where the code holds it.
THEOREM TypeCorrect == Spec => []TypeOK
<1>1. Init => fault \in Faults
  BY DEF Init, Faults
<1>2. fault \in Faults /\ [Next]_vars => (fault \in Faults)'
  BY FaultStep
<1>3. TableInv /\ fault \in Faults => TypeOK
  BY TableTypeOK
<1> QED
  BY <1>1, <1>2, <1>3, TableInvariance, PTL DEF Spec

\* add, delete, relocate and resize leave every key in one of the two lists in
\* which contains looks for it, once, and every list as long as it may be; and
\* resize finds room for every node in the new tables, whatever was in the old.
THEOREM KeysInTheirLists == Spec => []InItsLists
<1>1. TableInv => InItsLists
  BY TableInItsLists
<1> QED
  BY <1>1, TableInvariance, PTL

-----------------------------------------------------------------------------
(* The set: the calls as it sees them *)

callOf(t) == [op |-> loc[t].op, key |-> loc[t].arg, res |-> loc[t].ok /\ Answered(t),
              done |-> Answered(t)]

CallRecord == [op : {"none", "add", "delete", "find"}, key : Key \union {0},
               done : BOOLEAN, res : BOOLEAN]

LEMMA SameRecord ==
    ASSUME NEW r \in CallRecord, NEW q \in CallRecord,
           r.op = q.op, r.key = q.key, r.done = q.done, r.res = q.res
    PROVE  r = q
  BY DEF CallRecord

LEMMA RecordOf ==
    ASSUME NEW o \in {"none", "add", "delete", "find"}, NEW k \in Key \union {0},
           NEW r \in BOOLEAN, NEW d \in BOOLEAN
    PROVE  LET c == [op |-> o, key |-> k, res |-> r, done |-> d]
           IN  c \in CallRecord /\ c.op = o /\ c.key = k /\ c.res = r /\ c.done = d
  BY DEF CallRecord

LEMMA CallFacts ==
    ASSUME TableInv, NEW t \in Threads
    PROVE  /\ SetCall[t] = callOf(t) /\ callOf(t) \in CallRecord
           /\ callOf(t).op = loc[t].op /\ callOf(t).key = loc[t].arg
           /\ callOf(t).done <=> Answered(t)
<1>1. SetCall[t] = callOf(t)
  <2>1. SetCall = [u \in Threads |-> callOf(u)]
    BY DEF SetCall, callOf
  <2> QED
    BY <2>1
<1>2. Answered(t) \in BOOLEAN
  BY DEF Answered
<1>3. loc[t].ok \in BOOLEAN
  BY AnswerFacts DEF AnswerOf
<1>4. loc[t].op \in {"none", "add", "delete", "find"} /\ loc[t].arg \in Key \union {0}
  <2>1. CASE pc[t] = "idle"
    BY <2>1, AnswerFacts, NoLocalsFields DEF AnswerOf, NoLocals
  <2>2. CASE pc[t] # "idle"
    BY <2>2, AnswerFacts DEF KnowsOf
  <2> QED
    BY <2>1, <2>2
<1>5. (loc[t].ok /\ Answered(t)) \in BOOLEAN
  OBVIOUS
<1> DEFINE r == loc[t].ok /\ Answered(t)
           d == Answered(t)
<1>6. callOf(t) = [op |-> loc[t].op, key |-> loc[t].arg, res |-> r, done |-> d]
  BY DEF callOf
<1>7. r \in BOOLEAN /\ d \in BOOLEAN
  BY <1>2
<1> HIDE DEF r, d
<1>8. /\ callOf(t) \in CallRecord
      /\ callOf(t).op = loc[t].op /\ callOf(t).key = loc[t].arg
      /\ callOf(t).done = d /\ callOf(t).res = r
  BY <1>4, <1>6, <1>7, RecordOf
<1>9. callOf(t).done <=> Answered(t)
  BY <1>8 DEF d
<1> QED
  BY <1>1, <1>8, <1>9

\* A thread that has no call, as the set sees it.
LEMMA NotCalled ==
    ASSUME NEW t \in Threads, loc[t] = NoLocals, pc[t] = "idle"
    PROVE  callOf(t) = Set!NoCall
<1>1. loc[t].op = "none" /\ loc[t].arg = 0 /\ loc[t].ok = FALSE
  BY NoLocalsFields
<1>2. Answered(t) = FALSE /\ (loc[t].ok /\ Answered(t)) = FALSE
  BY <1>1 DEF Answered
<1> QED
  BY <1>1, <1>2 DEF callOf, Set!NoCall

\* Only the call of the thread that takes the step changes.
LEMMA CallFrame ==
    ASSUME NEW t \in Threads, Others(t)
    PROVE  SetCall' = [SetCall EXCEPT ![t] = callOf(t)']
<1>1. ASSUME NEW u \in Threads, u # t
      PROVE  callOf(u)' = callOf(u)
  <2>1. Keeps(u)
    BY <1>1 DEF Others
  <2> QED
    BY <2>1 DEF Keeps, callOf, Answered
<1>2. SetCall = [u \in Threads |-> callOf(u)] /\ SetCall' = [u \in Threads |-> callOf(u)']
  BY DEF SetCall, callOf
<1> QED
  BY <1>1, <1>2

\* relocate and resize are nothing that a caller could notice.
LEMMA Unnoticed ==
    ASSUME TableInv, NEW t \in Threads, Others(t), seen' = seen, Members' = Members,
           callOf(t)' = callOf(t)
    PROVE  UNCHANGED Set!vars
<1>1. SetCall' = [SetCall EXCEPT ![t] = callOf(t)]
  BY CallFrame
<1>2. SetCall[t] = callOf(t)
  BY CallFacts
<1>3. [SetCall EXCEPT ![t] = SetCall[t]] = SetCall
  BY DEF SetCall
<1> QED
  BY <1>1, <1>2, <1>3 DEF Set!vars

\* A thread that is at the lists, or replaces them, is alone with the keys.
LEMMA MembersAlone ==
    ASSUME TableInv, NEW t \in Threads, pc[t] \in Guarded \union Resizing, Others(t)
    PROVE  /\ pc[t] = "rehash" => Members = KeysOf(table) \union KeysOf(loc[t].old)
           /\ pc[t] # "rehash" => Members = KeysOf(table)
           /\ pc'[t] = "rehash" => Members' = KeysOf(table') \union KeysOf(loc'[t].old)
           /\ pc'[t] # "rehash" => Members' = KeysOf(table')
<1>1. \A u \in Threads \ {t} : pc[u] # "rehash" /\ pc'[u] # "rehash"
  BY NoRehash DEF TableInv, Others, Keeps
<1> DEFINE R == {u \in Threads : pc[u] = "rehash"}
           S == {u \in Threads : pc'[u] = "rehash"}
<1>2. /\ Members = KeysOf(table) \union UNION {KeysOf(loc[u].old) : u \in R}
      /\ Members' = KeysOf(table') \union UNION {KeysOf(loc'[u].old) : u \in S}
  BY DEF Members, KeysOf
<1>3. /\ pc[t] = "rehash" => R = {t}
      /\ pc[t] # "rehash" => R = {}
      /\ pc'[t] = "rehash" => S = {t}
      /\ pc'[t] # "rehash" => S = {}
  BY <1>1
<1> HIDE DEF R, S
<1> QED
  BY <1>2, <1>3

LEMMA MembersKept ==
    ASSUME TableInv, NEW t \in Threads, Others(t), SameTables,
           pc[t] # "rehash", pc'[t] # "rehash"
    PROVE  Members' = Members
<1> DEFINE R == {u \in Threads : pc[u] = "rehash"}
<1>1. {u \in Threads : pc'[u] = "rehash"} = R /\ \A u \in R : loc'[u].old = loc[u].old
  BY DEF Others, Keeps
<1>2. {KeysOf(loc'[u].old) : u \in R} = {KeysOf(loc[u].old) : u \in R}
  BY <1>1
<1>3. table' = table
  BY DEF SameTables
<1> HIDE DEF R
<1>4. Members' = KeysOf(table') \union UNION {KeysOf(loc'[u].old) : u \in R}
  BY <1>1 DEF Members, KeysOf
<1>5. Members = KeysOf(table) \union UNION {KeysOf(loc[u].old) : u \in R}
  BY DEF Members, R
<1> QED
  BY <1>2, <1>3, <1>4, <1>5

-----------------------------------------------------------------------------
(* The set: its steps *)

LEMMA NewCall ==
    ASSUME NEW op \in Ops, NEW k \in Key
    PROVE  [Set!NoCall EXCEPT !.op = op, !.key = k] =
               [op |-> op, key |-> k, res |-> FALSE, done |-> FALSE]
<1> DEFINE q == [Set!NoCall EXCEPT !.op = op, !.key = k]
           r == [op |-> op, key |-> k, res |-> FALSE, done |-> FALSE]
<1>1. /\ Set!NoCall \in CallRecord
      /\ Set!NoCall.done = FALSE /\ Set!NoCall.res = FALSE
  BY DEF Set!NoCall, CallRecord
<1>2. op \in {"none", "add", "delete", "find"}
  BY CuckooAssumption
<1>3. q \in CallRecord /\ r \in CallRecord
  BY <1>1, <1>2 DEF CallRecord
<1>4. q.op = op /\ q.key = k /\ q.done = FALSE /\ q.res = FALSE
  BY <1>1 DEF CallRecord
<1> QED
  BY <1>3, <1>4, SameRecord

LEMMA DoneCall ==
    ASSUME NEW c \in CallRecord, NEW x \in BOOLEAN
    PROVE  [c EXCEPT !.done = TRUE, !.res = x] =
               [op |-> c.op, key |-> c.key, res |-> x, done |-> TRUE]
<1> DEFINE q == [c EXCEPT !.done = TRUE, !.res = x]
           r == [op |-> c.op, key |-> c.key, res |-> x, done |-> TRUE]
<1>1. q \in CallRecord /\ r \in CallRecord
  BY DEF CallRecord
<1>2. q.op = c.op /\ q.key = c.key /\ q.done = TRUE /\ q.res = x
  BY DEF CallRecord
<1> QED
  BY <1>1, <1>2, SameRecord

\* A step that answers the call of its thread.
LEMMA FinishCall ==
    ASSUME TableInv, NEW t \in Threads, Others(t), loc'[t].op = loc[t].op,
           loc'[t].arg = loc[t].arg, Answered(t)', NEW x \in BOOLEAN, loc'[t].ok = x
    PROVE  Set!Finish(t, x)
<1> DEFINE c == SetCall[t]
<1>1. c = callOf(t) /\ c \in CallRecord /\ c.op = loc[t].op /\ c.key = loc[t].arg
  BY CallFacts
<1>2. callOf(t)' = [op |-> loc[t].op, key |-> loc[t].arg, res |-> x, done |-> TRUE]
  <2>1. Answered(t)' = TRUE /\ (loc'[t].ok /\ Answered(t)') = x
    BY DEF Answered
  <2>2. callOf(t)' = [op |-> loc'[t].op, key |-> loc'[t].arg,
                      res |-> loc'[t].ok /\ Answered(t)', done |-> Answered(t)']
    BY DEF callOf
  <2> QED
    BY <2>1, <2>2
<1>3. SetCall' = [SetCall EXCEPT ![t] = callOf(t)']
  BY CallFrame
<1> HIDE DEF c
<1>4. callOf(t)' = [c EXCEPT !.done = TRUE, !.res = x]
  BY <1>1, <1>2, DoneCall
<1> QED
  BY <1>3, <1>4 DEF c, Set!Finish

LEMMA SameCall ==
    ASSUME NEW t \in Threads, loc'[t].op = loc[t].op, loc'[t].arg = loc[t].arg,
           \/ ~Answered(t) /\ ~Answered(t)'
           \/ Answered(t) /\ Answered(t)' /\ loc'[t].ok = loc[t].ok
    PROVE  callOf(t)' = callOf(t)
<1>1. Answered(t)' = Answered(t) /\ (loc'[t].ok /\ Answered(t)') = (loc[t].ok /\ Answered(t))
  BY DEF Answered
<1>2. callOf(t)' = [op |-> loc'[t].op, key |-> loc'[t].arg,
                    res |-> loc'[t].ok /\ Answered(t)', done |-> Answered(t)']
  BY DEF callOf
<1> QED
  BY <1>1, <1>2 DEF callOf

\* A call that looks for its key and finds what it will answer.
LEMMA LookAbstract ==
    ASSUME TableInv, NEW t \in Threads, pc[t] \in {"add", "delete", "find"}, Look(t),
           Sets(pc, pc', t, "release"), NEW r, Sets(loc, loc', t, r), SameTables,
           r.op = loc[t].op, r.arg = loc[t].arg, pc[t] = "find" \/ r.ok = loc[t].ok
    PROVE  Set!Look(t)
<1>1. seen' = [seen EXCEPT ![t] = @ \union
                  {IF loc[t].arg \in Members THEN "present" ELSE "absent"}]
  BY DEF Look, Meet
<1>2. Others(t) /\ pc'[t] = "release" /\ loc'[t] = r
  <2>1. \E s : Sets(seen, seen', t, s)
    BY <1>1 DEF Sets
  <2> QED
    BY <2>1, OwnStep
<1>3. loc[t].op = pc[t] /\ ~loc[t].ok
  BY AnswerFacts DEF AnswerOf
<1>4. ~Answered(t) /\ ~Answered(t)'
  BY <1>2, <1>3 DEF Answered
<1>5. /\ SetCall[t].op = loc[t].op /\ SetCall[t].key = loc[t].arg
      /\ SetCall[t].done <=> Answered(t)
  BY CallFacts
<1>6. SetCall[t] # Set!NoCall
  BY <1>3, <1>5 DEF Set!NoCall
<1>7. SetCall' = SetCall
  <2>1. callOf(t)' = callOf(t) /\ SetCall[t] = callOf(t)
    BY <1>2, <1>4, SameCall, CallFacts
  <2>2. SetCall' = [SetCall EXCEPT ![t] = SetCall[t]]
    BY <1>2, <2>1, CallFrame
  <2> QED
    BY <2>2 DEF SetCall
<1>8. Members' = Members
  BY <1>2, MembersKept
<1> QED
  BY <1>1, <1>4, <1>5, <1>6, <1>7, <1>8 DEF Set!Look

LEMMA CallAbstract ==
    ASSUME TableInv, NEW t \in Threads, NEW op \in Ops, NEW k \in Key, Call(t, op, k)
    PROVE  Set!Call(t, op, k)
<1> DEFINE r == [NoLocals EXCEPT !.op = op, !.arg = k, !.key = k]
<1>1. /\ pc[t] = "idle" /\ loc[t] = NoLocals
      /\ Sets(pc, pc', t, "lock0") /\ Sets(loc, loc', t, r)
      /\ Sets(seen, seen', t, seen[t]) /\ SameTables /\ seen' = seen
  BY AnswerFacts DEF AnswerOf, Call, At, Goto, Local, shared, SameTables, Sets
<1>2. r.op = op /\ r.arg = k /\ r.ok = FALSE
  BY Fields, NoLocalsFields
<1> HIDE DEF r
<1>3. Others(t) /\ pc'[t] = "lock0" /\ loc'[t] = r
  BY <1>1, OwnStep
<1>4. Members' = Members
  BY <1>1, <1>3, MembersKept
<1>5. SetCall[t] = Set!NoCall
  BY <1>1, CallFacts, NotCalled
<1>6. callOf(t)' = [Set!NoCall EXCEPT !.op = op, !.key = k]
  <2>1. Answered(t)' = FALSE /\ (loc'[t].ok /\ Answered(t)') = FALSE
    BY <1>2, <1>3 DEF Answered
  <2>2. callOf(t)' = [op |-> loc'[t].op, key |-> loc'[t].arg,
                      res |-> loc'[t].ok /\ Answered(t)', done |-> Answered(t)']
    BY DEF callOf
  <2>3. callOf(t)' = [op |-> op, key |-> k, res |-> FALSE, done |-> FALSE]
    BY <1>2, <1>3, <2>1, <2>2
  <2> QED
    BY <2>3, NewCall
<1>7. SetCall' = [SetCall EXCEPT ![t] = [Set!NoCall EXCEPT !.op = op, !.key = k]]
  <2>1. SetCall' = [SetCall EXCEPT ![t] = callOf(t)']
    BY <1>3, CallFrame
  <2> QED
    BY <1>6, <2>1
<1>8. seen' = seen
  BY <1>1
<1> QED
  BY <1>4, <1>5, <1>7, <1>8 DEF Set!Call

LEMMA AddRefusedAbstract ==
    ASSUME TableInv, NEW t \in Threads, AddRefused(t)
    PROVE  Set!Look(t) \/ Set!RunOut(t)
<1>1. /\ pc[t] = "add" /\ Sets(pc, pc', t, "release") /\ Sets(loc, loc', t, loc[t])
      /\ SameTables
  BY DEF AddRefused, At, Goto, SameTables, Sets, shared
<1>2. Look(t) \/ Meet(t, NoMemory)
  BY DEF AddRefused, NoMemory
<1>3. CASE Look(t)
  BY <1>1, <1>3, LookAbstract
<1>4. CASE Meet(t, NoMemory)
  <2>1. seen' = [seen EXCEPT ![t] = @ \union {NoMemory}]
    BY <1>4 DEF Meet
  <2>2. Sets(seen, seen', t, seen[t] \union {NoMemory})
    BY <2>1 DEF Sets
  <2>3. Others(t) /\ pc'[t] = "release" /\ loc'[t] = loc[t]
    BY <1>1, <2>2, OwnStep
  <2>4. loc[t].op = "add" /\ ~loc[t].ok
    BY <1>1, AnswerFacts DEF AnswerOf
  <2>5. ~Answered(t) /\ ~Answered(t)'
    BY <1>1, <2>3, <2>4 DEF Answered
  <2>6. /\ SetCall[t] = callOf(t) /\ SetCall[t].op = "add" /\ ~SetCall[t].done
    BY <2>4, <2>5, CallFacts
  <2>7. SetCall' = SetCall
    <3>1. callOf(t)' = SetCall[t]
      BY <2>3, <2>5, <2>6, SameCall
    <3>2. SetCall' = [SetCall EXCEPT ![t] = SetCall[t]]
      BY <2>3, <3>1, CallFrame
    <3> QED
      BY <3>2 DEF SetCall
  <2>8. Members' = Members
    BY <1>1, <2>3, MembersKept
  <2>9. Set!Pending(t, "add")
    BY <2>6 DEF Set!Pending
  <2> QED
    BY <2>1, <2>7, <2>8, <2>9, Zenon DEF Set!RunOut, NoMemory
<1> QED
  BY <1>2, <1>3, <1>4

LEMMA AddNodeAbstract ==
    ASSUME TableInv, NEW t \in Threads, AddNode(t)
    PROVE  Set!Add(t)
<1> DEFINE k == loc[t].arg
           p == Place(k)
           h == hashCode(p[1], k) % table_size
           q == [loc[t] EXCEPT !.ok = TRUE, !.ret = TRUE, !.round = 1, !.i = p[1],
                               !.hi = h]
           d == [loc[t] EXCEPT !.ok = TRUE, !.ret = TRUE]
<1>1. /\ pc[t] = "add" /\ k \in Key /\ k \notin KeysOf(table)
      /\ p[1] \in No /\ p[2] \in BOOLEAN /\ Room(p[1], k, params.probe)
      /\ table' = AddTail(p[1], k) /\ Sets(seen, seen', t, {})
      /\ IF p[2] THEN Local(t, q) /\ Goto(t, "head") ELSE Local(t, d) /\ Goto(t, "ret")
  BY AddNodeFacts
<1>2. seen' = [seen EXCEPT ![t] = {}]
  BY DEF AddNode
<1>3. /\ q.op = loc[t].op /\ q.arg = loc[t].arg /\ q.ok = TRUE
      /\ d.op = loc[t].op /\ d.arg = loc[t].arg /\ d.ok = TRUE
  BY AnswerFacts
<1> HIDE DEF p, h, q, d
<1>4. /\ Others(t) /\ pc'[t] # "rehash" /\ loc'[t].op = loc[t].op
      /\ loc'[t].arg = loc[t].arg /\ loc'[t].ok = TRUE
  <2>1. \/ Sets(pc, pc', t, "head") /\ Sets(loc, loc', t, q)
        \/ Sets(pc, pc', t, "ret") /\ Sets(loc, loc', t, d)
    BY <1>1 DEF Local, Goto, Sets
  <2>2. CASE Sets(pc, pc', t, "head") /\ Sets(loc, loc', t, q)
    <3>1. Others(t) /\ pc'[t] = "head" /\ loc'[t] = q
      BY <1>1, <2>2, OwnStep
    <3> QED
      BY <1>3, <3>1
  <2>3. CASE Sets(pc, pc', t, "ret") /\ Sets(loc, loc', t, d)
    <3>1. Others(t) /\ pc'[t] = "ret" /\ loc'[t] = d
      BY <1>1, <2>3, OwnStep
    <3> QED
      BY <1>3, <3>1
  <2> QED
    BY <2>1, <2>2, <2>3
<1>5. loc[t].op = "add" /\ ~loc[t].ok
  BY <1>1, AnswerFacts DEF AnswerOf
<1>6. ~Answered(t) /\ Answered(t)'
  BY <1>1, <1>4, <1>5 DEF Answered
<1>7. SetCall[t].op = "add" /\ SetCall[t].key = k /\ ~SetCall[t].done
  BY <1>5, <1>6, CallFacts
<1>8. Set!Finish(t, TRUE)
  BY <1>4, <1>6, FinishCall
<1>9. Members = KeysOf(table) /\ Members' = KeysOf(table) \union {k}
  <2>1. Members = KeysOf(table) /\ Members' = KeysOf(table')
    BY <1>1, <1>4, MembersAlone DEF Guarded
  <2>2. KeysOf(AddTail(p[1], k)) = KeysOf(table) \union {k}
    BY <1>1, PutNode DEF TableInv
  <2> QED
    BY <1>1, <2>1, <2>2
<1>10. Set!Pending(t, "add")
  BY <1>7 DEF Set!Pending
<1> QED
  BY <1>1, <1>2, <1>7, <1>8, <1>9, <1>10, Zenon DEF Set!Add

LEMMA DeleteNodeAbstract ==
    ASSUME TableInv, NEW t \in Threads, DeleteNode(t)
    PROVE  Set!Delete(t) \/ Set!Look(t)
<1>1. CASE contains_op(loc[t].arg)
  <2>1. /\ pc[t] = "delete" /\ loc[t].op = "delete" /\ loc[t].arg \in KeysOf(table)
        /\ KeysOf(table') = KeysOf(table) \ {loc[t].arg}
        /\ loc'[t] = [loc[t] EXCEPT !.ok = TRUE, !.ret = TRUE]
    BY <1>1, DeleteNodeFacts
  <2>2. Others(t) /\ pc'[t] = "ret"
    BY <1>1, DeleteNodeOthers
  <2>3. loc'[t].op = loc[t].op /\ loc'[t].arg = loc[t].arg /\ loc'[t].ok = TRUE
    BY <2>1, AnswerFacts
  <2>4. ~loc[t].ok
    BY <2>1, AnswerFacts DEF AnswerOf
  <2>5. ~Answered(t) /\ Answered(t)'
    BY <2>1, <2>2, <2>4 DEF Answered
  <2>6. SetCall[t].op = "delete" /\ SetCall[t].key = loc[t].arg /\ ~SetCall[t].done
    BY <2>1, <2>5, CallFacts
  <2>7. Set!Finish(t, TRUE)
    BY <2>2, <2>3, <2>5, FinishCall
  <2>8. Members = KeysOf(table) /\ Members' = KeysOf(table')
    BY <2>1, <2>2, MembersAlone DEF Guarded
  <2>9. seen' = [seen EXCEPT ![t] = {}]
    BY <1>1 DEF DeleteNode
  <2>10. Set!Pending(t, "delete")
    BY <2>6 DEF Set!Pending
  <2> QED
    BY <2>1, <2>6, <2>7, <2>8, <2>9, <2>10, Zenon DEF Set!Delete
<1>2. CASE ~contains_op(loc[t].arg)
  <2>1. /\ pc[t] = "delete" /\ Sets(pc, pc', t, "release") /\ Sets(loc, loc', t, loc[t])
        /\ SameTables /\ Look(t)
    BY <1>2 DEF DeleteNode, At, Goto, SameTables, Sets
  <2> QED
    BY <2>1, LookAbstract
<1> QED
  BY <1>1, <1>2

LEMMA FindAbstract ==
    ASSUME TableInv, NEW t \in Threads, FindNode(t)
    PROVE  Set!Look(t)
<1> DEFINE c == contains_op(loc[t].arg)
           r == [loc[t] EXCEPT !.ok = c, !.ret = c]
<1>1. /\ pc[t] = "find" /\ Sets(pc, pc', t, "release") /\ Sets(loc, loc', t, r)
      /\ SameTables /\ Look(t)
  BY DEF FindNode, At, Goto, Local, SameTables, Sets, shared
<1> HIDE DEF c
<1>2. r.op = loc[t].op /\ r.arg = loc[t].arg
  BY AnswerFacts
<1> HIDE DEF r
<1> QED
  BY <1>1, <1>2, LookAbstract

LEMMA ReleaseAbstract ==
    ASSUME TableInv, NEW t \in Threads, Release(t)
    PROVE  Set!Add(t) \/ Set!Delete(t) \/ Set!Find(t)
<1>1. /\ pc[t] = "release" /\ Sets(pc, pc', t, "ret") /\ Sets(loc, loc', t, loc[t])
      /\ Sets(seen, seen', t, seen[t]) /\ SameTables /\ seen' = seen
  BY DEF Release, At, Goto, SameTables, Sets
<1>2. Others(t) /\ pc'[t] = "ret" /\ loc'[t] = loc[t]
  BY <1>1, OwnStep
<1>3. Members' = Members
  BY <1>1, <1>2, MembersKept
<1>4. Justified(t) /\ loc[t].ok \in BOOLEAN /\ loc[t].op \in {"add", "delete", "find"}
  BY <1>1, AnswerFacts DEF AnswerOf, KnowsOf
<1>5. loc[t].op \in {"add", "delete"} => ~loc[t].ok
  BY <1>4 DEF Justified
<1>6. ~Answered(t) /\ Answered(t)'
  BY <1>1, <1>2, <1>5 DEF Answered
<1>7. SetCall[t].op = loc[t].op /\ ~SetCall[t].done
  BY <1>6, CallFacts
<1>8. Set!Finish(t, loc[t].ok)
  BY <1>2, <1>4, <1>6, FinishCall
<1>9. Set!Pending(t, loc[t].op)
  BY <1>7 DEF Set!Pending
<1>10. CASE loc[t].op = "add"
  <2>1. ~loc[t].ok /\ seen[t] \intersect Refusals # {}
    BY <1>4, <1>10 DEF Justified
  <2>2. loc[t].ok = FALSE
    BY <1>4, <2>1
  <2>3. seen[t] \intersect {"present", "no memory"} # {}
    BY <2>1, Zenon DEF Refusals, NoMemory
  <2>4. Set!Pending(t, "add") /\ Set!Finish(t, FALSE)
    BY <1>8, <1>9, <1>10, <2>2
  <2> QED
    BY <1>1, <1>3, <2>3, <2>4, Zenon DEF Set!Add
<1>11. CASE loc[t].op = "delete"
  <2>1. ~loc[t].ok /\ "absent" \in seen[t]
    BY <1>4, <1>11 DEF Justified
  <2>2. loc[t].ok = FALSE
    BY <1>4, <2>1
  <2>3. Set!Pending(t, "delete") /\ Set!Finish(t, FALSE)
    BY <1>8, <1>9, <1>11, <2>2
  <2> QED
    BY <1>1, <1>3, <2>1, <2>3 DEF Set!Delete
<1>12. CASE loc[t].op = "find"
  <2>1. IF loc[t].ok THEN "present" \in seen[t] ELSE "absent" \in seen[t]
    BY <1>4, <1>12 DEF Justified
  <2>2. loc[t].ok = TRUE \/ loc[t].ok = FALSE
    BY <1>4
  <2>3. Set!Pending(t, "find")
    BY <1>9, <1>12
  <2> QED
    BY <1>1, <1>3, <1>8, <2>1, <2>2, <2>3 DEF Set!Find
<1> QED
  BY <1>4, <1>10, <1>11, <1>12

LEMMA ReturnAbstract ==
    ASSUME TableInv, NEW t \in Threads, Return(t)
    PROVE  Set!Return(t)
<1>1. /\ pc[t] = "ret" /\ Sets(pc, pc', t, "idle") /\ Sets(loc, loc', t, NoLocals)
      /\ Sets(seen, seen', t, {}) /\ SameTables /\ seen' = [seen EXCEPT ![t] = {}]
  BY DEF Return, At, Goto, Local, SameTables, Sets, shared
<1>2. Others(t) /\ pc'[t] = "idle" /\ loc'[t] = NoLocals
  BY <1>1, OwnStep
<1>3. Members' = Members
  BY <1>1, <1>2, MembersKept
<1>4. SetCall[t].done
  BY <1>1, CallFacts DEF Answered
<1>5. callOf(t)' = Set!NoCall
  <2>1. loc'[t].op = "none" /\ loc'[t].arg = 0 /\ loc'[t].ok = FALSE
    BY <1>2, NoLocalsFields
  <2>2. Answered(t)' = FALSE /\ (loc'[t].ok /\ Answered(t)') = FALSE
    BY <1>2, <2>1 DEF Answered
  <2>3. callOf(t)' = [op |-> loc'[t].op, key |-> loc'[t].arg,
                      res |-> loc'[t].ok /\ Answered(t)', done |-> Answered(t)']
    BY DEF callOf
  <2> QED
    BY <2>1, <2>2, <2>3 DEF Set!NoCall
<1>6. SetCall' = [SetCall EXCEPT ![t] = Set!NoCall]
  BY <1>2, <1>5, CallFrame
<1> QED
  BY <1>1, <1>3, <1>4, <1>6 DEF Set!Return

-----------------------------------------------------------------------------
(* The set: the steps that are none of its own *)

LEMMA HiddenStep ==
    ASSUME TableInv, NEW t \in Threads, NEW l, NEW r, Sets(pc, pc', t, l),
           Sets(loc, loc', t, r), seen' = seen, pc[t] # "ret",
           l = "ret" => loc[t].op = "add" /\ loc[t].ok,
           r.op = loc[t].op, r.arg = loc[t].arg, r.ok = loc[t].ok, Members' = Members
    PROVE  UNCHANGED Set!vars
<1>1. Sets(seen, seen', t, seen[t])
  BY DEF Sets
<1>2. Others(t) /\ pc'[t] = l /\ loc'[t] = r
  BY <1>1, OwnStep
<1>3. callOf(t)' = callOf(t)
  BY <1>2, SameCall DEF Answered
<1> QED
  BY <1>2, <1>3, Unnoticed

LEMMA QuietHidden ==
    ASSUME TableInv, NEW t \in Threads, NEW l, NEW r, Sets(pc, pc', t, l),
           Sets(loc, loc', t, r), seen' = seen, pc[t] \notin {"ret", "rehash"},
           l # "rehash", l = "ret" => loc[t].op = "add" /\ loc[t].ok,
           r.op = loc[t].op, r.arg = loc[t].arg, r.ok = loc[t].ok, SameTables
    PROVE  UNCHANGED Set!vars
<1>1. Sets(seen, seen', t, seen[t])
  BY DEF Sets
<1>2. Others(t) /\ pc'[t] = l /\ loc'[t] = r
  BY <1>1, OwnStep
<1>3. Members' = Members
  BY <1>2, MembersKept
<1> QED
  BY <1>3, HiddenStep

LEMMA LockHidden ==
    ASSUME TableInv, NEW t \in Threads, Lock0(t) \/ Lock1(t)
    PROVE  UNCHANGED Set!vars
<1> DEFINE m == IF loc[t].round = 0 THEN loc[t].op ELSE "move"
           l == IF pc[t] = "lock0" THEN "lock1" ELSE m
<1>1. /\ pc[t] \in Acquiring /\ Sets(pc, pc', t, l) /\ SameTables
      /\ Sets(loc, loc', t, loc[t]) /\ seen' = seen
  <2>1. CASE Lock0(t)
    BY <2>1 DEF Lock0, At, Goto, SameTables, Acquiring, Sets
  <2>2. CASE Lock1(t)
    BY <2>2 DEF Lock1, At, Goto, SameTables, Acquiring, Sets
  <2> QED
    BY <2>1, <2>2
<1>2. loc[t].op \in {"add", "delete", "find"}
  BY <1>1, AnswerFacts DEF KnowsOf, Acquiring
<1>3. l # "rehash" /\ l # "ret"
  BY <1>2
<1> HIDE DEF m, l
<1> QED
  BY <1>1, <1>3, QuietHidden DEF Acquiring

LEMMA AddNoRoomHidden ==
    ASSUME TableInv, NEW t \in Threads, AddNoRoom(t)
    PROVE  UNCHANGED Set!vars
<1> DEFINE r == [loc[t] EXCEPT !.ret = TRUE, !.grow = TRUE]
<1>1. /\ pc[t] = "add" /\ Sets(pc, pc', t, "alock") /\ Sets(loc, loc', t, r)
      /\ seen' = seen /\ SameTables
  BY DEF AddNoRoom, At, Goto, Local, SameTables, Sets
<1>2. r.op = loc[t].op /\ r.arg = loc[t].arg /\ r.ok = loc[t].ok
  BY AnswerFacts
<1> HIDE DEF r
<1> QED
  BY <1>1, <1>2, QuietHidden

LEMMA FaultHidden ==
    ASSUME NEW why, Fault(why)
    PROVE  UNCHANGED Set!vars
<1>1. UNCHANGED <<table, pc, loc, seen>>
  BY DEF Fault
<1> QED
  BY <1>1 DEF Set!vars, SetCall, Answered, Members, KeysOf

LEMMA ChoosesHidden ==
    ASSUME TableInv, NEW t \in Threads, Chooses(t)
    PROVE  UNCHANGED Set!vars
<1>1. CASE \E why : Fault(why)
  BY <1>1, FaultHidden
<1>2. ASSUME NEW l, NEW r, ChoosesTo(t, l, r)
      PROVE  UNCHANGED Set!vars
  <2>1. /\ pc[t] \notin {"ret", "rehash"} /\ l \notin {"ret", "rehash"}
        /\ Sets(pc, pc', t, l) /\ Sets(loc, loc', t, r) /\ seen' = seen /\ SameTables
        /\ r.op = loc[t].op /\ r.arg = loc[t].arg /\ r.ok = loc[t].ok
    BY <1>2 DEF ChoosesTo, Chosen, SameTables, Choosing
  <2> QED
    BY <2>1, QuietHidden
<1> QED
  BY <1>1, <1>2, ChooseFacts DEF TableInv

LEMMA RelocateMoveHidden ==
    ASSUME TableInv, NEW t \in Threads, RelocateMove(t)
    PROVE  UNCHANGED Set!vars
<1> DEFINE k == loc[t].key
           i == loc[t].i
           j == 1 - i
           b == loc[t].hi
           h == hashCode(j, k) % table_size
           q == [loc[t] EXCEPT !.round = @ + 1, !.i = j, !.hi = h]
           d == [loc[t] EXCEPT !.round = 0, !.i = 0, !.hi = 0, !.ts = 0, !.y = NULL]
<1>1. CASE \E why : Fault(why)
  BY <1>1, FaultHidden
<1>2. CASE /\ pc[t] = "move" /\ Contains(table[i][b], k)
           /\ UNCHANGED <<params, table_size, seen>>
           /\ \/ /\ Room(j, k, params.threshold) \/ Room(j, k, params.probe)
                 /\ table' = Move(k, i)
              \/ table' = [table EXCEPT ![i][b] = Append(Without(@, k), k)]
           /\ Settled(t) \/ GiveUp(t) \/ NextRound(t, j, h)
  <2>1. AnswerOf(t) /\ Contents /\ i \in No /\ b \in Bucket
    BY AnswerFacts DEF AnswerOf
  <2>2. Kept(table')
    BY <1>2, <2>1, MoveKeeps
  <2>3. pc[t] = "move" /\ seen' = seen
    BY <1>2
  <2> HIDE DEF h, j
  <2>4. \/ Sets(pc, pc', t, "head") /\ Sets(loc, loc', t, q)
        \/ \E l \in {"ret", "alock"} : Sets(pc, pc', t, l) /\ Sets(loc, loc', t, d)
    BY <1>2 DEF Settled, GiveUp, Leave, NextRound, Local, Goto, Sets
  <2>5. /\ q.op = loc[t].op /\ q.arg = loc[t].arg /\ q.ok = loc[t].ok
        /\ d.op = loc[t].op /\ d.arg = loc[t].arg /\ d.ok = loc[t].ok
    BY AnswerFacts
  <2> HIDE DEF k, i, b, q, d
  <2>6. PICK l \in {"head", "ret", "alock"}, r \in {q, d} :
            Sets(pc, pc', t, l) /\ Sets(loc, loc', t, r)
    BY <2>4
  <2>7. Others(t) /\ pc'[t] = l
    <3>1. Sets(seen, seen', t, seen[t])
      BY <2>3 DEF Sets
    <3> QED
      BY <2>6, <3>1, OwnStep
  <2>8. Members' = Members
    <3>1. Members = KeysOf(table) /\ Members' = KeysOf(table')
      BY <2>3, <2>6, <2>7, MembersAlone DEF Guarded
    <3> QED
      BY <2>2, <3>1 DEF Kept
  <2>9. loc[t].op = "add" /\ loc[t].ok
    BY <2>1, <2>3 DEF AnswerOf
  <2>10. r.op = loc[t].op /\ r.arg = loc[t].arg /\ r.ok = loc[t].ok
    BY <2>5, <2>6
  <2> QED
    BY <2>3, <2>6, <2>8, <2>9, <2>10, HiddenStep
<1> QED
  BY <1>1, <1>2, RelocateMoveCases

LEMMA ALockHidden ==
    ASSUME TableInv, NEW t \in Threads, ALock(t)
    PROVE  UNCHANGED Set!vars
<1> DEFINE l == IF loc[t].n + 1 < 2 * mtx_size THEN "alock" ELSE "swap"
           r == [loc[t] EXCEPT !.n = @ + 1]
<1>1. /\ pc[t] = "alock" /\ Sets(pc, pc', t, l) /\ Sets(loc, loc', t, r)
      /\ seen' = seen /\ SameTables
  BY DEF ALock, At, Goto, Local, SameTables, Sets
<1>2. l # "rehash" /\ l # "ret"
  OBVIOUS
<1>3. r.op = loc[t].op /\ r.arg = loc[t].arg /\ r.ok = loc[t].ok
  BY AnswerFacts
<1> HIDE DEF l, r
<1> QED
  BY <1>1, <1>2, <1>3, QuietHidden

LEMMA AUnLockHidden ==
    ASSUME TableInv, NEW t \in Threads, AUnLock(t)
    PROVE  UNCHANGED Set!vars
<1> DEFINE l == IF loc[t].grow THEN "lock0" ELSE "ret"
           r == [loc[t] EXCEPT !.grow = FALSE, !.n = 0, !.key = loc[t].arg]
<1>1. /\ pc[t] = "aunlock" /\ Sets(pc, pc', t, l) /\ Sets(loc, loc', t, r)
      /\ seen' = seen /\ SameTables
  BY DEF AUnLock, AfterResize, At, Goto, Local, SameTables, Sets
<1>2. loc[t].op = "add" /\ loc[t].grow = ~loc[t].ok /\ loc[t].ok \in BOOLEAN
  BY <1>1, AnswerFacts DEF AnswerOf, Resizing
<1>3. l # "rehash" /\ (l = "ret" => loc[t].op = "add" /\ loc[t].ok)
  BY <1>2
<1>4. r.op = loc[t].op /\ r.arg = loc[t].arg /\ r.ok = loc[t].ok
  BY AnswerFacts
<1> HIDE DEF l, r
<1> QED
  BY <1>1, <1>3, <1>4, QuietHidden

\* No key is in the new tables yet: the old ones have them all.
LEMMA SwapHidden ==
    ASSUME TableInv, NEW t \in Threads, Swap(t)
    PROVE  UNCHANGED Set!vars
<1> DEFINE r == [loc[t] EXCEPT !.old = table]
<1>1. CASE \E why : Fault(why)
  BY <1>1, FaultHidden
<1>2. CASE ~\E why : Fault(why)
  <2>1. /\ pc[t] = "swap" /\ table' = Empty /\ Sets(pc, pc', t, "rehash")
        /\ loc'[t] = r /\ (\A u \in Threads \ {t} : Renews(u))
        /\ Sets(seen, seen', t, seen[t])
    BY <1>2, SwapCases
  <2>2. seen' = seen
    BY <1>2 DEF Swap
  <2>3. r.op = loc[t].op /\ r.arg = loc[t].arg /\ r.ok = loc[t].ok /\ r.old = table
    BY AnswerFacts
  <2> HIDE DEF r
  <2>4. Others(t) /\ pc'[t] = "rehash" /\ loc'[t] = r
    BY <2>1, RenewingStep
  <2>5. Members = KeysOf(table) /\ Members' = KeysOf(table') \union KeysOf(r.old)
    BY <2>1, <2>4, MembersAlone DEF Resizing
  <2>6. Members' = Members
    BY <2>1, <2>3, <2>5, EmptyTables
  <2>7. callOf(t)' = callOf(t)
    BY <2>1, <2>3, <2>4, SameCall DEF Answered
  <2> QED
    BY <2>2, <2>4, <2>6, <2>7, Unnoticed
<1> QED
  BY <1>1, <1>2

LEMMA RehashNodeHidden ==
    ASSUME TableInv, NEW t \in Threads, RehashNode(t)
    PROVE  UNCHANGED Set!vars
<1>1. PICK old \in Tables :
          /\ pc[t] = "rehash" /\ Sets(pc, pc', t, "rehash")
          /\ Sets(loc, loc', t, [loc[t] EXCEPT !.old = old])
          /\ Sets(seen, seen', t, seen[t])
          /\ KeysOf(table') \union KeysOf(old) = KeysOf(table) \union KeysOf(loc[t].old)
  BY RehashNodeFacts
<1> DEFINE r == [loc[t] EXCEPT !.old = old]
<1>2. r.op = loc[t].op /\ r.arg = loc[t].arg /\ r.ok = loc[t].ok /\ r.old = old
  BY AnswerFacts
<1>3. Sets(loc, loc', t, r)
  BY <1>1
<1>4. seen' = seen
  BY DEF RehashNode
<1> HIDE DEF r
<1>5. Others(t) /\ pc'[t] = "rehash" /\ loc'[t] = r
  BY <1>1, <1>3, OwnStep
<1>6. /\ Members = KeysOf(table) \union KeysOf(loc[t].old)
      /\ Members' = KeysOf(table') \union KeysOf(r.old)
  BY <1>1, <1>5, MembersAlone DEF Resizing
<1>7. Members' = Members
  BY <1>1, <1>2, <1>6
<1> QED
  BY <1>1, <1>2, <1>3, <1>4, <1>7, HiddenStep

\* The old tables are empty when they are thrown away.
LEMMA RehashEndHidden ==
    ASSUME TableInv, NEW t \in Threads, RehashEnd(t)
    PROVE  UNCHANGED Set!vars
<1> DEFINE r == [loc[t] EXCEPT !.old = NULL]
<1>1. /\ pc[t] = "rehash" /\ Sets(pc, pc', t, "aunlock") /\ Sets(loc, loc', t, r)
      /\ Sets(seen, seen', t, seen[t]) /\ SameTables /\ seen' = seen
      /\ \A no \in No, b \in Bucket : loc[t].old[no][b] = <<>>
  BY DEF RehashEnd, At, Goto, Local, SameTables, Sets, shared
<1>2. r.op = loc[t].op /\ r.arg = loc[t].arg /\ r.ok = loc[t].ok
  BY AnswerFacts
<1> HIDE DEF r
<1>3. Others(t) /\ pc'[t] = "aunlock" /\ loc'[t] = r
  BY <1>1, OwnStep
<1>4. KeysOf(loc[t].old) = {}
  <2>1. loc[t].old \in Tables
    BY <1>1 DEF TableInv, RehashOf
  <2>2. \A no \in No, b \in Bucket : Len(loc[t].old[no][b]) = 0
    BY <1>1
  <2> QED
    BY <2>1, <2>2, InTable
<1>5. /\ Members = KeysOf(table) \union KeysOf(loc[t].old)
      /\ Members' = KeysOf(table')
  BY <1>1, <1>3, MembersAlone DEF Resizing
<1>6. Members' = Members
  BY <1>1, <1>4, <1>5 DEF SameTables
<1> QED
  BY <1>1, <1>2, <1>6, HiddenStep

-----------------------------------------------------------------------------
(* The set: the table implements it *)

LEMMA AbstractInit == Init => Set!Init
<1> SUFFICES ASSUME Init
             PROVE  Set!Init
  OBVIOUS
<1>1. SetCall = [t \in Threads |-> Set!NoCall]
  <2>1. \A t \in Threads : callOf(t) = Set!NoCall
    BY NotCalled DEF Init
  <2>2. SetCall = [t \in Threads |-> callOf(t)]
    BY DEF SetCall, callOf
  <2> QED
    BY <2>1, <2>2
<1>2. seen = [t \in Threads |-> {}]
  BY DEF Init
<1>3. Members = {}
  <2>1. table = Empty /\ \A t \in Threads : pc[t] # "rehash"
    BY DEF Init, Empty
  <2> QED
    BY <2>1, EmptyTables DEF Members
<1> QED
  BY <1>1, <1>2, <1>3 DEF Set!Init

LEMMA AbstractStep == TableInv /\ [Next]_vars => [Set!Next]_(Set!vars)
<1> SUFFICES ASSUME TableInv, [Next]_vars
             PROVE  Set!Next \/ UNCHANGED Set!vars
  OBVIOUS
<1>1. ASSUME NEW t \in Threads, Step(t)
      PROVE  \/ Set!Look(t) \/ Set!RunOut(t) \/ Set!Add(t) \/ Set!Delete(t) \/ Set!Find(t)
             \/ Set!Return(t) \/ UNCHANGED Set!vars
  BY <1>1, AddRefusedAbstract, AddNodeAbstract, DeleteNodeAbstract, FindAbstract,
     ReleaseAbstract, ReturnAbstract, LockHidden, AddNoRoomHidden, ChoosesHidden,
     RelocateMoveHidden, ALockHidden, AUnLockHidden, SwapHidden, RehashNodeHidden,
     RehashEndHidden
  DEF Step, Chooses
<1>2. ASSUME NEW t \in Threads, NEW op \in Ops, NEW k \in Key, Call(t, op, k)
      PROVE  Set!Next
  <2>1. op \in {"add", "delete", "find"} /\ Set!Call(t, op, k)
    BY <1>2, CallAbstract, CuckooAssumption
  <2> QED
    BY <2>1 DEF Set!Next
<1>3. CASE UNCHANGED vars
  <2>1. UNCHANGED <<table, pc, loc, seen>>
    BY <1>3 DEF vars, shared
  <2> QED
    BY <2>1 DEF Set!vars, SetCall, Answered, Members, KeysOf
<1> QED
  BY <1>1, <1>2, <1>3 DEF Next, Set!Next

\* hash/ConcurrentCuckooHash.c is a set of keys that every call reads or changes
\* at one instant: every step of a call is a step of the set, or changes nothing
\* a caller could notice, so that a key is never out of the set while relocate
\* moves it or resize rehashes it.
THEOREM ActsOnASet == Spec => AtomicSet
<1>1. Init => Set!Init
  BY AbstractInit
<1>2. TableInv /\ [Next]_vars => [Set!Next]_(Set!vars)
  BY AbstractStep
<1> QED
  BY <1>1, <1>2, TableInvariance, PTL DEF Spec, AtomicSet, Set!Spec

=============================================================================
