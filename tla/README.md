# Pers-DS in TLA+

The repository is a collection: concurrent data structures in C, example
programs and libraries for persistent memory, a few experiments, and whole
third-party projects kept beside them. It has no program that runs all of it.
This directory holds a TLA+ model for each part of the collection whose
correctness depends on interleavings or on failures, beginning with the
collection's own small programs, with TLC runs that check the models on small
instances and TLAPS proofs for every instance.

Paths below are relative to `src/`. Line numbers are in `PROJECT.json`, which
maps each definition to the code it models.

## 1. Inventory

### `AlgorithmCollection-master/queue`

| component | state | operations | what is hard | what makes it correct |
|---|---|---|---|---|
| `CASLockFreeQueue.c` | `head`, `tail` (a count and a pointer each), linked nodes | `init_queue`, `enq`, `deq`, `cas` | Michael and Scott's algorithm: every load is separate, a `pointer_t` is copied in two loads, `tail` lags, threads help each other | one list in order of linking; head never passes tail; no null pointer is followed; linearizable to a FIFO queue; lock-free |
| `LLSCLockFreeQueue.c` | `head`, `tail` as software LL/SC variables, entry and exit tags | `LL`, `SC`, `transfer`, `release`, `unlink`, `enq`, `deq` | versions, transferred counts, memory freed by the last one out; a `cas` of 8 bytes on a 12-byte tag | linearizable to a FIFO queue; references counted; no use after free; lock-free |
| `stub.c` | counters under two mutexes, `sum[]`, `check[]` | `workbench`, `worker_thread`, `master_thread` | begin barrier, end condition, freeing the queue | the verdict is OK, the queue is freed after its last use, the bench ends |

### `AlgorithmCollection-master/hash`

| component | state | operations | what is hard | what makes it correct |
|---|---|---|---|---|
| `StripedHash.c` | buckets, `table_size`, `setSize`, an array of mutexes | `add`, `delete`, `find`, `policy`, `resize` | sizes and bucket numbers read before the lock; counter under several mutexes; resize under all of them | atomic operations on a set; keys in their buckets; no deadlock |
| `RefinableHash.c` | the same, each bucket with its mutex | the same | mutexes in the array that resize replaces | the same, and mutual exclusion across a resize |
| `ConcurrentCuckooHash.c` | two tables of short lists, two arrays of mutexes | `add`, `delete`, `find`, `relocate`, `resize` | relocation that chooses its victim without a lock, lock order | the same; each key in one list; room for every key; no deadlock |
| `Hash.c`, `OpenAddressHash.c`, `CuckooHash.c` | one table | `add`, `delete`, `find`, `resize` | probing and displacement (sequential) | operations on a set |
| `stub.c` | as the queue's | | | |

### `linux-examples-master`

| component | state | operations | what is hard | what makes it correct |
|---|---|---|---|---|
| `libpmem` | a mapping; a choice of `pmem_cl.c`, `pmem_msync.c`, `pmem_fit.c` | `pmem_map`, `pmem_persist`, `pmem_flush_cache`, `pmem_drain` | what is durable when; page granularity of msync | what was persisted survives |
| `libpmemalloc` | clumps with sizes and states, on lists, in a mapped file | `pmemalloc_init`, `_reserve`, `_onactive`, `_onfree`, `_activate`, `_free`; recovery and coalescing | a failure between any two instructions | no leak, no dangling pointer, atomic activation and release |
| `binarytree` | a tree over `libpmemalloc` | `tree_insert`, `tree_walk`, `tree_free` | the same, through pointers in the pool | the blocks in use are the tree; every inserted word is counted once, durably |
| `icount` | a traced process | fork, ptrace loop, kill at an instruction | two processes and signals | the count; it ends |
| `basic`, `trivial`, `util`, tests | | straight-line examples, argument parsing, logging | | |

### The rest

`mytestCode` has a writer and a reader of a mapped file and a linear-probing
set. `Atlas-master`, `nvml-master`, `nvthreads-master` and `Mnemosyne-master`
are third-party projects, copied in.

### How the parts interact

The bench of a queue or a hash table creates threads that call the structure
through its public functions only; the structures share memory and nothing
else. A program of `binarytree` calls the allocator through its public
functions. The allocator calls `pmem_persist` of libpmem and is called by one
thread of the tree programs; it meets its own past through the file, in
`pmemalloc_init`.

## 2. Modules

| module | what it is |
|---|---|
| `FIFOQueue` | abstract: an atomic FIFO queue with calls and returns, for many threads |
| `CASLockFreeQueue` | `CASLockFreeQueue.c`, one action per access to shared memory; its properties |
| `QueueBench` | `queue/stub.c`, composed with the whole of `CASLockFreeQueue` |
| `DurableHeap` | abstract: a heap that survives failures, where activating and freeing a block also sets the pointers to it, at once |
| `PmemAlloc` | `pmemalloc.c` over `pmem_cl.c`, one action per store and per flushed cache line |
| `KeySet` | abstract: a set with `add`, `delete` and `find` that many threads call |
| `StripedHash` | `StripedHash.c`, one action per lock and per unlocked access |
| `RefinableHash` | `RefinableHash.c`, the look-up of a mutex in three steps, one action per moved node |
| `ConcurrentCuckooHash` | `ConcurrentCuckooHash.c`, one action per mutex and per load of `relocate`; implements `KeySet` |
| `LLSCLockFreeQueue` | `LLSCLockFreeQueue.c`, one action per access to shared memory; implements `FIFOQueue` |
| `WordCount` | abstract: a durable count of every word |
| `BinaryTree` | `tree.c` over `DurableHeap`, which stands for the allocator; implements `WordCount` |
| `CASLockFreeQueue_proof`, `LLSCLockFreeQueue_proof`, `StripedHash_proof`, `RefinableHash_proof`, `ConcurrentCuckooHash_proof`, `BinaryTree_proof` | for each component, its inductive invariant and what follows from it, refinements included; the bench is with the CAS queue |
| `PmemInvariant` | the allocator's inductive invariant and the notions it is made of |
| `PmemSteps` | lemmas about one store, flush or scan of the allocator, call by call |
| `PmemAlloc_proof` | its actions, and what follows |
| `MC...` | constants for TLC |

Refinements: `CASLockFreeQueue` and `LLSCLockFreeQueue` to `FIFOQueue`;
`StripedHash` and `ConcurrentCuckooHash` to `KeySet`; `PmemAlloc` to
`DurableHeap`; `BinaryTree`, which is built on `DurableHeap`, to `WordCount`.
The last two are one chain: the allocator's calls are those of the heap,
wherever a failure of either kind meets them (`MCPmemAtomic`, and the theorem
`Atomicity`), and the tree uses no more of it than that (`MCBinaryTree`, and
`CountsDurably`).

### The queue

`head`, `tail`, `next`, `val` are the memory. `pc` names the next access of
every thread, and `lhead`, `ltail`, `lnext`, `newNode` are the local variables
of `enq` and `deq`. The Makefile compiles without optimisation, so accesses
happen one by one in program order; that of x86 is strong enough, for the only
stores to shared memory are those of `cas`, which is locked. A `pointer_t` is
two words, and copying it is two loads. C does not fix the order of the loads of
a struct assignment, so a copy may begin with either word, every time anew
(`LoadWord`); the comparisons that follow are written one after the other, and
keep their order.
`chain` and `sawEmpty` are history: the nodes in the order in which they were
linked, and whether a `deq` saw the last node while it was at the head. The
code never reads them.

`_FREE_` is not defined in the default build, and `free_node` is empty: nodes
are never reused, and `calloc` returns a fresh node or none (`EnqNoMemory`).
For that build the comparison of `head` again in `deq` is not what keeps the
program from reading through a null pointer: the read of `tail` after `head`
does, as the invariant shows.

`QueueBench` adds the workers' program around it. A worker's step is its own
or one of `EnqStep` and `DeqStep`; a call begins and ends with `EnqCall`,
`DeqCall` and `Return` of the queue. A condition wait is an action to enter it
and one to leave it, and it may be left for no reason (`SpuriousWake`).

### The allocator

The library is single-threaded. What it does depends on memory only at the
beginning of a call and at each clump of a scan, so an action there computes
the sequence `todo` of stores and flushes to come, and `Store`, `Flush`,
`Scan` and `FileStep` take them one at a time. Memory is a function from cache
lines to contents, `mem` as a load sees it and `pm` as it is on the medium.
`Evict` may write any line back at any time; `Flush` does it for a line on
request. A `struct clump` is exactly a line. The size is counted in chunks of
64 bytes, as all sizes in a pool are, and the state in its low bits is a field
of its own. `pmemalloc_activate` computes the length to flush from a size that
still has its state bits; the one line too many is in `PersistData`.

Failures: `PowerFailure` replaces `mem` by `pm`; `Kill` ends the process and
leaves `mem`. `failures` says which of them can happen in a behaviour. After either,
`InitPool` finds the file and recovers. What a failure would leave is called
`survivor`: `pm` where power can fail, else `mem`.

The program that calls the library is part of the model: it reserves, writes,
links a block from a cell of the static area with `pmemalloc_onactive`,
activates; it names the cells that point at a block with `pmemalloc_onfree` and
frees it. It keeps to the API document: it links a block before it activates
it, offers a cell only while it is empty and not promised elsewhere, and frees
a block only with all the cells that point at it.

### The striped table

A bucket's list is only touched by a thread that holds its stripe (which
`StripesGuard` checks), so `chain` keeps it as a set of keys and `AddNode`,
`DeleteNode`, `FindNode` and `Rehash` are one action each. Everything that is
read or written without that protection is an action per access: `table_size`
twice before the lock, `setSize++` as a load and a store, `policy`'s two reads,
`resize`'s read, its locks one by one, the stores of `old_table_size` and
`old_bucket`, the doubling, the unlocks one by one, and after them the loads of
both again, in either order (`LoadOldBucket`, `LoadOldSize`), with which
`FreeOld` frees an array and walks to the end of it. Two resizes may mix here:
one array is freed twice, or an array is walked with the size of another one. An
array of buckets is known by its size, because sizes only double. Undefined
behaviour is recorded in `fault` and stops the program. With `OutOfMemory`,
`calloc` may fail in `create_node`, where the addition is retried and may return
false without a change (which `KeySet` allows), and in `init_bucket`. `loc`
forgets a local variable after its last use; `seen` is a history variable that
says what a call found and is there for the properties only.

### The LL/SC queue

Each end of this queue is an `LLSCvar`: two slots, of which the version says
which is current, and an entry tag of a version and a count. `LL` reads the tag
and the slot and adds one to the count; `SC` writes the other slot with `cas`,
then moves the version, whoever won, and hands the count of the old version over
to the exit tag of the node (`transfer`). `release` takes one from the exit tag.
Reading an entry tag and a slot are two actions, as in the code.

An `ExitTag` has 12 bytes; `cas` on x86-64 compares and stores 8. `Stored` is
that: the two counts are stored, the flags `nlP` and `toBeFreed` never are, and
so no node is ever freed. `NoUseAfterFree` holds for that reason and for no
other: with a `cas` that stores the whole tag (the mutant `StoredWhole`) TLC
finds a use after free, for `unlink` takes one from the count of a version that
its thread never entered (line 197). `ReferencesCounted` says that the counts
are exact up to the first such step.

`unlink` loops while the version is the one it read: a `deq` that found the
queue empty waits there for another `deq` to succeed. `UnlinkRead` is enabled
only then, since the rounds before it change nothing.

### The refinable table

`lock(ht->bucket[b].mtx)` is three steps: the array, the pointer in it, and the
mutex. `resize` moves the nodes into new buckets one by one, and it holds the
mutexes of the old buckets only, so that calls go on in the upper half of the
new table. Like the striped table it loads the old array and its size again
after the unlocks, one by one in either order. `free_bucket` destroys every
mutex of the old array, which the new array shares. What is undefined in C ends
the behaviour and is named in `fault`: a read of a freed array, of a null
pointer, of an unfinished bucket, a lock of a destroyed mutex, two threads at
one list, an unlock of somebody else's mutex. All of these are reachable. The
properties are about everything up to the first of them: mutual exclusion, and
no key lost.

There is no refinement to `KeySet` here: while `resize` moves a key, a call in
the new buckets does not find it, and answers wrongly. `KeysKept` is what
remains true of the keys themselves.

### The cuckoo table

What `acquire` protects is one action. `relocate` makes five loads before it
locks anything, and each is an action: the array of the table, the list in it,
the head of the list, its key, and the key again for the other hash. The node
may be freed before each of the loads that follow the pointer to it, and the
array before the list is loaded from it. Its `fault`s are these, a null head, a
victim that has left its list, and a list of a table that was replaced. `resize`
frees an old array but not the lists in it, and their heads go on pointing where
they did (`KeepsHead`), so that an old list gives a node that is in the new
table. The multipliers of the two hash functions, 65699 and 65701, are both odd
and table sizes are powers of two: two keys share a list of the first table
exactly when they share one of the second. Keys 1, 5 and 9 share their lists at
size 4, keys 1 and 9 at size 8, none at 16. That is why relocating helps little,
and why a resize always has room for all the keys (a part of `InItsLists`).
`resize` moves one node per action, `RehashNode`: it holds all the mutexes, but
a `relocate` that has not locked yet may load the head of a new list meanwhile.

### The tree

`call`, `live` and `cell` are the variables of `DurableHeap`: one call of the
allocator takes effect at one instant, `HeapEffect`, or never. The cells are the
root and the two pointers in each node. `count` is what a load sees and
`pcount` what the medium has; the other fields of a node are written once,
before `pmemalloc_activate` makes them durable. `on` counts the entries that
`pmemalloc_onfree` has left in a block's on list; they survive a failure.

## 3. Runs

All are exhaustive. "Violated" runs check a statement of the source's own
comments, assertions or documents that the code does not keep; the findings in
`PROJECT.json` quote it.

| run | instance | shows |
|---|---|---|
| `MCQueue` | 2 threads, 4 nodes, every addition of another value | type, list, ends, no null pointer, local knowledge, `EndsAdvance`, `RefinesFIFO`, `LockFree` |
| `MCQueueBench` | 2 workers, 2 items each | `BenchResult`, `FreedAfterUse` |
| `MCQueueBenchLive` | 2 workers, 1 item each, no symmetry | `BenchEnds` |
| `MCLLSCQueue` | 2 threads, 5 nodes, 2 values, the first addition of `v1` | `EndsFollowList`, `ReferencesCounted`, `NoUseAfterFree`, `RefinesFIFO`, `LockFreeButForEmpty` |
| `MCPmemAtomic` | 4 chunks, 2 cells, on lists of 2; power failures, or killed processes | `NoLeak`, `DataSurvives`, `FailureAtomic` |
| `MCPmemTiling` | 6 chunks, 1 cell, on lists of 1; power failures | `PoolTiled`, `CallsSettle`, `CallsReturn` |
| `MCBinaryTree` | 3 blocks, 3 words, counts to 2, on lists of 3; power failures, or killed processes | `TreeOwnsHeap`, `CountsWords` |
| `MCPmemKillThenPower` | as `MCPmemAtomic`, both failures in one behaviour | violated: `NoLeak` |
| `MCStripedSet` | 2 threads, keys 0, 1, 3, 2 stripes, tables of 2 and 4, all operations; `calloc` may fail in an addition or a resize | `InItsBucket`, `StripesGuard`, `SomeoneRuns`, `AtomicSet` |
| `MCCuckoo` | 2 threads, keys 1, 5, 9, lists of 1 or 2, tables of 4 to 16, all operations; `calloc` may fail | `InItsLists`, `ListsGuarded`, `StuckInResizeOnly`, `AtomicSet` |
| `MCRefinable` | 2 threads, keys 0, 1, 2, tables of 1 to 4, all operations; `calloc` may fail | `BucketsGuarded`, `KeysKept` |
| `MCStripedFind` | 2 threads, 2 keys, one resize | violated: `FindAnswers` |

Four more configurations are kept beside the runs; each checks one statement
and TLC finds it violated:

| configuration | module | statement |
|---|---|---|
| `MCPmemOnFree` | `MCPmemAlloc` | `OnFreeWithinLimit`: an entry left by a failed process does not count against the next one |
| `MCStripedAdd` | `MCStripedHash` | `AddAnswers`: an add fails only for a key that is there, or without memory |
| `MCStripedFree` | `MCStripedHash` | `OldTableFreedOnce` |
| `MCLLSCLockFree` | `MCLLSCQueue` | `LockFree`: some call completes whenever a thread is inside one |

What the violated ones say about the others: `AtomicSet` of the striped table
leaves out what `find` answers, and one resize leaves an addition retries; the
counterexamples of `MCStripedFind` and `MCStripedAdd` are what lies beyond
that. In the same way `NoLeak` holds under either kind of failure, and
`MCPmemKillThenPower` shows that it does not under one after the other:

1. `pmemalloc_activate` stores the state ACTIVATING and the process dies before
   it flushes it. The medium still says RESERVED.
2. The next process finds ACTIVATING, executes the on list and flushes the
   pointer.
3. The power fails. The medium has the pointer, and a RESERVED block, which
   recovery frees.

The tree inherits `OnFreeWithinLimit`: after three failures between
`pmemalloc_onfree` and `pmemalloc_free` of one node, every `tree_free` ends in
FATAL at that node (`FreeOnFree`). `CountsWords` allows it, since the process
ends, and nothing is lost.

Met while modelling, and without a run:

* `setSize++` and `setSize--` under different stripes lose updates
  (`StripedHash.c` 156 and 233), though the header calls it the number of
  nodes. The model has the lost updates; no answer depends on them.
* `delete_node` (`StripedHash.c` 198, `RefinableHash.c` 185) reads through a
  null pointer when all the keys of a bucket are smaller than the one to
  delete; in the models it is a `fault`.
* `free_bucket` (`RefinableHash.c` 359) destroys the mutexes that line 338 gave
  to the new array: after one resize, any call in one of the old buckets locks
  a destroyed mutex.
* `aLock` and `acquire` (`ConcurrentCuckooHash.c` 74 and 53) take the two arrays
  in different orders and can wait for each other for ever;
  `StuckInResizeOnly` says that there is a resize in every deadlock.
* `relocate` (`ConcurrentCuckooHash.c` 456) trusts the head of a list that it
  has not locked.
* `resize` (`ConcurrentCuckooHash.c` 376) has given the tables up before it
  knows that there is memory for new ones, and an `add` that resized returns
  true (line 550) even if its second attempt failed. `AtomicSet` is about what
  the calls did.
* `init_hashtable` (`ConcurrentCuckooHash.c` 327) initializes one mutex past the
  end of each array.
* A failure while `pmemalloc_init` creates the pool leaves a file of zeroes
  that is accepted later (`pmemalloc.c` 331, marked XXX) and in which
  `pmemalloc_reserve` stops with FATAL; in the model it is `Fatal`.
* A freed reservation keeps its on list (line 718), which an assertion of
  `pmemalloc_check` (line 872) does not expect. Nothing else reads it.

### Bounds

* Queue: the nodes bound the additions. Three nodes are the dummy and two
  more: enough for a lagging tail, for help from both sides, for an enqueuer
  that loses its `cas`, for a dequeuer that is overtaken, and for the order of
  two values. The fourth lets an end move twice between the two loads of
  a copy, in whichever order they come. The constraint `InOrder` leaves out
  behaviours that are got from one that is there by an exchange of addresses and
  a function of the values, which are only copied. When the nodes are used up
  `enq` fails, as when memory is. The theorems have no bound.
* Bench: the nodes are as many as the items and the dummy, so `calloc` never
  fails there; the verdict for a bench that ran out of memory is not checked.
* Allocator: `LastClump` chunks. Four hold two blocks or one large and a rest;
  six hold three, so that a free run of three is coalesced and a block between
  two others is freed. `PMEM_NUM_ON` is 3 in the code; with 2, a failure
  between two entries happens. There is no bound on the number of calls or of
  failures, nor of failures during recovery.
* Striped table: `MaxTable` stops resizing at that size, `Load` is 0 so that
  resizes happen early (4 in the code), and a call begins only while `setSize`
  is wrong by at most `MaxDrift` (the error of lost updates never goes away and
  would make the state space infinite). `Drifted` states stutter. With
  `MaxDrift = 0` a resize still sees a wrong `setSize`, while calls that began
  earlier go on.
* LL/SC queue: `MaxNodes` counts `init_queue`'s two nodes, so that three
  additions meet any number of deletions. The values are only copied, so
  the constraint `FirstIsV1` leaves out behaviours that differ by an exchange of
  the two from one that is there. Versions and counts need no bound of
  their own: a version moves only with a linked node.
* Tree: `MaxCount` stops insertions of a word; three nodes are the smallest tree
  with a node that has two children, and with a chain of left and right turns.
  `PMEM_NUM_ON` is the code's 3.
* Cuckoo table: `LIMIT` is 2 (8 in the code), enough for a victim to be sent to
  the other table and back. `MaxTable` stops a resize before its swap.
  `Params` has lists of one node, where an addition without room resizes, and of
  two with a threshold of one, where it relocates.
* Refinable table: `policy` may answer anything, so that a resize does not need
  five nodes per bucket. Two resizes in a row are what it takes to meet the
  array, or the mutexes, of another resize.

### Fairness

* `LockFree` assumes only that some thread that is inside a call runs. No
  thread is promised the processor, which is what lock-free means.
* `BenchEnds` assumes that each worker and the master are scheduled again and
  again, as a general-purpose scheduler does. No mutex is modelled as fair.
* `CallsReturn` assumes that the processor goes on with a call. Failures are
  never assumed to stop.
* `LockFreeButForEmpty` assumes, like `LockFree`, only that some thread that can
  go on does.

The lock-based tables get no liveness property: their retries are counted, so
that a call can fail to return only by waiting for a mutex. `SomeoneRuns` of the
striped table and `StuckInResizeOnly` of the cuckoo table are about that.

### Deadlock

TLC's check is on in every run but two. In `MCLLSCQueue` all threads may wait in
`unlink`, which `LockFreeButForEmpty` names as the only exception. In `MCCuckoo`
there is the deadlock of `acquire` and `aLock`, and the calls end at `MaxTable`;
that deadlock is in the code, and `StuckInResizeOnly` says only that ordinary
calls do not deadlock among themselves.

A table that stopped for a reason the model names, a `fault` or, in the striped
table, a resize without memory that leaves all stripes locked, stutters
(`Stopped`), which the check takes for a step. `SomeoneRuns` of the striped table
does not look at steps but at mutexes: of the threads inside a call one can take
the next mutex it wants, unless `init_bucket` has left the table without buckets.

## 4. Proofs

The theorems hold for every value of the constants that the named assumptions
of the modules allow: any threads, keys, nodes, blocks and values (finite or
not), any number of stripes and mutexes, any bound on a table. The assumptions
say what the code relies on: the null pointer is no address, no value and no
thread; the sizes the program starts with are positive, and for the cuckoo table
a power of two (`init_hashtable` takes 1 << size); keys are natural numbers.

| module | theorem | statement |
|---|---|---|
| `CASLockFreeQueue_proof` | `Invariance` | its invariant holds always |
| | `TypeCorrect`, `ListIntact`, `EndsCorrect`, `KnowledgeCorrect`, `NeverNullDeref` | each invariant of `MCQueue` |
| | `EndsOnlyAdvance` | `EndsAdvance` |
| | `QueueIsFIFO` | `Spec => RefinesFIFO`: linearizability |
| | `BenchInvariance` | the invariant of the bench holds always |
| | `FreedLast`, `BenchIsOK` | `FreedAfterUse`, `BenchResult` |
| `LLSCLockFreeQueue_proof` | `Invariance`, `TypeCorrect` | its invariant; `TypeOK` |
| | `EndsStayOnTheList` | `EndsFollowList` |
| | `NothingUsedAfterFree` | `NoUseAfterFree`, and that nothing is ever freed |
| | `EveryReferenceCounted` | `ReferencesCounted` |
| | `QueueIsFIFO` | `Spec => RefinesFIFO` |
| `StripedHash_proof` | `Invariance`, `TypeCorrect` | its invariant; `TypeOK` |
| | `KeysInTheirBuckets`, `StripesGuardBuckets` | `InItsBucket`, `StripesGuard` |
| | `NeverAllWaiting` | `SomeoneRuns` |
| | `GivesUpAfterThreeResizes` | an `add` that gives up has met three resizes |
| | `AtomicUntilEightfold` | `AtomicSet`, while the table is below eight times its first size |
| `RefinableHash_proof` | `Invariance`, `TypeCorrect` | its invariant; `TypeOK` |
| | `MutexesGuardBuckets`, `ResizeKeepsKeys` | `BucketsGuarded`, `KeysKept` |
| `ConcurrentCuckooHash_proof` | `Invariance`, `TableInvariance` | its invariants: of the mutexes, and of the lists |
| | `MutexesGuardLists`, `CallsNeverDeadlock` | `ListsGuarded`, `StuckInResizeOnly` |
| | `TypeCorrect`, `KeysInTheirLists` | `TypeOK`, `InItsLists` |
| | `ActsOnASet` | `Spec => AtomicSet`: linearizability |
| `BinaryTree_proof` | `Invariance`, `TypeCorrect` | its invariant; `TypeOK` |
| | `NothingLeaksOrDangles`, `StaysSearchTree` | `TreeOwnsHeap`, `SearchTree` |
| | `CountsDurably` | `Spec => CountsWords` |
| `PmemAlloc_proof` | `Invariance`, `Typing` | its invariant; `TypeOK` |
| | `Tiling`, `NothingLeaks` | `PoolTiled`, `NoLeak` |
| | `Settling`, `DataKept` | `CallsSettle`, `DataSurvives` |
| | `Atomicity` | `Spec => FailureAtomic`: calls are atomic to a failure |

The theorems about the allocator have the hypothesis `OneKindFails`: in a
behaviour processes are killed or the power fails, any number of times, but not
both. It is no convenience: `MCPmemKillThenPower` refutes `NoLeak` without it.

Each inductive invariant was checked by TLC on the component's instance before
its proof was written; of the allocator's, the parts (below). The facts about
quotients and remainders stand at the head of the modules that need them; the
one that matters to the tables is `ModMod`: when the
number of stripes divides the size of the table, a bucket's stripe is its key's
stripe, so that a mutex goes on guarding the same keys when the table doubles.
Sums are cardinalities of sets of pairs (`Total`): one summand more or less
is an element more or less, and no induction is needed to follow a change. The
folds of the community modules, in which the models state their sums, are such
totals in whatever order they take the summands (`FoldsToTotal`).

### The CAS queue

The four invariants `TypeOK`, `ChainLinked`, `EndsInOrder` and `LocalKnowledge`
are inductive together, and no smaller part of them is. That a `cas` of `tail`
keeps the ends in order needs to know that the copy it compares with was not
torn (`Whole`) and that what it installs follows it in the list. A copy need not
be whole when it is made: its pointer may be that of a later end, if the count
was loaded first, or that of an earlier one. The comparison of the counts
excludes the former only (`Among`): the end had that count again, or still,
after both loads. The comparison of the pointers excludes the latter, for the
end never moves back (`Confirmed`). The argument does not use the order of the
loads. After that the copy stays whole because nodes stay where they are in the
list. A link goes to the end of the list because a node whose `next` is null is
last; it does not create a cycle because the node is still private (`Private`).
`deq` never reads a null `next` because its head was in the list before the tail
that it read later.

The refinement maps the list to the sequence of everything ever enqueued and
the count of `head` to how many of them are gone. An `enq` takes effect when
its node is linked, a `deq` when `head` moves, and an empty `deq` when it read
the null `next`; `sawEmpty` marks that moment.

### The test bench

A slot is a worker and the number of one of its items. `Filled` and `Emptied` are
the slots whose items have been linked, and taken, as far as the workers'
counters tell; `Stocked` and `Drawn` say that they have as many elements as the
list and as the count of `head`. A worker inside a `deq` has linked all of its items
and taken fewer, so `Emptied` is a strict subset of `Filled` whenever a `deq` looks at
the list: some item is behind `head`, and no `deq` fails (`NotEmpty`). This is
where the theorem needs the whole bench: that a worker dequeues no more than it
has enqueued, that an `enq` never fails, and the invariant of the queue. `Checked`
says that an item which `head` has passed is in one worker's hands or checked,
never both and never twice. At the report all slots are emptied, so that every item
is checked once, and the workers' sums are the sum of the items (`Tallied`). `Gauss` is
the closed form: the pairs below the diagonal of a rectangle and their mirror
image fill it. `FreedAfterUse` needs only `Course`: `end_thread_num` is the number
of workers that have ended.

### The LL/SC queue

The argument is about versions. `EndsFollowList` alone is not inductive: that
the slot a slow `SC` writes is the right one depends on what every thread
inside a call knows. A thread that holds version v holds the v-th node (`At`)
and, in `SC`, the node after it (`Helps`); the slot it writes has the
predecessor of its node only while the end is still at version v, and once some
`cas` on the slot succeeded it holds the successor, though the version has not
moved (`Won`). A node that is being added is in nobody else's hands
(`Private`) and not yet in the list (`Fresh`). `Unflagged` says that `cas`, which
stores 8 of the 12 bytes of an `ExitTag`, never stores a flag; no node is freed
for that reason. The counts play no part in these proofs, so that
linearizability does not depend on them.

`ReferencesCounted` is an invariant of its own on top of these. It is inductive
with little more (`Counted`: the counts are natural numbers and finitely many
threads are inside a call), but only because `Inv` says what a `cas` of an entry tag
means: the node `LL` takes its reference to is the current one though it was read
earlier, the count that `SC` carries to the exit tag is that of the node it holds,
the node that becomes current is another one and starts at no references, and
nobody refers to a node that `calloc` has just returned. The premise `~unlinked`
is the code's own limit: an `unlink` takes its reference from the entry tag of
whatever version it finds, and nothing is claimed after that.

### The striped table

`Owned` says which stripes a thread holds at each step, `Bucketed` that the
bucket it computed lies in its stripe whatever the size was when it computed it,
and is its key's bucket if the size is still the one it read; `Sized` that only
a table that may be doubled is. `Kept` says that a thread holds nothing else.
Deadlock is excluded (`NeverAllWaiting`) because a thread that waits for the
stripe of a bucket holds none, and `resize` locks the stripes in order: whoever
holds a stripe that another thread waits for is in `resize` and waits for
a later one, which in turn is held by another resize, and both would hold stripe
0. `Abandoned` is the state that `init_bucket`
leaves when it has no memory: all stripes stay locked, by nobody who goes on.

`AtomicSet` is not a theorem for every instance, and `AtomicUntilEightfold` says
why: `add` gives up after three attempts, each of which a resize by another
thread can spoil, and then returns false for a key that is absent, which `KeySet`
does not allow. `Retried` counts the resizes a call has met by the size of the table,
so an `add` that gives up has seen it grow eightfold
(`GivesUpAfterThreeResizes`). The table of `MCStripedSet` grows once, which is why
TLC finds `AtomicSet` true there.

### The refinable table

The first fault ends the model, and the theorems are about what precedes it.
`Owned` gives the holder of a mutex exactly, `Knows` and `Resizes` what a thread
knows of the sizes: a thread that took a mutex from the array it read may be at
work in a bucket at or above the old size while a resize moves nodes, but never below
it. `OldEmpty` says that the old array has nodes only while they are being
moved, so that no key is left behind. `resize` takes the first bucket that still
has a node; `LeastOf` proves that there is a first one, from the
well-foundedness of the subsets of a finite set, since induction over the
numbers takes an operator as a parameter.

### The cuckoo table

`Owned` says which mutexes a thread holds, in the order of `acquire` or in that of
`aLock`; `Knows` that between `acquire` and `release` it holds those of its
argument or, in `relocate`, those of its victim. `CallsNeverDeadlock` follows since the
threads that are not in `aLock` take a mutex of the second array last.

`InItsLists` is not inductive: nothing in it bounds the keys that a resize has to
put into one new list. `TableInv` adds, for the tables in use, that a key is in one
place only (`Once`), filed under its hash (`Filed`), in a list that is not too
long (`Short`); for a thread that rehashes, that old and new tables have no key in
common and that their keys together are `Sparse`: no more than `2 * probe_size` of
them agree modulo the new size. That they are follows once, at the swap
(`SparseDouble`): keys that agree modulo the new size agree modulo the old one,
so that the two old lists in which they all were held no more. It is enough
(`RoomForOne`): the multipliers are odd and the size is a power of two, so they
cancel (`Tells`), and all keys in the two new lists of a
key agree with it; if both lists were full there would be one key too many.
`PowerOfTwo` is stated without an exponent, as "every divisor but 1 is even":
`CancelsPower` needs no more. The counts are cardinalities, and lists are
compared with sets of keys by `ListKeys`, so that no induction over data is needed.

`AnswerOf` says how far a call is: whether it changed anything, whether it still
has to resize, and that a call about to be answered has met what its answer says
(`Justified`). `ActsOnASet` follows step by step. `Members` counts the keys of
the tables and of those that are rehashed; a key that `relocate` moves leaves one
list and joins another in the same critical section. The theorem has no bound on
resizes, relocations or threads, in contrast to that of the striped table: an
`add` that has resized tries again until it finds room.

### The tree

`Below(d)` is the least set that has what the cell `d` points at and, with a
block, what the block points at: the provers can use it without induction, for a
set that is closed under the pointers contains it, and a set that is not the
least can be shown not to be. In the invariant, `Pointers` says that the blocks
in use are those of the tree, with one pointer to each, and that an unused block
points nowhere; `OnPath` and `Leads` are what the loop of `tree_insert`
preserves: the word belongs below the cell `at`, and if there is a node of it,
it is there. `Counting` relates what a load sees to what is durable: they differ
in one node only, by one, and only before `InsertPersist`. The order of the tree
(`SearchTree`) is a theorem only; in the run it is the refinement that needs it,
for a word that the descent misses gets a second node and a wrong count.
`CountsDurably` is about `DurableHeap`, the abstraction of the allocator; that
the allocator implements it is `Atomicity`.

### The allocator

`IInv` is `Background`, that at most one kind of failure happens and that the
file and the medium are typed, and `Agreed`, which has five parts:

* `Medium`: memory and `survivor` (the medium, where power can fail) are typed,
  differ in one line at most, the one that the next step stores or flushes, and
  are both `Sound`. `Sound` is what `pmemalloc_recover` needs: the clumps tile
  the pool (`Tiled`), at most one of them is in transit, the program's cells
  point at clumps that are in use or on their way (`PointersOK`), and the on
  list of a clump and its pointers are such that executing it again, from any
  entry, ends in the same state (`ClumpOK`).
* `FileFits`: a file that is not sized, or not durably, has an untouched pool.
* `Promised`: the program's notes agree with the headers, so that what it links,
  fills, activates and frees next is a block of its own.
* `Course`: for each call, what `todo` may be, and what memory is like with
  these steps left.
* the program runs or not (`up`).

No part is enough by itself. That the next store leaves memory sound depends on
what the call has already done (`Course`); that the medium stays sound depends
on each store being flushed before the next one (`Flow`, `Dirty`); and that a
clump may be entered into ACTIVATING or FREEING depends on there being none in
transit, which the end of the last call or the recovery has to have established
(`Quiet`). Since the scans unfold one clump at a time and each step's proof
looks at memory once, the argument is by call and by phase of a call: `Ready`
and `Starting` are the way into ACTIVATING or FREEING, `Executing`, `Clearing`
and `Finishing` the way out, which recovery takes too, `Recovering` and
`Coalescing` the scans, `Reserving` the cut.

The walk over the sizes is a recursion in the model and a least set in the
proofs: `WalkLeast` says that `Walk` is the least set that has the first clump
and is closed under the step from a clump to the next. That a chunk is in the
walk, or is not, then needs a set and no induction.

`Atomicity` needs, besides, that the effect of a call happens once in memory and
once on the medium (`AInv`): the pointers that recovery would find (`Cells`)
change when `pmemalloc_activate` stores ACTIVATING or `pmemalloc_free` stores
FREEING, all of the list at once, and in no other step of any call or of the
recovery; and what is durable has the same pointers, or those before the effect,
until the flush.

`DataSurvives` is not a consequence of `IInv`, which says nothing about the
lines inside a block. `DInv` adds `Preserved`: a block that is in use, in memory
or on the medium, holds its object in both (`Stored`), what the program has
filled is in memory (`Intact`), and `pmemalloc_activate` still has to flush each
line that is not durable before it stores ACTIVATING (`Flushing`). It is kept
because of where stores may go (`Aimed`): to the headers of clumps, without
changing their sizes, to cells, or to lines of free clumps; the header of a rest
that `pmemalloc_reserve` cuts off is such a line, and no block in use reaches
into a free clump.

`IInv` quantifies over sequences, which TLC does not enumerate. It evaluated the
parts that do not, on the constants of `MCPmemAtomic` and `MCPmemTiling`, before
they were proved.

### What only TLC checks

* All liveness: `LockFree`, `LockFreeButForEmpty`, `BenchEnds`, `CallsReturn`.
  The prover handles neither fairness nor ENABLED.
* The statements that the violated runs refute, of course.

### What the proofs changed

`DurableHeap`, `KeySet`, `FIFOQueue` and `WordCount` are unchanged. In `PmemAlloc`,
`Init` gives the contents of each line, and `PoolAssumption` says that the header of
the pool, chunks, cells and the null pointer are distinct. `BenchResult`
has named parts. In the
detailed modules: the guard of a resize is `2 * table_size <= MaxTable`, so that the
bound is kept when it is no power of two times the first size; `NULL \notin
Threads` is assumed where a mutex may be free; `MaxCount` is positive; `Below`
was a recursion on the number of blocks. The cuckoo table's resize was a fold over
all nodes in one action; it is one action per node now, in the order of the code,
which is both provable and closer to what an unlocked `relocate` can see. That
the first size is a power of two was a fact of the instance, and is an
assumption.

## 5. Plan

In this order:

1. The sequential tables as functions checked against a set: open addressing
   with its deleted marks, cuckoo displacement, the linear-probing set.
2. The redo log of nvml, the torn-bit log of Mnemosyne, the log of Atlas.

## 6. Not modelled

* The components with status `not_modelled` in `PROJECT.json`, for the reason
  given there. Almost all of the repository's lines are third-party projects and
  copies of the benchmarks they come with, among them Berkeley DB, OpenLDAP, Tokyo
  Cabinet, STAMP and PARSEC; the programs that were written here, or are taught
  with here, come first.
* The sequential hash tables, `icount` and the tests: one thread, or two that
  alternate strictly, with nothing that survives a failure.
* `pmem_msync.c` and `pmem_fit.c`: what `msync` makes durable is the kernel's,
  and fault injection copies a file to show what a failure would leave, which
  the models do with `PowerFailure`.
* Printing and measuring functions, option parsing, the `free_hashtable`s,
  `pmemalloc_check`'s statistics, thread-specific data of the LL/SC queue.
* `setSize` of the refinable table, and that of the cuckoo table, which nothing
  reads.
* The `_FREE_` build of the CAS queue and the 32-bit builds, and memory ordering
  weaker than program order.
* Overflow: the counts and versions of the queues, the sum in
  `pmemalloc_reserve`.
* Behaviour after undefined behaviour.
