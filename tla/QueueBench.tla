----------------------------- MODULE QueueBench -----------------------------
(***************************************************************************)
(* The test bench of queue/stub.c, run over the lock-free queue: workers   *)
(* gather at a barrier, each enqueues its own items, then dequeues as many *)
(* as it enqueued, and the last one releases the master, which frees the   *)
(* queue and compares the sum of what was dequeued with the expected sum.  *)
(*                                                                         *)
(* A critical section of begin_mtx or end_mtx is one action: everything it *)
(* touches is protected by that mutex, and pthread_cond_wait releases the  *)
(* mutex and starts to wait atomically.  Every Node stands for an          *)
(* allocation that succeeds: EnqNoMemory is not a step of the bench.       *)
(***************************************************************************)
EXTENDS CASLockFreeQueue, Functions

CONSTANTS thread_num, item_num

\* With one worker stub.c skips the barrier, and nothing runs concurrently.
ASSUME BenchAssumption ==
    /\ thread_num \in Nat \ {0, 1} /\ item_num \in Nat \ {0}
    /\ Threads = 0..(thread_num - 1)
    /\ Val = 1..(thread_num * item_num)

VARIABLES
    begin_thread_num, end_thread_num,  \* protected by begin_mtx, end_mtx
    wpc,      \* where worker_thread stands
    i,        \* its loop counter
    getval,   \* the variable deq writes to
    sum,      \* the sum of what the worker dequeued
    check,    \* how often each item was dequeued
    mpc,      \* where master_thread stands
    freed,    \* free_queue has run
    result    \* what the master reports

bench == <<begin_thread_num, end_thread_num, wpc, i, getval, sum, check,
           mpc, freed, result>>
allVars == <<vars, bench>>

BenchInit ==
    /\ Init
    /\ begin_thread_num = 0
    /\ end_thread_num = 0
    /\ wpc = [t \in Threads |-> "start"]
    /\ i = [t \in Threads |-> 0]
    /\ getval = [t \in Threads |-> 0]
    /\ sum = [t \in Threads |-> 0]
    /\ check = [v \in Val |-> 0]
    /\ mpc = "start"
    /\ freed = FALSE
    /\ result = "none"

Awaken(who) == [t \in Threads |-> IF who[t] = "waiting" THEN "woken" ELSE who[t]]

\* Mutant: the last worker to arrive does not wake the others.
WorkerBeginSilent(t) ==
    /\ wpc[t] = "start"
    /\ begin_thread_num' = begin_thread_num + 1
    /\ wpc' = [wpc EXCEPT ![t] = IF begin_thread_num' = thread_num
                                  THEN "enq" ELSE "waiting"]
    /\ UNCHANGED <<vars, end_thread_num, i, getval, sum, check, mpc, freed, result>>

\* The barrier: the last worker to arrive wakes the others.
WorkerBegin(t) ==
    /\ wpc[t] = "start"
    /\ begin_thread_num' = begin_thread_num + 1
    /\ wpc' = IF begin_thread_num' = thread_num
              THEN [Awaken(wpc) EXCEPT ![t] = "enq"]
              ELSE [wpc EXCEPT ![t] = "waiting"]
    /\ UNCHANGED <<vars, end_thread_num, i, getval, sum, check, mpc, freed, result>>

\* A worker that pthread_cond_wait has woken looks at the counter again.
WorkerWake(t) ==
    /\ wpc[t] = "woken"
    /\ wpc' = [wpc EXCEPT ![t] =
                  IF begin_thread_num < thread_num THEN "waiting" ELSE "enq"]
    /\ UNCHANGED <<vars, begin_thread_num, end_thread_num, i, getval, sum,
                   check, mpc, freed, result>>

\* POSIX lets pthread_cond_wait return without a signal.
SpuriousWake ==
    \/ /\ \E t \in Threads : /\ wpc[t] = "waiting"
                             /\ wpc' = [wpc EXCEPT ![t] = "woken"]
       /\ UNCHANGED <<vars, begin_thread_num, end_thread_num, i, getval, sum,
                      check, mpc, freed, result>>
    \/ /\ mpc = "waiting"
       /\ mpc' = "woken"
       /\ UNCHANGED <<vars, begin_thread_num, end_thread_num, wpc, i, getval,
                      sum, check, freed, result>>

\* The next call of the worker's current loop.
WorkerCall(t) ==
    /\ pc[t] = "idle"
    /\ i[t] < item_num
    /\ \/ wpc[t] = "enq" /\ EnqCall(t, t * item_num + i[t] + 1)
       \/ wpc[t] = "deq" /\ DeqCall(t)
    /\ i' = [i EXCEPT ![t] = @ + 1]
    /\ UNCHANGED <<begin_thread_num, end_thread_num, wpc, getval, sum, check,
                   mpc, freed, result>>

\* The loop of enqs is over, the loop of deqs begins.
WorkerTurn(t) ==
    /\ wpc[t] = "enq"
    /\ pc[t] = "idle"
    /\ i[t] = item_num
    /\ wpc' = [wpc EXCEPT ![t] = "deq"]
    /\ i' = [i EXCEPT ![t] = 0]
    /\ UNCHANGED <<vars, begin_thread_num, end_thread_num, getval, sum, check,
                   mpc, freed, result>>

\* A call returns.  Whatever deq left in getval is added, even if deq failed.
WorkerReturn(t) ==
    /\ Return(t)
    /\ \/ /\ wpc[t] = "enq"
          /\ UNCHANGED <<getval, sum, check>>
       \/ /\ wpc[t] = "deq"
          /\ getval' = [getval EXCEPT ![t] = IF out[t] = NULL THEN @ ELSE out[t]]
          /\ sum' = [sum EXCEPT ![t] = @ + getval'[t]]
          /\ check' = [v \in Val |-> check[v] + IF v = getval'[t] THEN 1 ELSE 0]
    /\ UNCHANGED <<begin_thread_num, end_thread_num, wpc, i, mpc, freed, result>>

\* The worker is done; pthread_cond_signal(&end_cond).
WorkerEnd(t) ==
    /\ wpc[t] = "deq"
    /\ pc[t] = "idle"
    /\ i[t] = item_num
    /\ wpc' = [wpc EXCEPT ![t] = "end"]
    /\ end_thread_num' = end_thread_num + 1
    /\ mpc' = IF mpc = "waiting" THEN "woken" ELSE mpc
    /\ UNCHANGED <<vars, begin_thread_num, i, getval, sum, check, freed, result>>

\* Mutant: `if' instead of `while' around pthread_cond_wait.
MasterWaitOnce ==
    /\ mpc \in {"start", "woken"}
    /\ mpc' = IF mpc = "start" /\ thread_num # end_thread_num THEN "waiting" ELSE "free"
    /\ UNCHANGED <<vars, begin_thread_num, end_thread_num, wpc, i, getval, sum,
                   check, freed, result>>

\* while (thread_num != end_thread_num) pthread_cond_wait(&end_cond, &end_mtx)
MasterWait ==
    /\ mpc \in {"start", "woken"}
    /\ mpc' = IF thread_num # end_thread_num THEN "waiting" ELSE "free"
    /\ UNCHANGED <<vars, begin_thread_num, end_thread_num, wpc, i, getval, sum,
                   check, freed, result>>

MasterFree ==
    /\ mpc = "free"
    /\ mpc' = "report"
    /\ freed' = TRUE
    /\ UNCHANGED <<vars, begin_thread_num, end_thread_num, wpc, i, getval, sum,
                   check, result>>

\* total against count1 * count2, the sum of 1..item_num * thread_num.
MasterReport ==
    LET n == item_num * thread_num
        expected == IF n % 2 = 0 THEN (n \div 2) * (n + 1) ELSE ((n + 1) \div 2) * n
    IN  /\ mpc = "report"
        /\ mpc' = "done"
        /\ result' = IF FoldFunction(+, 0, sum) = expected THEN "OK" ELSE "FAILED"
        /\ UNCHANGED <<vars, begin_thread_num, end_thread_num, wpc, i, getval,
                       sum, check, freed>>

WorkerStep(t) ==
    \/ WorkerBegin(t) \/ WorkerWake(t)
    \/ WorkerCall(t) \/ WorkerReturn(t) \/ WorkerTurn(t) \/ WorkerEnd(t)
    \/ (EnqStep(t) \/ DeqStep(t)) /\ UNCHANGED bench

MasterStep == MasterWait \/ MasterFree \/ MasterReport

\* Both threads of the program have ended.
Ended ==
    /\ mpc = "done"
    /\ \A t \in Threads : wpc[t] = "end"
    /\ UNCHANGED allVars

BenchNext == (\E t \in Threads : WorkerStep(t)) \/ SpuriousWake \/ MasterStep \/ Ended

BenchSpec == BenchInit /\ [][BenchNext]_allVars

\* Every thread of a process is scheduled again and again.
FairBenchSpec ==
    /\ BenchSpec
    /\ \A t \in Threads : WF_allVars(WorkerStep(t))
    /\ WF_allVars(MasterStep)
-----------------------------------------------------------------------------
\* "ERROR: del" is never printed: a worker dequeues no more than it has
\* enqueued, so no deq finds the queue empty.
NoFailedDel == \A t \in Threads : pc[t] = "deq_ret" => ret[t]

\* When the master reports, every item has been dequeued exactly once.
EachItemOnce == result # "none" => \A v \in Val : check[v] = 1

\* What the bench tests, and its report: "RESULT: test OK".
BenchResult ==
    /\ NoFailedDel
    /\ EachItemOnce
    /\ result # "none" => result = "OK"

\* The master frees the queue only after the last access of the last worker.
FreedAfterUse == freed => \A t \in Threads : wpc[t] = "end" /\ pc[t] = "idle"

\* The bench ends: no wake-up is lost and no worker spins for ever.
BenchEnds == <>(mpc = "done")
=============================================================================
