----------------------------- MODULE FIFOQueue -----------------------------
(***************************************************************************)
(* What a concurrent queue of AlgorithmCollection-master/queue promises    *)
(* its callers: enq and deq look atomic and first-in first-out.            *)
(*                                                                         *)
(* The queue is kept as a log: enqs is every value ever enqueued, in the   *)
(* order in which the enqueues took effect, and ndeq says how many of them *)
(* have been dequeued.  A call takes effect in one step between its call   *)
(* and its return.  A deq that finds nothing changes nothing, so it may    *)
(* return false when the queue was empty at some moment of the call.       *)
(***************************************************************************)
EXTENDS Naturals, Sequences

CONSTANTS Threads, Val, NULL

VARIABLES
    enqs,      \* all values enqueued so far, in order of effect
    ndeq,      \* how many of them have been dequeued
    phase,     \* where the call of each thread stands
    arg,       \* the value a pending enq carries
    res,       \* what a call that took effect will return
    sawEmpty   \* the queue was empty at some moment of this deq

vars == <<enqs, ndeq, phase, arg, res, sawEmpty>>

NoRes == [ok |-> FALSE, val |-> NULL]
Ok(v) == [ok |-> TRUE, val |-> v]

Init ==
    /\ enqs = <<>>
    /\ ndeq = 0
    /\ phase = [t \in Threads |-> "idle"]
    /\ arg = [t \in Threads |-> NULL]
    /\ res = [t \in Threads |-> NoRes]
    /\ sawEmpty = [t \in Threads |-> FALSE]

EnqCall(t, v) ==
    /\ phase[t] = "idle"
    /\ phase' = [phase EXCEPT ![t] = "enq"]
    /\ arg' = [arg EXCEPT ![t] = v]
    /\ UNCHANGED <<enqs, ndeq, res, sawEmpty>>

\* The value becomes the youngest of the queue.
EnqEffect(t) ==
    /\ phase[t] = "enq"
    /\ phase' = [phase EXCEPT ![t] = "enqRet"]
    /\ enqs' = Append(enqs, arg[t])
    /\ arg' = [arg EXCEPT ![t] = NULL]
    /\ res' = [res EXCEPT ![t] = Ok(NULL)]
    /\ UNCHANGED <<ndeq, sawEmpty>>

\* An enq that cannot allocate its node returns false and has no effect.
EnqFail(t) ==
    /\ phase[t] = "idle"
    /\ phase' = [phase EXCEPT ![t] = "enqRet"]
    /\ UNCHANGED <<enqs, ndeq, arg, res, sawEmpty>>

DeqCall(t) ==
    /\ phase[t] = "idle"
    /\ phase' = [phase EXCEPT ![t] = "deq"]
    /\ UNCHANGED <<enqs, ndeq, arg, res, sawEmpty>>

DeqObserve(t) ==
    /\ phase[t] = "deq"
    /\ ndeq = Len(enqs)
    /\ sawEmpty' = [sawEmpty EXCEPT ![t] = TRUE]
    /\ UNCHANGED <<enqs, ndeq, phase, arg, res>>

\* The oldest value leaves the queue.
DeqEffect(t) ==
    /\ phase[t] = "deq"
    /\ ndeq < Len(enqs)
    /\ phase' = [phase EXCEPT ![t] = "deqRet"]
    /\ res' = [res EXCEPT ![t] = Ok(enqs[ndeq + 1])]
    /\ ndeq' = ndeq + 1
    /\ UNCHANGED <<enqs, arg, sawEmpty>>

DeqEmpty(t) ==
    /\ phase[t] = "deq"
    /\ sawEmpty[t]
    /\ phase' = [phase EXCEPT ![t] = "deqRet"]
    /\ UNCHANGED <<enqs, ndeq, arg, res, sawEmpty>>

Return(t) ==
    /\ phase[t] \in {"enqRet", "deqRet"}
    /\ phase' = [phase EXCEPT ![t] = "idle"]
    /\ res' = [res EXCEPT ![t] = NoRes]
    /\ sawEmpty' = [sawEmpty EXCEPT ![t] = FALSE]
    /\ UNCHANGED <<enqs, ndeq, arg>>

Next ==
    \E t \in Threads :
        \/ \E v \in Val : EnqCall(t, v)
        \/ EnqEffect(t) \/ EnqFail(t)
        \/ DeqCall(t) \/ DeqObserve(t) \/ DeqEffect(t) \/ DeqEmpty(t)
        \/ Return(t)

Spec == Init /\ [][Next]_vars
=============================================================================
