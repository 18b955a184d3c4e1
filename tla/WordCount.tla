----------------------------- MODULE WordCount -----------------------------
(***************************************************************************)
(* What the binary tree promises its users: a durable count of every word. *)
(* An insertion counts its word in one instant, and has done so when it    *)
(* returns, whatever fails later.  Freeing the tree forgets the words one  *)
(* after the other; a failure stops it anywhere.                           *)
(***************************************************************************)
EXTENDS Naturals

CONSTANTS Word, NULL

VARIABLES
    counts,  \* how often each word was inserted
    job,     \* the call being executed
    up       \* the process runs

vars == <<counts, job, up>>

\* before is the count that an insertion finds.
NoJob == [op |-> "none", word |-> NULL, before |-> 0]

Init ==
    /\ counts = [w \in Word |-> 0]
    /\ job = NoJob
    /\ up = FALSE

CallInsert(w) ==
    /\ up /\ job = NoJob
    /\ job' = [op |-> "insert", word |-> w, before |-> counts[w]]
    /\ UNCHANGED <<counts, up>>

CallFree ==
    /\ up /\ job = NoJob
    /\ job' = [NoJob EXCEPT !.op = "free"]
    /\ UNCHANGED <<counts, up>>

\* The insertion's one instant.
Count ==
    /\ job.op = "insert"
    /\ counts[job.word] = job.before
    /\ counts' = [counts EXCEPT ![job.word] = @ + 1]
    /\ UNCHANGED <<job, up>>

Forget(w) ==
    /\ job.op = "free"
    /\ counts[w] # 0
    /\ counts' = [counts EXCEPT ![w] = 0]
    /\ UNCHANGED <<job, up>>

Return ==
    /\ \/ job.op = "insert" /\ counts[job.word] = job.before + 1
       \/ job.op = "free" /\ \A w \in Word : counts[w] = 0
    /\ job' = NoJob
    /\ UNCHANGED <<counts, up>>

Start ==
    /\ ~up
    /\ up' = TRUE
    /\ UNCHANGED <<counts, job>>

\* The process ends, perhaps in a call, which had its effect or not.
Fail ==
    /\ up' = FALSE
    /\ job' = NoJob
    /\ UNCHANGED counts

Next ==
    \/ CallFree \/ Count \/ Return \/ Start \/ Fail
    \/ \E w \in Word : CallInsert(w) \/ Forget(w)

Spec == Init /\ [][Next]_vars
=============================================================================
