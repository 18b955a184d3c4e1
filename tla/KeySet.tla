------------------------------- MODULE KeySet -------------------------------
(***************************************************************************)
(* What a hash table that several threads share promises its callers: add, *)
(* delete and find on a set of keys.  A change takes effect in one instant *)
(* of its call, and a call that changes nothing answers what was true at   *)
(* some instant of it; an add without memory may change nothing as well.   *)
(***************************************************************************)
CONSTANTS Threads, Key

VARIABLES
    members,  \* the keys in the set
    call,     \* the call of each thread
    seen      \* what a call has met: its key "present", "absent", "no memory"

vars == <<members, call, seen>>

NoCall == [op |-> "none", key |-> 0, done |-> FALSE, res |-> FALSE]

Init ==
    /\ members = {}
    /\ call = [t \in Threads |-> NoCall]
    /\ seen = [t \in Threads |-> {}]

Call(t, op, k) ==
    /\ call[t] = NoCall
    /\ call' = [call EXCEPT ![t] = [NoCall EXCEPT !.op = op, !.key = k]]
    /\ UNCHANGED <<members, seen>>

Pending(t, op) == call[t].op = op /\ ~call[t].done
Finish(t, r) == call' = [call EXCEPT ![t].done = TRUE, ![t].res = r]

\* An instant at which a call that will change nothing looks at the set.
Look(t) ==
    /\ call[t] # NoCall /\ ~call[t].done
    /\ seen' = [seen EXCEPT ![t] = @ \union
                    {IF call[t].key \in members THEN "present" ELSE "absent"}]
    /\ UNCHANGED <<members, call>>

RunOut(t) ==
    /\ Pending(t, "add")
    /\ seen' = [seen EXCEPT ![t] = @ \union {"no memory"}]
    /\ UNCHANGED <<members, call>>

Add(t) ==
    /\ Pending(t, "add")
    /\ \/ /\ call[t].key \notin members
          /\ members' = members \union {call[t].key}
          /\ Finish(t, TRUE)
          /\ seen' = [seen EXCEPT ![t] = {}]
       \/ /\ seen[t] \intersect {"present", "no memory"} # {}
          /\ Finish(t, FALSE)
          /\ UNCHANGED <<members, seen>>

Delete(t) ==
    /\ Pending(t, "delete")
    /\ \/ /\ call[t].key \in members
          /\ members' = members \ {call[t].key}
          /\ Finish(t, TRUE)
          /\ seen' = [seen EXCEPT ![t] = {}]
       \/ /\ "absent" \in seen[t]
          /\ Finish(t, FALSE)
          /\ UNCHANGED <<members, seen>>

Find(t) ==
    /\ Pending(t, "find")
    /\ \/ "present" \in seen[t] /\ Finish(t, TRUE)
       \/ "absent" \in seen[t] /\ Finish(t, FALSE)
    /\ UNCHANGED <<members, seen>>

Return(t) ==
    /\ call[t].done
    /\ call' = [call EXCEPT ![t] = NoCall]
    /\ seen' = [seen EXCEPT ![t] = {}]
    /\ UNCHANGED members

Next ==
    \E t \in Threads :
        \/ \E op \in {"add", "delete", "find"}, k \in Key : Call(t, op, k)
        \/ Look(t) \/ RunOut(t) \/ Add(t) \/ Delete(t) \/ Find(t) \/ Return(t)

Spec == Init /\ [][Next]_vars
=============================================================================
