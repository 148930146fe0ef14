----------------------------- MODULE VllmRouter -----------------------------
(***************************************************************************)
(* neural_pods/vllm_router.py: chat() and completion(), which are alike,   *)
(* try the replicas in turn from a shared cursor, and count.               *)
(*                                                                         *)
(* Every block under the lock is one step.  Replicas are 0..Replicas-1;    *)
(* requests and answers are left out.                                      *)
(***************************************************************************)
EXTENDS Naturals, FiniteSets

CONSTANTS
    Replicas,    \* number of replicas
    MaxAttempts, \* max_attempts
    Call

VARIABLES
    cursor,    \* _cursor
    at,        \* where each call is
    start,     \* the replica each call begins with
    tried,     \* the replicas it tried
    metrics,   \* metrics
    asked, served, failed  \* metrics.per_replica

vars == <<cursor, at, start, tried, metrics, asked, served, failed>>

Replica == 0..(Replicas - 1)

Init ==
    /\ cursor = 0
    /\ at = [c \in Call |-> "idle"]
    /\ start = [c \in Call |-> 0]
    /\ tried = [c \in Call |-> {}]
    /\ metrics = [requests |-> 0, successes |-> 0, failures |-> 0, failovers |-> 0]
    /\ asked = [r \in Replica |-> 0] /\ served = asked /\ failed = asked

Limit   == IF MaxAttempts < Replicas THEN MaxAttempts ELSE Replicas
Following(r) == (r + 1) % Replicas
\* ordered[attempt], and the replica before it.
Attempt(c) == (start[c] + Cardinality(tried[c])) % Replicas
Current(c) == (start[c] + Cardinality(tried[c]) - 1) % Replicas
Goes(c, place) == at' = [at EXCEPT ![c] = place]

\* Seeded fault: the lock is not held from the read of the cursor to its update.
OrderRacing(c) ==
    /\ UNCHANGED <<tried, metrics, asked, served, failed>>
    /\ \/ at[c] = "idle" /\ start' = [start EXCEPT ![c] = cursor] /\ Goes(c, "racing") /\ UNCHANGED cursor
       \/ at[c] = "racing" /\ cursor' = Following(start[c]) /\ Goes(c, "ordered") /\ UNCHANGED start

\* _ordered
Order(c) ==
    /\ at[c] = "idle"
    /\ start' = [start EXCEPT ![c] = cursor]
    /\ cursor' = Following(cursor)
    /\ Goes(c, "ordered")
    /\ UNCHANGED <<tried, metrics, asked, served, failed>>

Count(c) ==
    /\ at[c] = "ordered"
    /\ metrics' = [metrics EXCEPT !.requests = @ + 1]
    /\ Goes(c, "next")
    /\ UNCHANGED <<cursor, start, tried, asked, served, failed>>

Ask(c) ==
    /\ at[c] = "next" /\ Cardinality(tried[c]) < Limit
    /\ asked' = [asked EXCEPT ![Attempt(c)] = @ + 1]
    /\ tried' = [tried EXCEPT ![c] = @ \cup {Attempt(c)}]
    /\ Goes(c, "open")
    /\ UNCHANGED <<cursor, start, metrics, served, failed>>

Succeed(c) ==
    /\ at[c] = "open"
    /\ metrics' = [metrics EXCEPT !.successes = @ + 1,
                                  !.failovers = @ + IF Cardinality(tried[c]) > 1 THEN 1 ELSE 0]
    /\ served' = [served EXCEPT ![Current(c)] = @ + 1]
    /\ Goes(c, "returned")
    /\ UNCHANGED <<cursor, start, tried, asked, failed>>

Fail(c) ==
    /\ at[c] = "open"
    /\ failed' = [failed EXCEPT ![Current(c)] = @ + 1]
    /\ Goes(c, "next")
    /\ UNCHANGED <<cursor, start, tried, metrics, asked, served>>

\* What the except clause does not name (IncompleteRead, UnicodeDecodeError) leaves the
\* call uncounted.
Escape(c) ==
    /\ at[c] = "open"
    /\ Goes(c, "escaped")
    /\ UNCHANGED <<cursor, start, tried, metrics, asked, served, failed>>

GiveUp(c) ==
    /\ at[c] = "next" /\ Cardinality(tried[c]) = Limit
    /\ metrics' = [metrics EXCEPT !.failures = @ + 1]
    /\ Goes(c, "raised")
    /\ UNCHANGED <<cursor, start, tried, asked, served, failed>>

Next == \E c \in Call : Order(c) \/ Count(c) \/ Ask(c) \/ Succeed(c) \/ Fail(c) \/ Escape(c) \/ GiveUp(c)

Spec == Init /\ [][Next]_vars
-----------------------------------------------------------------------------
(* What the router promises. *)

Those(places) == {c \in Call : at[c] \in places}

TypeOK ==
    /\ cursor \in Replica /\ start \in [Call -> Replica]
    /\ at \in [Call -> {"idle", "ordered", "next", "open", "returned", "escaped", "raised"}]
    /\ \A c \in Call : tried[c] \subseteq Replica /\ Cardinality(tried[c]) <= Limit
    /\ \A r \in Replica : served[r] + failed[r] <= asked[r]

\* Lines 64-68: however calls interleave, the replicas take turns as the first one asked,
\* so that none is asked first twice more often than another; and every call that was
\* counted is a success, a failure, open, or was ended by an exception nobody counts.
ReplicasTakeTurns ==
    LET firsts(r) == Cardinality({c \in Call \ Those({"idle"}) : start[c] = r}) IN
    /\ \A r, other \in Replica : firsts(r) <= firsts(other) + 1
    /\ metrics.requests = metrics.successes + metrics.failures + Cardinality(Those({"next", "open", "escaped"}))
=============================================================================
