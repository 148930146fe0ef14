--------------------------- MODULE TaskGraphState ----------------------------
(* The parameters and the state of TaskGraph, and what it promises with      *)
(* enough workers, apart from the steps so that a module that checks several *)
(* components can extend them.                                               *)
EXTENDS Naturals, FiniteSets

CONSTANTS
    N,           \* number of nodes
    MaxParallel  \* bound on max_parallel

Node == 1..N

ASSUME TaskGraphAssumption == N \in Nat /\ MaxParallel \in Nat \ {0}

VARIABLES
    depends_on,    \* the dependencies of each node
    max_parallel,  \* workers of the pool
    submitted,     \* nodes run() has submitted so far
    status,        \* where each node is
    outputs,       \* the nodes with an output other than None
    inputs         \* the outputs each handler was given

-----------------------------------------------------------------------------
Busy == {n \in Node : status[n] \in {"waiting", "running"}}
Escaped == {n \in Node : status[n] = "escaped"}
Ready(n) == \A d \in depends_on[n] : status[d] = "done"
Complete == \A n \in Node : status[n] = "done"

\* Nobody can go on: there is nothing to submit, no handler runs, every node a worker
\* holds waits for another one, and no worker is free while a node is in the queue.
Stalled ==
    /\ submitted = N
    /\ \A n \in Node : status[n] # "running" /\ (status[n] = "waiting" => ~Ready(n))
    /\ \A n \in Node : status[n] = "queued" => Cardinality(Busy) >= max_parallel

\* Every node that comes after one that depends on it is among the first max_parallel.
EnoughWorkers == \A n \in Node : \A d \in depends_on[n] : d > n => d <= max_parallel

\* Workers that block on other workers' results never lock each other out as long as
\* there are enough of them for the dependencies given too late, so with any number of
\* workers if every node comes after what it depends on: whenever nobody can go on, every
\* handler has ended, or a worker waits for a node whose handler raised past the except
\* clause of run_node and whose done event nobody will ever set (run, 90-121).
EnoughWorkersNeverStall ==
    EnoughWorkers /\ Stalled =>
      \/ \A n \in Node : status[n] \in {"done", "escaped"}
      \/ \E n \in Busy : depends_on[n] \cap Escaped # {}
=============================================================================
