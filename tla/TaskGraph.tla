------------------------------ MODULE TaskGraph ------------------------------
(***************************************************************************)
(* neural_pods/taskgraph.py: TaskGraph.run submits every node, in the      *)
(* order they were given, to a ThreadPoolExecutor of max_parallel workers. *)
(* A worker takes the next node of the executor's queue and blocks on the  *)
(* done events of its dependencies before it calls the handler.            *)
(*                                                                         *)
(* Nodes are numbered in the order given.  A handler returns, or raises an *)
(* Exception: the node is done either way, with an output or with None.    *)
(* Any other BaseException escapes: the executor keeps it in the future    *)
(* and its worker goes on, but nobody sets the done event, and run(),      *)
(* which raises it again, first waits for the workers.  timeout_s is       *)
(* stored and never read.                                                  *)
(***************************************************************************)
EXTENDS TaskGraphState

vars == <<depends_on, max_parallel, submitted, status, outputs, inputs>>

Status == {"queued", "waiting", "running", "done", "escaped"}

\* _validate_dag: as long as nodes are left, one depends on none of them.
Acyclic(deps) == \A S \in SUBSET Node : S # {} => \E n \in S : deps[n] \cap S = {}

Init ==
    /\ depends_on \in [Node -> SUBSET Node] /\ Acyclic(depends_on)
    /\ max_parallel \in 1..MaxParallel
    /\ submitted = 0
    /\ status = [n \in Node |-> "queued"]
    /\ outputs = {}
    /\ inputs = [n \in Node |-> {}]

\* The executor's queue is first in, first out.
IsNext(n) == /\ n <= submitted
             /\ status[n] = "queued"
             /\ \A m \in 1..(n - 1) : status[m] # "queued"

Submit ==
    /\ submitted < N
    /\ submitted' = submitted + 1
    /\ UNCHANGED <<depends_on, max_parallel, status, outputs, inputs>>

\* Seeded fault: a worker takes any node.
TakeAny(n) ==
    /\ Cardinality(Busy) < max_parallel
    /\ n <= submitted /\ status[n] = "queued"
    /\ status' = [status EXCEPT ![n] = "waiting"]
    /\ UNCHANGED <<depends_on, max_parallel, submitted, outputs, inputs>>

Take(n) ==
    /\ Cardinality(Busy) < max_parallel
    /\ IsNext(n)
    /\ status' = [status EXCEPT ![n] = "waiting"]
    /\ UNCHANGED <<depends_on, max_parallel, submitted, outputs, inputs>>

\* Every done event was waited for; the inputs are what the dependencies returned.
CallHandler(n) ==
    /\ status[n] = "waiting"
    /\ Ready(n)
    /\ status' = [status EXCEPT ![n] = "running"]
    /\ inputs' = [inputs EXCEPT ![n] = depends_on[n] \cap outputs]
    /\ UNCHANGED <<depends_on, max_parallel, submitted, outputs>>

\* The output, or None after an Exception, and the done event.
Finish(n) ==
    /\ status[n] = "running"
    /\ status' = [status EXCEPT ![n] = "done"]
    /\ outputs' \in {outputs, outputs \cup {n}}
    /\ UNCHANGED <<depends_on, max_parallel, submitted, inputs>>

\* A SystemExit, say, passes the except clause: no output and no done event.
Escape(n) ==
    /\ status[n] = "running"
    /\ status' = [status EXCEPT ![n] = "escaped"]
    /\ UNCHANGED <<depends_on, max_parallel, submitted, outputs, inputs>>

Next ==
    \/ Submit
    \/ \E n \in Node : Take(n) \/ CallHandler(n) \/ Finish(n) \/ Escape(n)

Spec == Init /\ [][Next]_vars
-----------------------------------------------------------------------------
(* What the task graph promises. *)

TypeOK ==
    /\ depends_on \in [Node -> SUBSET Node]
    /\ max_parallel \in Nat \ {0}
    /\ submitted \in 0..N
    /\ status \in [Node -> Status]
    /\ outputs \subseteq Node
    /\ inputs \in [Node -> SUBSET Node]

\* A handler has the outputs of the dependencies that succeeded, all of them, and none
\* changes after it was handed over (run, 91-97).
InputsAreFinal ==
    \A n \in Node : status[n] \in {"running", "done", "escaped"} => inputs[n] = depends_on[n] \cap outputs

\* taskgraph.py:80, run() "returns {node_id: TaskResult} for every node": unless one of
\* them raises through it, it never comes to a stand before every node is done.
NeverStalls == Escaped = {} /\ Stalled => Complete
=============================================================================
