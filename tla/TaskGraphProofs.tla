--------------------------- MODULE TaskGraphProofs ---------------------------
(***************************************************************************)
(* The pool of a task graph does not stall, for every graph, every order   *)
(* of its nodes and every number of workers that is enough for it.         *)
(***************************************************************************)
EXTENDS TaskGraph, FiniteSetTheorems, TLAPS

-----------------------------------------------------------------------------
(* The task graph.                                                           *)

\* The executor hands the nodes out in their order.
TakenInOrder ==
    /\ \A n \in Node : status[n] # "queued" => \A m \in 1..(n - 1) : status[m] # "queued"
    /\ \A n \in Node : status[n] # "queued" => n <= submitted

\* A handler that was called has what its dependencies returned, and they are done.
StartedIsReady ==
    /\ \A n \in Node : status[n] \in {"running", "done", "escaped"} => Ready(n)
    /\ \A n \in outputs : status[n] = "done"

GraphInv ==
    /\ TypeOK /\ Acyclic(depends_on)
    /\ TakenInOrder /\ StartedIsReady /\ InputsAreFinal

\* Nothing is taken before run() submits the first node.
LEMMA GraphInit == Init => GraphInv
  <1> SUFFICES ASSUME Init PROVE GraphInv
    OBVIOUS
  <1> USE TaskGraphAssumption DEF Init, Node
  <1>1. TypeOK
    BY DEF TypeOK, Status
  <1>2. TakenInOrder /\ StartedIsReady /\ InputsAreFinal
    BY DEF TakenInOrder, StartedIsReady, InputsAreFinal
  <1> QED
    BY <1>1, <1>2 DEF GraphInv

\* Each step of run() and of the workers keeps the invariant.
LEMMA GraphStep == GraphInv /\ [Next]_vars => GraphInv'
  <1> SUFFICES ASSUME GraphInv, [Next]_vars PROVE GraphInv'
    OBVIOUS
  <1> USE TaskGraphAssumption DEF GraphInv, TypeOK, Status, Node
  <1>1. CASE Submit
    BY <1>1 DEF Submit, TakenInOrder, StartedIsReady, InputsAreFinal, Ready, Acyclic
  <1>2. ASSUME NEW n \in Node, Take(n) PROVE GraphInv'
    <2> USE <1>2 DEF Take
    <2>1. TypeOK' /\ Acyclic(depends_on)'
      BY DEF Acyclic
    <2>2. TakenInOrder'
      BY DEF TakenInOrder, IsNext
    <2>3. StartedIsReady' /\ InputsAreFinal'
      BY DEF StartedIsReady, InputsAreFinal, Ready, IsNext
    <2> QED
      BY <2>1, <2>2, <2>3
  <1>3. ASSUME NEW n \in Node, CallHandler(n) PROVE GraphInv'
    <2> USE <1>3 DEF CallHandler
    <2>1. TypeOK' /\ Acyclic(depends_on)'
      BY DEF Acyclic
    <2>2. TakenInOrder'
      BY DEF TakenInOrder
    <2>3. StartedIsReady' /\ InputsAreFinal'
      BY DEF StartedIsReady, InputsAreFinal, Ready
    <2> QED
      BY <2>1, <2>2, <2>3
  <1>4. ASSUME NEW n \in Node, Finish(n) PROVE GraphInv'
    <2> USE <1>4 DEF Finish
    <2>1. TypeOK' /\ Acyclic(depends_on)'
      BY DEF Acyclic
    <2>2. TakenInOrder'
      BY DEF TakenInOrder
    <2>3. StartedIsReady'
      BY DEF StartedIsReady, Ready
    <2>4. InputsAreFinal'
      <3>1. \A m \in Node : status[m] \in {"running", "done", "escaped"} => n \notin depends_on[m]
        BY DEF StartedIsReady, Ready
      <3> QED
        BY <3>1 DEF InputsAreFinal
    <2> QED
      BY <2>1, <2>2, <2>3, <2>4
  <1>5. ASSUME NEW n \in Node, Escape(n) PROVE GraphInv'
    <2> USE <1>5 DEF Escape
    <2>1. TypeOK' /\ Acyclic(depends_on)'
      BY DEF Acyclic
    <2>2. TakenInOrder'
      BY DEF TakenInOrder
    <2>3. StartedIsReady' /\ InputsAreFinal'
      BY DEF StartedIsReady, InputsAreFinal, Ready
    <2> QED
      BY <2>1, <2>2, <2>3
  <1>6. CASE UNCHANGED vars
    BY <1>6 DEF vars, TakenInOrder, StartedIsReady, InputsAreFinal, Ready, Acyclic
  <1> QED
    BY <1>1, <1>2, <1>3, <1>4, <1>5, <1>6 DEF Next

\* Every reachable state of a task graph satisfies the invariant.
LEMMA GraphAlways == Spec => []GraphInv
  BY GraphInit, GraphStep, PTL DEF Spec

\* Every reachable state of a task graph is well typed.
THEOREM GraphTypeOK == Spec => []TypeOK
  BY GraphAlways, PTL DEF GraphInv

\* Handlers are given what their dependencies returned, and that is final.
THEOREM HandlersSeeFinalInputs == Spec => []InputsAreFinal
  BY GraphAlways, PTL DEF GraphInv

\* In a stalled state in which nobody waits for a node that escaped, some node a worker
\* holds waits for a node in the queue: among the nodes that are held, one depends on none
\* of the others.
LEMMA StalledOnQueued ==
  ASSUME GraphInv, Stalled, Busy # {}, \A n \in Busy : depends_on[n] \cap Escaped = {}
  PROVE  \E n \in Busy : \E d \in depends_on[n] : status[d] = "queued"
  <1> USE DEF GraphInv, TypeOK, Status
  <1>1. Busy \in SUBSET Node
    BY DEF Busy
  <1>2. PICK n \in Busy : depends_on[n] \cap Busy = {}
    BY <1>1 DEF Acyclic
  <1>3. status[n] = "waiting" /\ ~Ready(n)
    BY <1>1 DEF Stalled, Busy
  <1>4. PICK d \in depends_on[n] : status[d] # "done"
    BY <1>3 DEF Ready
  <1>5. d \in Node /\ d \notin Busy
    BY <1>1, <1>2
  <1>6. status[d] = "queued"
    BY <1>4, <1>5 DEF Busy, Escaped
  <1> QED
    BY <1>6

\* The numbers up to m are m many.
LEMMA IntervalCount ==
  ASSUME NEW m \in Nat
  PROVE  IsFiniteSet(1..m) /\ Cardinality(1..m) = m
  <1>1. Cardinality(1..m) = IF 1 > m THEN 0 ELSE m - 1 + 1
    BY FS_Interval
  <1>2. m = 0 \/ m >= 1
    OBVIOUS
  <1> QED
    BY <1>1, <1>2, FS_Interval

\* With the workers the graph needs, a state in which nobody can go on is one in which
\* every handler has ended, or a worker waits for a node that escaped (run, 90-121).
LEMMA EnoughWorkersGoOn == GraphInv => EnoughWorkersNeverStall
  <1> SUFFICES ASSUME GraphInv, EnoughWorkers, Stalled, \A n \in Busy : depends_on[n] \cap Escaped = {}
               PROVE  \A n \in Node : status[n] \in {"done", "escaped"}
    BY DEF EnoughWorkersNeverStall
  <1> USE TaskGraphAssumption DEF GraphInv, TypeOK, Status
  <1>1. ASSUME NEW d \in Node, status[d] = "queued" PROVE d > max_parallel /\ Busy # {}
    <2>1. Busy \subseteq 1..(d - 1)
      <3> SUFFICES ASSUME NEW m \in Busy PROVE m \in 1..(d - 1)
        OBVIOUS
      <3>1. m \in Node /\ status[m] # "queued"
        BY DEF Busy
      <3>2. ~(d < m) /\ d # m
        BY <1>1, <3>1 DEF TakenInOrder, Node
      <3> QED
        BY <3>1, <3>2 DEF Node
    <2>2. IsFiniteSet(1..(d - 1)) /\ Cardinality(1..(d - 1)) = d - 1
      <3>1. d - 1 \in Nat
        BY DEF Node
      <3> QED
        BY <3>1, IntervalCount
    <2>3. Cardinality(Busy) <= d - 1 /\ Cardinality(Busy) \in Nat
      <3>1. IsFiniteSet(Busy) /\ Cardinality(Busy) <= Cardinality(1..(d - 1))
        BY <2>1, <2>2, FS_Subset
      <3>2. Cardinality(Busy) \in Nat
        BY <3>1, FS_CardinalityType
      <3> QED
        BY <2>2, <3>1, <3>2
    <2>4. Cardinality(Busy) >= max_parallel
      BY <1>1 DEF Stalled
    <2>5. Busy # {}
      BY <2>4, FS_EmptySet
    <2> QED
      BY <2>3, <2>4, <2>5 DEF Node
  <1>2. Busy = {}
    <2> SUFFICES ASSUME Busy # {} PROVE FALSE
      OBVIOUS
    <2>1. PICK n \in Busy : \E d \in depends_on[n] : status[d] = "queued"
      BY StalledOnQueued
    <2>2. PICK d \in depends_on[n] : status[d] = "queued"
      BY <2>1
    <2>3. n \in Node /\ d \in Node /\ status[n] # "queued"
      BY <2>2 DEF Busy
    <2>4. d > n
      BY <2>2, <2>3 DEF TakenInOrder, Node
    <2>5. d <= max_parallel
      BY <2>2, <2>3, <2>4 DEF EnoughWorkers
    <2> QED
      BY <2>2, <2>3, <2>5, <1>1 DEF Node
  <1> QED
    BY <1>1, <1>2 DEF Busy

\* With enough workers for the dependencies that are given too late, a task graph comes to a
\* stand only when every handler has ended, or before a node whose handler raised past the
\* except clause.
THEOREM PoolsDoNotStall == Spec => []EnoughWorkersNeverStall
  BY GraphAlways, EnoughWorkersGoOn, PTL

=============================================================================
