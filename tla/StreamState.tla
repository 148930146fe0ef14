------------------------------ MODULE StreamState ------------------------------
(* The parameters and the state of PerceptionStream, and what its drain()     *)
(* promises, apart from the steps so that a module that checks several        *)
(* components can extend them.                                                *)
EXTENDS Naturals, Sequences, SequencesExt

CONSTANTS
    MaxEvent,  \* bound: events accepted
    Room,      \* max_queue
    Waiter     \* calls of drain()

ASSUME StreamAssumption == MaxEvent \in Nat /\ Room \in Nat

VARIABLES
    queue,
    emitted,   \* events accepted
    consumer,  \* a consumer is registered
    thread,    \* where the drain thread is
    inflight,  \* _inflight
    current,   \* the event the drain thread handed out
    consumed, failed,  \* the events the consumer returned from, or raised on
    stop,      \* _stop
    waiters    \* each drain(): where it is, and what was emitted when it began

Delivered == consumed \cup failed

-----------------------------------------------------------------------------
\* Lines 23-31: "an empty deque is not delivery".  A drain() that returned True has seen
\* everything emitted before it delivered, in spite of the event between the queue and
\* the counters, of a consumer that raises and of a thread that was stopped or died.
DrainedIsDelivered ==
    \A w \in Waiter : waiters[w].at = "drained" => 1..waiters[w].before \subseteq Delivered
=============================================================================
