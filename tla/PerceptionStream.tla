-------------------------- MODULE PerceptionStream --------------------------
(***************************************************************************)
(* neural_pods/perception.py: callers emit events into a bounded queue, a  *)
(* drain thread hands them to the consumer, and drain() waits for them.    *)
(*                                                                         *)
(* Every block under the lock is one step; the consumer runs outside of    *)
(* it.  Events are numbered in the order they were accepted; max_events_s  *)
(* and the counters of refused events are left out.                        *)
(***************************************************************************)
EXTENDS StreamState

vars == <<queue, emitted, consumer, thread, inflight, current, consumed, failed, stop, waiters>>

Init ==
    /\ queue = <<>> /\ emitted = 0
    /\ consumer = FALSE
    /\ thread = "loop" /\ inflight = 0 /\ current = 0
    /\ consumed = {} /\ failed = {}
    /\ stop = FALSE
    /\ waiters = [w \in Waiter |-> [at |-> "idle", before |-> 0]]

-----------------------------------------------------------------------------
\* Also after close(), which emit does not know of.
Emit ==
    /\ emitted < MaxEvent
    /\ Len(queue) < Room
    /\ emitted' = emitted + 1
    /\ queue' = Append(queue, emitted + 1)
    /\ UNCHANGED <<consumer, thread, inflight, current, consumed, failed, stop, waiters>>

SetConsumer ==
    /\ ~consumer
    /\ consumer' = TRUE
    /\ UNCHANGED <<queue, emitted, thread, inflight, current, consumed, failed, stop, waiters>>

\* close(), which joins the thread for a while.
Close ==
    /\ ~stop
    /\ stop' = TRUE
    /\ UNCHANGED <<queue, emitted, consumer, thread, inflight, current, consumed, failed, waiters>>

\* _stop was read at the top of the loop, before the lock.
Look ==
    /\ thread = "loop"
    /\ thread' = IF stop THEN "exited" ELSE "look"
    /\ UNCHANGED <<queue, emitted, consumer, inflight, current, consumed, failed, stop, waiters>>

\* Seeded fault: an event that was popped counts as delivered.
TakeUncounted ==
    /\ thread = "look"
    /\ IF consumer /\ queue # <<>>
       THEN queue' = Tail(queue) /\ current' = Head(queue) /\ thread' = "consume"
       ELSE thread' = "loop" /\ UNCHANGED <<queue, current>>
    /\ UNCHANGED <<emitted, consumer, inflight, consumed, failed, stop, waiters>>

Take ==
    /\ thread = "look"
    /\ IF consumer /\ queue # <<>>
       THEN queue' = Tail(queue) /\ current' = Head(queue) /\ inflight' = inflight + 1 /\ thread' = "consume"
       ELSE thread' = "loop" /\ UNCHANGED <<queue, current, inflight>>
    /\ UNCHANGED <<emitted, consumer, consumed, failed, stop, waiters>>

\* The consumer returns, raises an Exception, or raises what `except Exception` lets
\* through, which ends the thread with the event in flight for good.
Consume ==
    /\ thread = "consume"
    /\ thread' \in {"ok", "failed", "dead"}
    /\ UNCHANGED <<queue, emitted, consumer, inflight, current, consumed, failed, stop, waiters>>

Settle ==
    /\ thread \in {"ok", "failed"}
    /\ inflight' = inflight - 1
    /\ IF thread = "ok" THEN consumed' = consumed \cup {current} /\ UNCHANGED failed
                        ELSE failed' = failed \cup {current} /\ UNCHANGED consumed
    /\ thread' = "loop"
    /\ UNCHANGED <<queue, emitted, consumer, current, stop, waiters>>

DrainStep == Look \/ Take \/ Consume \/ Settle

BeginDrain(w) ==
    /\ waiters[w].at = "idle"
    /\ waiters' = [waiters EXCEPT ![w] = [at |-> "waits", before |-> emitted]]
    /\ UNCHANGED <<queue, emitted, consumer, thread, inflight, current, consumed, failed, stop>>

\* True as soon as nothing is queued or in flight; False only by the clock, after a
\* last look.
EndDrain(w) ==
    /\ waiters[w].at = "waits"
    /\ waiters' = [waiters EXCEPT ![w].at = IF queue = <<>> /\ inflight = 0 THEN "drained" ELSE "timedOut"]
    /\ UNCHANGED <<queue, emitted, consumer, thread, inflight, current, consumed, failed, stop>>

Next ==
    \/ Emit \/ SetConsumer \/ Close
    \/ DrainStep
    \/ \E w \in Waiter : BeginDrain(w) \/ EndDrain(w)

\* The drain thread runs and consumers return.
Fairness == WF_vars(DrainStep)

Spec == Init /\ [][Next]_vars
FairSpec == Spec /\ Fairness
-----------------------------------------------------------------------------
(* What the stream promises. *)

TypeOK ==
    /\ queue \in Seq(1..MaxEvent) /\ Len(queue) <= Room
    /\ emitted \in 0..MaxEvent /\ inflight \in {0, 1} /\ current \in 0..emitted
    /\ thread \in {"loop", "look", "consume", "ok", "failed", "dead", "exited"}
    /\ Delivered \subseteq 1..emitted

\* "No consumer means backpressure, not a black hole": with a consumer, every event that
\* was accepted gets to it unless the stream is closed or its thread was killed.
EventsAreDelivered ==
    \A e \in 1..MaxEvent : emitted >= e /\ consumer ~> e \in Delivered \/ stop \/ thread = "dead"
=============================================================================
