--------------------------- MODULE AdaptiveBatcher ---------------------------
(***************************************************************************)
(* neural_pods/adaptive_batcher.py: callers put requests with a future     *)
(* into one queue per compatibility key; a worker thread forms batches and *)
(* completes the futures.  The batcher's condition guards the queues, but  *)
(* a future has a lock of its own: a caller may cancel it at any moment,   *)
(* also between the worker's future.done() and the set_result or           *)
(* set_exception that follows, which then raises InvalidStateError.        *)
(*                                                                         *)
(* Requests are numbered in the order of their submitted_at stamps, which  *)
(* are read before the lock is taken: they need not be queued in that      *)
(* order.  The statistics are left out.                                    *)
(***************************************************************************)
EXTENDS Naturals, Sequences, FiniteSets, FiniteSetsExt, Functions

CONSTANTS
    N,            \* number of requests, ordered by submitted_at
    Key,          \* compatibility keys
    KeyOf,        \* the key of each request
    Deadlined,    \* the requests submitted with a timeout_ms
    Cancellable,  \* the requests whose caller may cancel the future
    MaxBatch,     \* max_batch_size
    MaxQueue      \* max_queue

Request == 1..N

ASSUME BatcherAssumption ==
    /\ N \in Nat
    /\ KeyOf \in [Request -> Key]
    /\ Deadlined \subseteq Request /\ Cancellable \subseteq Request
    /\ MaxBatch \in Nat \ {0} /\ MaxQueue \in Nat \ {0}

VARIABLES
    future,    \* the state of each request's future
    queues,    \* _queues, an absent key being an empty queue
    queued,    \* _queued
    stopping,  \* _stopping
    worker,    \* where the worker thread is
    scanned,   \* the keys _select has cleaned; it holds the lock meanwhile
    batch,     \* the requests the worker took out of the queue
    next,      \* position in batch of the future completed next
    failure,   \* how the except branch completes the futures
    ripe,      \* requests older than max_wait or too close to their deadline
    expired    \* requests whose deadline has passed

vars == <<future, queues, queued, stopping, worker, scanned, batch, next, failure, ripe, expired>>

Failure == {"modelError", "invalidState"}
Future  == {"new", "pending", "cancelled", "result", "rejected", "closed", "deadline"} \cup Failure
Worker  == {"idle", "scan", "filter", "run", "deliver", "fail", "exited", "dead"}

Queued == UNION {Range(queues[k]) : k \in Key}
\* The condition's lock: every other step of the worker releases it at once.
LockFree == worker # "scan"

Complete(r, how) == future' = [future EXCEPT ![r] = how]

Init ==
    /\ future = [r \in Request |-> "new"]
    /\ queues = [k \in Key |-> <<>>]
    /\ queued = 0
    /\ stopping = FALSE
    /\ worker = "idle"
    /\ scanned = {}
    /\ batch = <<>>
    /\ next = 1
    /\ failure = "modelError"
    /\ ripe = {}
    /\ expired = {}

-----------------------------------------------------------------------------
(* The callers, and time. *)

Submit(r) ==
    /\ LockFree
    /\ future[r] = "new"
    /\ IF stopping \/ queued >= MaxQueue
       THEN Complete(r, "rejected") /\ UNCHANGED <<queues, queued>>
       ELSE /\ Complete(r, "pending")
            /\ queues' = [queues EXCEPT ![KeyOf[r]] = Append(@, r)]
            /\ queued' = queued + 1
    /\ UNCHANGED <<stopping, worker, scanned, batch, next, failure, ripe, expired>>

\* Future.cancel(): nobody calls set_running_or_notify_cancel, so it succeeds as
\* long as the future is pending.
Cancel(r) ==
    /\ r \in Cancellable
    /\ future[r] = "pending"
    /\ Complete(r, "cancelled")
    /\ UNCHANGED <<queues, queued, stopping, worker, scanned, batch, next, failure, ripe, expired>>

\* The requests close() completes, the others it pops being cancelled already.
Closing(S) == [r \in Request |-> IF r \in S /\ future[r] = "pending" THEN "closed" ELSE future[r]]

\* close(cancel_pending): with no cancellation in the way, or raising at request r,
\* whose caller cancels it between done() and set_exception; the requests behind r
\* stay queued.
Close ==
    /\ LockFree
    /\ stopping' = TRUE
    /\ \/ UNCHANGED <<future, queues, queued>>
       \/ /\ future' = Closing(Queued)
          /\ queues' = [k \in Key |-> <<>>]
          /\ queued' = queued - Cardinality(Queued)
       \/ \E k \in Key : \E i \in DOMAIN queues[k] : \E earlier \in SUBSET (Key \ {k}) :
            LET r    == queues[k][i]
                gone == (UNION {Range(queues[e]) : e \in earlier}) \cup Range(SubSeq(queues[k], 1, i))
            IN  /\ r \in Cancellable
                /\ future[r] = "pending"
                /\ future' = [Closing(gone) EXCEPT ![r] = "cancelled"]
                /\ queues' = [e \in Key |-> IF e \in earlier THEN <<>>
                                            ELSE IF e = k THEN SubSeq(queues[k], i + 1, Len(queues[k]))
                                            ELSE queues[e]]
                /\ queued' = queued - Cardinality(gone)
    /\ UNCHANGED <<worker, scanned, batch, next, failure, ripe, expired>>

\* _select reads the clock once: nothing ripens or expires while it scans.
Ripen(r) ==
    /\ LockFree
    /\ future[r] # "new" /\ r \notin ripe
    /\ ripe' = ripe \cup {r}
    /\ UNCHANGED <<future, queues, queued, stopping, worker, scanned, batch, next, failure, expired>>

Expire(r) ==
    /\ LockFree
    /\ r \in Deadlined \ expired
    /\ expired' = expired \cup {r}
    /\ UNCHANGED <<future, queues, queued, stopping, worker, scanned, batch, next, failure, ripe>>

-----------------------------------------------------------------------------
(* The worker thread. *)

BeginSelect ==
    /\ worker = "idle"
    /\ queued > 0
    /\ worker' = "scan"
    /\ scanned' = {}
    /\ UNCHANGED <<future, queues, queued, stopping, batch, next, failure, ripe, expired>>

Exit ==
    /\ worker = "idle"
    /\ stopping /\ queued = 0
    /\ worker' = "exited"
    /\ UNCHANGED <<future, queues, queued, stopping, scanned, batch, next, failure, ripe, expired>>

\* Seeded fault: a dropped request is subtracted by the drop and by its caller.
PopCountedTwice(k) ==
    /\ queues' = [queues EXCEPT ![k] = Tail(@)]
    /\ queued' = queued - 2

\* Seeded fault: a dropped request is still counted as queued.
PopUncounted(k) ==
    /\ queues' = [queues EXCEPT ![k] = Tail(@)]
    /\ UNCHANGED queued

Pop(k) ==
    /\ queues' = [queues EXCEPT ![k] = Tail(@)]
    /\ queued' = queued - 1

\* Seeded fault: an expired head is popped and its future left alone.
DropSilently(k) ==
    /\ worker = "scan" /\ k \in Key \ scanned /\ queues[k] # <<>>
    /\ Head(queues[k]) \in expired
    /\ Pop(k)
    /\ UNCHANGED <<future, worker, stopping, scanned, batch, next, failure, ripe, expired>>

\* A deadline drop; when the caller cancels between done() and set_exception the
\* exception leaves _select and ends the thread.
DropExpired(k) ==
    /\ worker = "scan"
    /\ k \in Key \ scanned
    /\ queues[k] # <<>>
    /\ Head(queues[k]) \in expired
    /\ future[Head(queues[k])] # "cancelled"
    /\ Pop(k)
    /\ \/ Complete(Head(queues[k]), "deadline") /\ UNCHANGED worker
       \/ /\ Head(queues[k]) \in Cancellable
          /\ Complete(Head(queues[k]), "cancelled")
          /\ worker' = "dead"
    /\ UNCHANGED <<stopping, scanned, batch, next, failure, ripe, expired>>

DropCancelled(k) ==
    /\ worker = "scan"
    /\ k \in Key \ scanned
    /\ queues[k] # <<>>
    /\ future[Head(queues[k])] = "cancelled"
    /\ Pop(k)
    /\ UNCHANGED <<future, stopping, worker, scanned, batch, next, failure, ripe, expired>>

KeepHead(k) ==
    /\ worker = "scan"
    /\ k \in Key \ scanned
    /\ queues[k] # <<>> => /\ future[Head(queues[k])] # "cancelled"
                           /\ Head(queues[k]) \notin expired
    /\ scanned' = scanned \cup {k}
    /\ UNCHANGED <<future, queues, queued, stopping, worker, batch, next, failure, ripe, expired>>

\* Seeded fault: a request that has waited long enough does not count.
DispatchableWhenFull(k) == Len(queues[k]) >= MaxBatch

Dispatchable(k) == Len(queues[k]) >= MaxBatch \/ Head(queues[k]) \in ripe

\* The requests of s whose future is not cancelled, in their order.
Live(s) ==
    LET kept == {i \in DOMAIN s : future[s[i]] # "cancelled"}
        pos  == CHOOSE p \in [1..Cardinality(kept) -> kept] : \A i, j \in DOMAIN p : i < j => p[i] < p[j]
    IN  [i \in DOMAIN pos |-> s[pos[i]]]

\* The queue whose head was submitted first, if it is worth a batch.
Selected == {k \in Key : /\ queues[k] # <<>>
                         /\ \A other \in Key : queues[other] # <<>> => Head(queues[k]) <= Head(queues[other])
                         /\ Dispatchable(k)}

\* The popping loop stops at the end of the queue or at MaxBatch live requests.
Taken(k) ==
    LET live(n) == Cardinality({i \in 1..n : future[queues[k][i]] # "cancelled"})
    IN  Min({n \in DOMAIN queues[k] : live(n) = MaxBatch} \cup {Len(queues[k])})

SelectNothing ==
    /\ worker = "scan"
    /\ scanned = Key
    /\ Selected = {}
    /\ worker' = "idle"
    /\ UNCHANGED <<future, queues, queued, stopping, scanned, batch, next, failure, ripe, expired>>

SelectBatch ==
    /\ worker = "scan"
    /\ scanned = Key
    /\ \E k \in Selected :
         LET n    == Taken(k)
             live == Live(SubSeq(queues[k], 1, n))
         IN  /\ queues' = [queues EXCEPT ![k] = SubSeq(@, n + 1, Len(@))]
             /\ queued' = queued - n
             /\ batch' = live
             /\ worker' = IF live = <<>> THEN "idle" ELSE "filter"
    /\ UNCHANGED <<future, stopping, scanned, next, failure, ripe, expired>>

\* The second look at cancelled(), before the model is called.
Filter ==
    /\ worker = "filter"
    /\ batch' = Live(batch)
    /\ worker' = IF batch' = <<>> THEN "idle" ELSE "run"
    /\ UNCHANGED <<future, queues, queued, stopping, scanned, next, failure, ripe, expired>>

RunBatch ==
    /\ worker = "run"
    /\ \/ worker' = "deliver" /\ UNCHANGED failure
       \/ worker' = "fail" /\ failure' = "modelError"
    /\ next' = 1
    /\ UNCHANGED <<future, queues, queued, stopping, scanned, batch, ripe, expired>>

\* if not done(): set_result(...), for one item; a cancellation in between raises
\* into the except branch, which starts over at the first item.
Deliver ==
    /\ worker = "deliver"
    /\ next <= Len(batch)
    /\ LET r == batch[next] IN
       \/ /\ future[r] = "pending"
          /\ Complete(r, "result")
          /\ next' = next + 1
          /\ UNCHANGED <<worker, failure>>
       \/ /\ future[r] = "pending" /\ r \in Cancellable
          /\ Complete(r, "cancelled")
          /\ next' = 1
          /\ worker' = "fail"
          /\ failure' = "invalidState"
       \/ /\ future[r] # "pending"
          /\ next' = next + 1
          /\ UNCHANGED <<future, worker, failure>>
    /\ UNCHANGED <<queues, queued, stopping, scanned, batch, ripe, expired>>

\* if not done(): set_exception(exc), for one item; a cancellation in between
\* raises out of the except branch and ends the thread.
Fail ==
    /\ worker = "fail"
    /\ next <= Len(batch)
    /\ LET r == batch[next] IN
       \/ /\ future[r] = "pending"
          /\ Complete(r, failure)
          /\ next' = next + 1
          /\ UNCHANGED worker
       \/ /\ future[r] = "pending" /\ r \in Cancellable
          /\ Complete(r, "cancelled")
          /\ worker' = "dead"
          /\ UNCHANGED next
       \/ /\ future[r] # "pending"
          /\ next' = next + 1
          /\ UNCHANGED <<future, worker>>
    /\ UNCHANGED <<queues, queued, stopping, scanned, batch, failure, ripe, expired>>

FinishBatch ==
    /\ worker \in {"deliver", "fail"}
    /\ next > Len(batch)
    /\ batch' = <<>>
    /\ worker' = "idle"
    /\ UNCHANGED <<future, queues, queued, stopping, scanned, next, failure, ripe, expired>>

WorkerStep ==
    \/ BeginSelect \/ Exit
    \/ \E k \in Key : DropExpired(k) \/ DropCancelled(k) \/ KeepHead(k)
    \/ SelectNothing \/ SelectBatch
    \/ Filter \/ RunBatch \/ Deliver \/ Fail \/ FinishBatch

Next ==
    \/ \E r \in Request : Submit(r) \/ Cancel(r) \/ Ripen(r) \/ Expire(r)
    \/ Close
    \/ WorkerStep

\* The worker is a running thread, run_batch returns, and time passes, also when the
\* worker happens to be scanning (hence SF).
Fairness == WF_vars(WorkerStep) /\ \A r \in Request : SF_vars(Ripen(r))

Spec == Init /\ [][Next]_vars
FairSpec == Spec /\ Fairness
-----------------------------------------------------------------------------
(* What the batcher promises. *)

TypeOK ==
    /\ future \in [Request -> Future]
    /\ queues \in [Key -> Seq(Request)]
    /\ queued \in Nat
    /\ stopping \in BOOLEAN
    /\ worker \in Worker
    /\ scanned \subseteq Key
    /\ batch \in Seq(Request) /\ Len(batch) <= MaxBatch
    /\ next \in 1..(MaxBatch + 1)
    /\ failure \in Failure
    /\ ripe \subseteq Request /\ expired \subseteq Deadlined

\* _queued is maintained by hand at five places (submit, close, three in _select)
\* and decides on admission and on the worker's exit: it is the number of queued
\* requests and never exceeds max_queue.
QueuedIsExact ==
    /\ queued = Cardinality(Queued)
    /\ queued <= MaxQueue

\* Every accepted request whose future is open is in exactly one place, a queue or
\* the batch in progress, so no path of the worker forgets one and none is
\* answered twice (_select, 107-145; _run, 147-196; close, 81-92).
OpenRequestsAreHeld ==
    /\ \A r \in Request : future[r] = "pending" => r \in Queued \cup Range(batch)
    /\ Queued \cap Range(batch) = {}
    /\ \A k \in Key : IsInjective(queues[k])

\* The admission counter is exact, and no open request is lost.
RequestsAreAccounted == QueuedIsExact /\ OpenRequestsAreHeld

\* As long as the worker thread lives every accepted request is answered, also when it
\* is alone in its queue, behind another key, or pending when the batcher is closed.
EveryRequestAnswered ==
    \A r \in Request : future[r] = "pending" ~> future[r] # "pending" \/ worker = "dead"

\* close() ends the worker thread, whatever was queued (join, 92).
CloseEndsWorker == stopping ~> worker \in {"exited", "dead"}

\* adaptive_batcher.py:237-238: "the worker finishes safely".
WorkerSurvives == worker # "dead"
=============================================================================
