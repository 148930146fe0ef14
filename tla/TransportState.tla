--------------------------- MODULE TransportState ----------------------------
(* The parameters and the state of PodTransport, and what transport and      *)
(* tracker promise, apart from the steps so that a module that checks        *)
(* several components can extend them.                                       *)
EXTENDS Naturals

CONSTANTS
    Call,       \* calls of dispatch
    RequestId,
    IdOf,       \* request_id of each call, which a caller may use twice
    MaxRetries  \* max_retries

None == "none"

ASSUME TransportAssumption ==
    /\ IdOf \in [Call -> RequestId]
    /\ MaxRetries \in Nat
    /\ None \notin Call

VARIABLES
    at,        \* where each call is
    clock,     \* its elapsed time
    attempts,  \* calls of the handler it made
    payload,   \* the handler returned one
    outcome,   \* what its caller gets
    active,    \* _active: the call that opened the receipt of an id
    receipts   \* _records: whose receipt, and its success

-----------------------------------------------------------------------------
InFlight == {c \in Call : at[c] \notin {"idle", "refused", "done"}}

\* pod_protocol.py:118-134: whatever a handler raises, and although calls may use an id
\* twice, a call in flight has its own receipt open and a call that ended left one, which
\* says what its caller got; a refused call leaves the receipt of the other alone.
ReceiptsTellOutcomes ==
    /\ \A c \in InFlight : active[IdOf[c]] = c
    /\ \A c \in Call : at[c] = "done" =>
         {r \in receipts : r.call = c} = {[call |-> c, success |-> outcome[c] = "ok"]}
    /\ \A r \in receipts : r.call \in Call /\ at[r.call] = "done"

\* pod_protocol.py:152-170: an ok response carries what the handler returned in time.
\* Only a clock that stands at the deadline from the loop's check to the answer turns
\* attempts that all failed, or were never made, into an empty ok.
OkIsAnswered ==
    \A c \in Call : outcome[c] = "ok" => payload[c] \/ clock[c] = "at"

\* What the transport tells, in receipts and in responses.
TransportIsHonest == ReceiptsTellOutcomes /\ OkIsAnswered
=============================================================================
