---------------------------- MODULE PodTransport ----------------------------
(***************************************************************************)
(* neural_pods/pod_protocol.py, PodTransport.dispatch with a tracker, and  *)
(* neural_pods/resource_runtime.py, RequestTracker: a call is validated,   *)
(* handled with bounded retries under a deadline, and leaves one receipt   *)
(* under its request id.                                                   *)
(*                                                                         *)
(* Calls run in threads of their own (PodFanout, the socket server); the   *)
(* tracker's methods are atomic.  A call's clock is read three times: its  *)
(* elapsed time is before, at or past the deadline.  Phases, tokens and    *)
(* the limit of the receipts kept are left out.                            *)
(***************************************************************************)
EXTENDS TransportState

vars == <<at, clock, attempts, payload, outcome, active, receipts>>

Init ==
    /\ at = [c \in Call |-> "idle"]
    /\ clock = [c \in Call |-> "before"]
    /\ attempts = [c \in Call |-> 0]
    /\ payload = [c \in Call |-> FALSE]
    /\ outcome = [c \in Call |-> None]
    /\ active = [i \in RequestId |-> None]
    /\ receipts = {}

Goes(c, place)    == at' = [at EXCEPT ![c] = place]
Responds(c, what) == Goes(c, "respond") /\ outcome' = [outcome EXCEPT ![c] = what]

-----------------------------------------------------------------------------
Pass(c) ==
    /\ at[c] \in {"dispatch", "attempt", "handler", "answer"}
    /\ \/ clock[c] = "before" /\ clock' \in {[clock EXCEPT ![c] = "at"], [clock EXCEPT ![c] = "past"]}
       \/ clock[c] = "at" /\ clock' = [clock EXCEPT ![c] = "past"]
    /\ UNCHANGED <<at, attempts, payload, outcome, active, receipts>>

\* Seeded fault: tracker.start is called within the try.
StartTried(c) ==
    /\ at[c] = "idle"
    /\ IF active[IdOf[c]] # None
       THEN Goes(c, "escape") /\ outcome' = [outcome EXCEPT ![c] = "raised"] /\ UNCHANGED active
       ELSE active' = [active EXCEPT ![IdOf[c]] = c] /\ Goes(c, "dispatch") /\ UNCHANGED outcome
    /\ UNCHANGED <<clock, attempts, payload, receipts>>

\* tracker.start; "request already active" leaves dispatch without a receipt.
Start(c) ==
    /\ at[c] = "idle"
    /\ IF active[IdOf[c]] # None
       THEN Goes(c, "refused") /\ outcome' = [outcome EXCEPT ![c] = "raised"] /\ UNCHANGED active
       ELSE active' = [active EXCEPT ![IdOf[c]] = c] /\ Goes(c, "dispatch") /\ UNCHANGED outcome
    /\ UNCHANGED <<clock, attempts, payload, receipts>>

\* validate() may raise; the manifest, the signature or the capability may be wrong.
Validate(c) ==
    /\ at[c] = "dispatch"
    /\ \/ Goes(c, "attempt") /\ UNCHANGED outcome
       \/ Responds(c, "error")
       \/ Goes(c, "escape") /\ outcome' = [outcome EXCEPT ![c] = "raised"]
    /\ UNCHANGED <<clock, attempts, payload, active, receipts>>

\* The head of the loop: past its deadline the call answers with what it has.
Attempt(c) ==
    /\ at[c] = "attempt"
    /\ IF clock[c] = "before"
       THEN Goes(c, "handler") /\ attempts' = [attempts EXCEPT ![c] = @ + 1]
       ELSE Goes(c, "answer") /\ UNCHANGED attempts
    /\ UNCHANGED <<clock, payload, outcome, active, receipts>>

Handled(c) ==
    /\ at[c] = "handler"
    /\ Goes(c, "answer")
    /\ payload' = [payload EXCEPT ![c] = TRUE]
    /\ UNCHANGED <<clock, attempts, outcome, active, receipts>>

\* TimeoutError or ConnectionError, until the attempts are used up.
HandlerFails(c) ==
    /\ at[c] = "handler"
    /\ IF attempts[c] <= MaxRetries THEN Goes(c, "attempt") /\ UNCHANGED outcome
                                    ELSE Responds(c, "error")
    /\ UNCHANGED <<clock, attempts, payload, active, receipts>>

\* Any other Exception is a response; what is no Exception leaves dispatch.
HandlerRaises(c) ==
    /\ at[c] = "handler"
    /\ \/ Responds(c, "error")
       \/ Goes(c, "escape") /\ outcome' = [outcome EXCEPT ![c] = "raised"]
    /\ UNCHANGED <<clock, attempts, payload, active, receipts>>

Answer(c) ==
    /\ at[c] = "answer"
    /\ Responds(c, IF clock[c] = "past" THEN "error" ELSE "ok")
    /\ UNCHANGED <<clock, attempts, payload, active, receipts>>

\* tracker.phase and finish, whose arguments may raise (int() of the handler's counts)
\* and send the call to the except branch.
Finish(c) ==
    /\ at[c] = "respond"
    /\ \/ /\ receipts' = receipts \cup {[call |-> active[IdOf[c]], success |-> outcome[c] = "ok"]}
          /\ active' = [active EXCEPT ![IdOf[c]] = None]
          /\ Goes(c, "done") /\ UNCHANGED outcome
       \/ /\ payload[c]
          /\ Goes(c, "escape") /\ outcome' = [outcome EXCEPT ![c] = "raised"]
          /\ UNCHANGED <<active, receipts>>
    /\ UNCHANGED <<clock, attempts, payload>>

\* except BaseException: the receipt is closed, and the exception goes on.
FinishRaising(c) ==
    /\ at[c] = "escape"
    /\ receipts' = receipts \cup {[call |-> active[IdOf[c]], success |-> FALSE]}
    /\ active' = [active EXCEPT ![IdOf[c]] = None]
    /\ Goes(c, "done")
    /\ UNCHANGED <<clock, attempts, payload, outcome>>

Next == \E c \in Call :
    \/ Pass(c) \/ Start(c) \/ Validate(c) \/ Attempt(c)
    \/ Handled(c) \/ HandlerFails(c) \/ HandlerRaises(c)
    \/ Answer(c) \/ Finish(c) \/ FinishRaising(c)

Spec == Init /\ [][Next]_vars
-----------------------------------------------------------------------------

TypeOK ==
    /\ at \in [Call -> {"idle", "refused", "dispatch", "attempt", "handler", "answer", "respond", "escape", "done"}]
    /\ clock \in [Call -> {"before", "at", "past"}]
    /\ attempts \in [Call -> 0..(MaxRetries + 1)]
    /\ payload \in [Call -> BOOLEAN]
    /\ outcome \in [Call -> {None, "ok", "error", "raised"}]
    /\ active \in [RequestId -> Call \cup {None}]
    /\ receipts \subseteq [call : Call, success : BOOLEAN]
=============================================================================
