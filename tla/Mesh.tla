-------------------------------- MODULE Mesh --------------------------------
(***************************************************************************)
(* neural_pods/mesh.py: envelopes that pods publish, receive and forward   *)
(* over an MQTT broker, and the retained presence record of an endpoint.   *)
(*                                                                         *)
(* Endpoints keep nothing of an envelope, so copies of it never meet: a    *)
(* behaviour follows one copy, which every forwarding replaces.  The       *)
(* broker delivers it to any endpoint, often, late or never; a publication *)
(* the broker refused fifteen times is lost.  Envelopes of another         *)
(* version, unsigned or unreadable, are dropped before what is modelled    *)
(* here; topics and bodies are left out.                                   *)
(***************************************************************************)
EXTENDS MeshState

vars == <<now, origin, wire, handling, sending>>

Init ==
    /\ now = 0
    /\ origin = {} /\ wire = {}
    /\ handling = [p \in Endpoint |-> {}]
    /\ sending = [p \in Endpoint |-> {}]

-----------------------------------------------------------------------------
(* envelope_refusal, of an envelope that arrives and of one to be forwarded. *)

Expired(e) == e.deadline # NoLimit /\ now > e.ts + e.deadline

Accepted(e) == ~Expired(e) /\ (e.budget # NoLimit => e.budget > 0)

Forwardable(e, p) ==
    /\ ~Expired(e)
    /\ e.budget # NoLimit /\ e.budget > 1
    /\ p \notin ToSet(e.visited)

-----------------------------------------------------------------------------
(* Messages. *)

Tick ==
    /\ now < MaxTime
    /\ now' = now + 1
    /\ UNCHANGED <<origin, wire, handling, sending>>

\* Under a link contract, which has a visited list, or without one.
Publish ==
    /\ origin = {}
    /\ \E budget \in Budgets, deadline \in Deadlines, visited \in {<<>>} \cup {<<p>> : p \in Endpoint} :
         LET e == [budget |-> budget, deadline |-> deadline, ts |-> now, visited |-> visited] IN
         /\ origin' = {e}
         /\ wire' = {[envelope |-> e, route |-> <<>>]}
    /\ UNCHANGED <<now, handling, sending>>

\* _on_message: handlers run on the network thread, for one envelope at a time.
Arrive(p) ==
    /\ handling[p] = {}
    /\ \E copy \in wire :
         /\ Accepted(copy.envelope)
         /\ handling' = [handling EXCEPT ![p] = {[copy |-> copy, since |-> now]}]
    /\ UNCHANGED <<now, origin, wire, sending>>

Return(p) ==
    /\ handling[p] # {} /\ sending[p] = {}
    /\ handling' = [handling EXCEPT ![p] = {}]
    /\ UNCHANGED <<now, origin, wire, sending>>

\* Seeded fault: a hop costs nothing.
OnwardUncounted(e, p) == [e EXCEPT !.visited = Append(@, p)]

Onward(e, p) == [e EXCEPT !.budget = @ - 1, !.visited = Append(@, p)]

\* forward, up to _publish_raw; a handler may forward more than once.
Forward(p) ==
    /\ sending[p] = {}
    /\ \E work \in handling[p] :
         /\ Forwardable(work.copy.envelope, p)
         /\ sending' = [sending EXCEPT ![p] = {[envelope |-> Onward(work.copy.envelope, p),
                                                route |-> Append(work.copy.route, p)]}]
    /\ UNCHANGED <<now, origin, wire, handling>>

\* _publish_raw: within fifteen attempts, or never.
Send(p) ==
    /\ sending[p] # {}
    /\ wire' \in {wire, sending[p]}
    /\ sending' = [sending EXCEPT ![p] = {}]
    /\ UNCHANGED <<now, origin, handling>>

Next ==
    \/ Tick \/ Publish
    \/ \E p \in Endpoint : Arrive(p) \/ Return(p) \/ Forward(p) \/ Send(p)

Spec == Init /\ [][Next]_vars
-----------------------------------------------------------------------------
(* Presence, which messages do not touch: a heartbeat thread renews the record *)
(* until close() has the last word.  Any publication may be refused by the     *)
(* broker and get lost.                                                        *)

presenceVars == <<link, stop, beat, retained, excused>>

PresenceInit ==
    /\ link = "open" /\ stop = FALSE
    /\ beat = "waits"
    /\ retained \in {"none", "online"}
    /\ excused = FALSE

\* _heartbeat_loop: the event is not set, and announce() follows, which may fail.
Beat ==
    /\ beat = "waits" /\ ~stop
    /\ beat' = "announces"
    /\ UNCHANGED <<link, stop, retained, excused>>

Announce ==
    /\ beat = "announces"
    /\ retained' \in IF link = "closed" THEN {retained} ELSE {retained, "online"}
    /\ beat' = "waits"
    /\ UNCHANGED <<link, stop, excused>>

\* Seeded fault: the heartbeat goes on.
CloseUnstopped ==
    /\ link = "open"
    /\ link' = "stopping"
    /\ excused' = (beat = "announces")
    /\ UNCHANGED <<stop, beat, retained>>

Close ==
    /\ link = "open"
    /\ link' = "stopping"
    /\ stop' = TRUE
    /\ excused' = (beat = "announces")
    /\ UNCHANGED <<beat, retained>>

SayOffline ==
    /\ link = "stopping"
    /\ link' = "leaving"
    /\ \/ retained' = "offline" /\ UNCHANGED excused
       \/ excused' = TRUE /\ UNCHANGED retained
    /\ UNCHANGED <<stop, beat>>

Disconnect ==
    /\ link = "leaving"
    /\ link' = "closed"
    /\ UNCHANGED <<stop, beat, retained, excused>>

PresenceNext == Beat \/ Announce \/ Close \/ SayOffline \/ Disconnect

PresenceSpec == PresenceInit /\ [][PresenceNext]_presenceVars
-----------------------------------------------------------------------------

TypeOK ==
    /\ now \in 0..MaxTime
    /\ \A copy \in Copies : /\ copy.envelope.budget \in Nat \cup {NoLimit}
                            /\ ToSet(copy.envelope.visited) \subseteq Endpoint
    /\ link \in {"open", "stopping", "leaving", "closed"}
    /\ stop \in BOOLEAN /\ excused \in BOOLEAN
    /\ beat \in {"waits", "announces"}
    /\ retained \in {"none", "online", "offline"}
=============================================================================
