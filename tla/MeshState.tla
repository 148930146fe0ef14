------------------------------ MODULE MeshState ------------------------------
(* The parameters and the state of Mesh, and what the mesh promises, apart   *)
(* from the steps so that a module that checks several components can extend *)
(* them.                                                                     *)
EXTENDS Integers, Sequences, SequencesExt

CONSTANTS
    Endpoint,  \* pod ids
    Budgets,   \* hop budgets given to publish, or NoLimit
    Deadlines, \* deadlines given to publish, or NoLimit
    MaxTime    \* bound: clock

NoLimit == -1

ASSUME MeshAssumption ==
    /\ Budgets \subseteq Nat \cup {NoLimit}
    /\ Deadlines \subseteq Nat \cup {NoLimit}
    /\ MaxTime \in Nat

VARIABLES
    now,
    origin,    \* the envelope as publish() sent it, {} before
    wire,      \* the copy the broker holds, and the pods that forwarded it
    handling,  \* the copy each endpoint's handler works on, and since when
    sending,   \* the pods in forward(), with the envelope they publish next
    link,      \* how far close() of an endpoint is
    stop,      \* _heartbeat_stop
    beat,      \* the heartbeat thread
    retained,  \* the presence record the broker keeps
    excused    \* history: a heartbeat was under way at close(), or "offline" was lost

-----------------------------------------------------------------------------
Works  == UNION {handling[p] : p \in Endpoint}
Sent   == UNION {sending[p] : p \in Endpoint}
Copies == wire \cup Sent \cup {work.copy : work \in Works}

\* mesh.py:34-46: whatever the broker repeats and however many handlers forward, a copy
\* takes fewer hops than the budget it was published with, never passes a pod twice, and
\* is handled by nobody after its original deadline.
HopsAreBounded ==
    \A e \in origin :
        /\ \A copy \in Copies : /\ IsInjective(copy.route) /\ ToSet(copy.route) \cap ToSet(e.visited) = {}
                                /\ copy.route # <<>> => Len(copy.route) < e.budget
        /\ e.deadline # NoLimit => \A work \in Works : work.since <= e.ts + e.deadline

\* mesh.py:192-207: close() leaves "offline" behind, unless that publication was lost or
\* the heartbeat was between its check of the event and its announcement.
PresenceEndsOffline == link = "closed" /\ ~excused => retained = "offline"
=============================================================================
