----------------------------- MODULE Household -----------------------------
(***************************************************************************)
(* neural_pods/household.py: donors offer memory, allocation requests are  *)
(* approved by every donor, started, released, and rebuilt from the event  *)
(* log after a restart.  Each method works under one lock, but start() and *)
(* release() record their event after they let go of it: an event waits in *)
(* "unlogged" and is lost if the process dies first.                       *)
(*                                                                         *)
(* Refusals, requests and approvals are logged too and never replayed, so  *)
(* their events are left out, as are calibrations and the token cache.     *)
(***************************************************************************)
EXTENDS Naturals, Sequences, FiniteSets, FiniteSetsExt, SequencesExt

CONSTANTS
    Pod,       \* donors
    Request,   \* allocation requests, each with an id of its own
    Donors,    \* the donors of each request, in order
    Segments,  \* the segments of each request, with their size and tier_preference
    Capacity,  \* the vram and ram each pod offers
    MaxLog     \* bound on the event log

Tier == {"vram", "ram"}

ASSUME HouseholdAssumption ==
    /\ Donors \in [Request -> Seq(Pod)]
    /\ Segments \in [Request -> Seq([size : Nat, tiers : Seq(Tier)])]
    /\ Capacity \in [Pod -> [Tier -> Nat]]
    /\ MaxLog \in Nat
    /\ Request \cap {"absent", "free"} = {}

VARIABLES
    offers,        \* absent, free, or the request the pod is busy with
    requests,      \* the status of each request; lost: forgotten by a restart
    approved,      \* the donors that approved
    reservations,  \* the plan of each reserved request
    log,           \* the started and released events of the registry
    unlogged,      \* events of calls that have not returned
    owed           \* what the log should tell a new process: the reservations of the last
                   \* one, known if it had read the log, had no event left to write and
                   \* none of them had overtaken another

vars == <<offers, requests, approved, reservations, log, unlogged, owed>>

Status == {"new", "pending", "approved", "started", "released", "lost"}
Entry  == [pod : Pod, tier : Tier, size : Nat]
Event  == [action : {"started", "released"}, request : Request, plan : Seq(Entry)]

PodsOf(plan) == {plan[i].pod : i \in DOMAIN plan}
Reserved     == DOMAIN reservations
Without(f, q) == [x \in DOMAIN f \ {q} |-> f[x]]
With(f, q, y) == [x \in DOMAIN f \cup {q} |-> IF x = q THEN y ELSE f[x]]

Init ==
    /\ offers = [p \in Pod |-> "absent"]
    /\ requests = [q \in Request |-> "new"]
    /\ approved = [q \in Request |-> {}]
    /\ reservations = <<>>
    /\ log = <<>>
    /\ unlogged = {}
    /\ owed = [complete |-> TRUE, known |-> FALSE, plans |-> <<>>]

-----------------------------------------------------------------------------
(* The plan of start(): every segment on the first donor and tier with room. *)

Used(plan, p, t) == FoldLeft(LAMBDA sum, e : IF e.pod = p /\ e.tier = t THEN sum + e.size ELSE sum, 0, plan)

\* Seeded fault: what the plan itself has claimed is not counted.
RoomOfOffer(plan, p, t, size) == size <= Capacity[p][t]

HasRoom(plan, p, t, size) == Used(plan, p, t) + size <= Capacity[p][t]

\* The segment joins the plan, unless nothing fits.
PlaceSegment(q, plan, s) ==
    LET donors == Donors[q]
        fits   == {ij \in (DOMAIN donors) \X (DOMAIN s.tiers) :
                     /\ offers[donors[ij[1]]] = "free"
                     /\ HasRoom(plan, donors[ij[1]], s.tiers[ij[2]], s.size)}
        first  == CHOOSE ij \in fits : \A kl \in fits : ij[1] < kl[1] \/ (ij[1] = kl[1] /\ ij[2] <= kl[2])
    IN  IF fits = {} THEN plan
        ELSE Append(plan, [pod |-> donors[first[1]], tier |-> s.tiers[first[2]], size |-> s.size])

PlanOf(q) == FoldLeft(LAMBDA plan, s : PlaceSegment(q, plan, s), <<>>, Segments[q])

-----------------------------------------------------------------------------
(* The operations. *)

\* A pod may join again at any time, with a fresh offer.
Join(p) ==
    /\ offers' = [offers EXCEPT ![p] = "free"]
    /\ UNCHANGED <<requests, approved, reservations, log, unlogged, owed>>

\* A busy donor refuses, which only leaves an event.
RequestAllocation(q) ==
    /\ requests[q] = "new"
    /\ \A p \in Range(Donors[q]) : offers[p] = "free"
    /\ requests' = [requests EXCEPT ![q] = "pending"]
    /\ UNCHANGED <<offers, approved, reservations, log, unlogged, owed>>

\* Seeded fault: anybody may approve.
ApproveAnybody(q, p) ==
    /\ requests[q] \notin {"new", "lost"}
    /\ p \notin approved[q]
    /\ approved' = [approved EXCEPT ![q] = @ \cup {p}]
    /\ requests' = IF approved'[q] = Range(Donors[q]) THEN [requests EXCEPT ![q] = "approved"] ELSE requests
    /\ UNCHANGED <<offers, reservations, log, unlogged, owed>>

Approve(q, p) ==
    /\ requests[q] \notin {"new", "lost"}
    /\ p \in Range(Donors[q]) \ approved[q]
    /\ approved' = [approved EXCEPT ![q] = @ \cup {p}]
    /\ requests' = IF approved'[q] = Range(Donors[q]) THEN [requests EXCEPT ![q] = "approved"] ELSE requests
    /\ UNCHANGED <<offers, reservations, log, unlogged, owed>>

MayStart(q) == requests[q] = "approved"

Start(q) ==
    /\ MayStart(q)
    /\ LET plan == PlanOf(q) IN
       /\ Len(plan) = Len(Segments[q])
       /\ offers' = [p \in Pod |-> IF p \in PodsOf(plan) THEN q ELSE offers[p]]
       /\ reservations' = With(reservations, q, plan)
       /\ unlogged' = unlogged \cup {[action |-> "started", request |-> q, plan |-> plan]}
    /\ requests' = [requests EXCEPT ![q] = "started"]
    /\ UNCHANGED <<approved, log, owed>>

Freed(q) == {p \in PodsOf(reservations[q]) : offers[p] = q}

\* Seeded fault: release() leaves no event.
ReleaseUnlogged(q) ==
    /\ requests[q] = "started"
    /\ offers' = [p \in Pod |-> IF p \in Freed(q) THEN "free" ELSE offers[p]]
    /\ reservations' = Without(reservations, q)
    /\ requests' = [requests EXCEPT ![q] = "released"]
    /\ UNCHANGED <<approved, log, unlogged, owed>>

Release(q) ==
    /\ requests[q] = "started"
    /\ offers' = [p \in Pod |-> IF p \in Freed(q) THEN "free" ELSE offers[p]]
    /\ reservations' = Without(reservations, q)
    /\ requests' = [requests EXCEPT ![q] = "released"]
    /\ unlogged' = unlogged \cup {[action |-> "released", request |-> q, plan |-> <<>>]}
    /\ UNCHANGED <<approved, log, owed>>

\* The transaction with which start() or release() ends.
RecordEvent ==
    /\ Len(log) < MaxLog
    /\ \E e \in unlogged : log' = Append(log, e) /\ unlogged' = unlogged \ {e}
    /\ UNCHANGED <<offers, requests, approved, reservations, owed>>

\* release(), called before start() returned, left its event first.
Overtaken == \E i, j \in DOMAIN log : /\ i < j /\ log[i].request = log[j].request
                                     /\ log[i].action = "released" /\ log[j].action = "started"

\* A new Household over the same registry.
Crash ==
    /\ offers' = [p \in Pod |-> "absent"]
    /\ requests' = [q \in Request |-> IF requests[q] = "new" THEN "new" ELSE "lost"]
    /\ approved' = [q \in Request |-> {}]
    /\ reservations' = <<>>
    /\ unlogged' = {}
    /\ owed' = [complete |-> FALSE, plans |-> reservations,
                known |-> owed.complete /\ unlogged = {} /\ ~Overtaken]
    /\ UNCHANGED log

\* The position of the started event that no released event of its request follows.
OpenStarts == {i \in DOMAIN log : /\ log[i].action = "started"
                                  /\ \A j \in i + 1..Len(log) : log[j].request # log[i].request}
OpenPlans == [q \in {log[i].request : i \in OpenStarts} |->
                (CHOOSE e \in {log[i] : i \in OpenStarts} : e.request = q).plan]

\* Donors of two open requests are left with the one started last.
BusyWith(p) ==
    LET holding == {i \in OpenStarts : p \in PodsOf(log[i].plan)}
    IN  IF offers[p] = "absent" THEN "absent"
        ELSE IF holding = {} THEN "free" ELSE log[Max(holding)].request

\* Seeded fault: the reservations are rebuilt and the requests are not.
RestoreReservations ==
    /\ \A q \in Request : requests[q] \in {"new", "lost"}
    /\ reservations' = OpenPlans
    /\ offers' = [p \in Pod |-> BusyWith(p)]
    /\ owed' = [owed EXCEPT !.complete = TRUE]
    /\ UNCHANGED <<requests, approved, log, unlogged>>

\* Called on a household that has not done anything yet.
Restore ==
    /\ \A q \in Request : requests[q] \in {"new", "lost"}
    /\ reservations' = OpenPlans
    /\ requests' = [q \in Request |-> IF q \in DOMAIN OpenPlans THEN "started" ELSE requests[q]]
    /\ approved' = [q \in Request |-> IF q \in DOMAIN OpenPlans THEN Range(Donors[q]) ELSE approved[q]]
    /\ offers' = [p \in Pod |-> BusyWith(p)]
    /\ owed' = [owed EXCEPT !.complete = TRUE]
    /\ UNCHANGED <<log, unlogged>>

Next ==
    \/ \E p \in Pod : Join(p)
    \/ \E q \in Request : \/ RequestAllocation(q) \/ Start(q) \/ Release(q)
                          \/ \E p \in Pod : Approve(q, p)
    \/ RecordEvent \/ Crash \/ Restore

Spec == Init /\ [][Next]_vars
-----------------------------------------------------------------------------
(* What the household promises. *)

TypeOK ==
    /\ offers \in [Pod -> {"absent", "free"} \cup Request]
    /\ requests \in [Request -> Status]
    /\ \A q \in Request : approved[q] \subseteq Range(Donors[q])
    /\ Reserved \subseteq Request /\ \A q \in Reserved : reservations[q] \in Seq(Entry)
    /\ log \in Seq(Event) /\ unlogged \subseteq Event
    /\ owed.known \in BOOLEAN /\ owed.complete \in BOOLEAN

\* Memory is held only with the consent of every donor of the request, on its donors,
\* and within what each of them offered in each tier, also after a restart (approve,
\* 153-178; start, 180-246; restore_from_events, 280-326).
ReservedWithConsent ==
    \A q \in Reserved :
      /\ approved[q] = Range(Donors[q])
      /\ PodsOf(reservations[q]) \subseteq approved[q]
      /\ \A p \in Pod, t \in Tier : Used(reservations[q], p, t) <= Capacity[p][t]

\* No donor stays busy for ever: whatever marks it busy is a started request with a
\* reservation that names it, which release() accepts and frees, also when donors
\* joined again or the household was restored (248-278; 300-324).
BusyCanBeReleased ==
    /\ Reserved = {q \in Request : requests[q] = "started"}
    /\ \A p \in Pod : offers[p] \in Request => /\ offers[p] \in Reserved
                                               /\ p \in PodsOf(reservations[offers[p]])

\* household.py:87, "a pod restart loses nothing": if every call had returned when the
\* process died, and no release() had overtaken its start(), restore_from_events() brings
\* back its reservations, no more, no less.
RestoreIsExact ==
    [][Restore /\ owed.known => reservations' = owed.plans]_vars

\* household.py:7-8, "Busy donors refuse new work without replacing running requests":
\* no donor is held by two reservations.
NoDoubleBooking ==
    \A q, r \in Reserved :
      q # r => PodsOf(reservations[q]) \cap PodsOf(reservations[r]) = {}
=============================================================================
