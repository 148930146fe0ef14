--------------------------- MODULE HouseholdProofs ---------------------------
(***************************************************************************)
(* The household: a busy donor can always be released, a restart brings    *)
(* back every reservation, and memory is held only with consent and within *)
(* the offers, for every set of pods and requests and every log, through   *)
(* crashes, restores and pods that join again.                             *)
(***************************************************************************)
EXTENDS Household, FiniteSetTheorems, WellFoundedInduction, TLAPS

-----------------------------------------------------------------------------
(* The household.                                                            *)

\* The part of TypeOK that the argument needs; what is in a plan does not matter.
OffersAndRequests ==
    /\ offers \in [Pod -> {"absent", "free"} \cup Request]
    /\ requests \in [Request -> Status]
    /\ Reserved \subseteq Request

\* The log is a sequence, and its events are about requests.
EventsAreOfRequests ==
    /\ \E S : log \in Seq(S)
    /\ \A i \in DOMAIN log : log[i].request \in Request
    /\ \A e \in unlogged : e.request \in Request

\* Nothing is left to approve in a request that was approved once, so a late approval
\* cannot take a started request back to approved (170-171).
ConsentIsComplete ==
    /\ approved \in [Request -> SUBSET Pod]
    /\ \A q \in Request : requests[q] \in {"approved", "started", "released"} => approved[q] = Range(Donors[q])

HouseholdInv == OffersAndRequests /\ EventsAreOfRequests /\ ConsentIsComplete /\ BusyCanBeReleased

LEMMA DonorsArePods == \A q \in Request : Range(Donors[q]) \subseteq Pod
  <1> SUFFICES ASSUME NEW q \in Request PROVE Range(Donors[q]) \subseteq Pod
    OBVIOUS
  <1>1. Donors[q] \in Seq(Pod)
    BY HouseholdAssumption
  <1> QED
    BY <1>1 DEF Range

\* Max of a non-empty set of positions is one of them (restore_from_events lets the
\* last open request keep the donor, 319-324).
LEMMA MaxIsMember ==
  ASSUME NEW n \in Nat, NEW T, T \subseteq 1..n, T # {}
  PROVE  Max(T) \in T
  <1> DEFINE U == {n - i : i \in T}
             R == OpToRel(<, Nat)
  <1>1. U \subseteq Nat /\ U # {}
    <2>1. \A i \in T : n - i \in Nat
      OBVIOUS
    <2>2. PICK i \in T : TRUE
      OBVIOUS
    <2>3. n - i \in U
      BY <2>2
    <2> QED
      BY <2>1, <2>3
  <1>2. PICK u \in U : \A v \in U : ~(<<v, u>> \in R)
    <2> HIDE DEF U
    <2> QED
      BY <1>1, NatLessThanWellFounded, WFMin, Zenon
  <1>3. \A v \in U : ~(v < u)
    BY <1>1, <1>2 DEF OpToRel
  <1>4. PICK i \in T : u = n - i
    OBVIOUS
  <1>5. \A j \in T : i >= j
    <2> TAKE j \in T
    <2>1. n - j \in U
      OBVIOUS
    <2> QED
      BY <2>1, <1>3, <1>4
  <1> QED
    BY <1>5 DEF Max

\* The last start of an open request is its only open one (restore_from_events, 288-296).
LEMMA OpenPlanOf ==
  ASSUME EventsAreOfRequests, NEW i \in OpenStarts
  PROVE  /\ log[i].request \in DOMAIN OpenPlans
         /\ OpenPlans[log[i].request] = log[i].plan
  <1>1. PICK n \in Nat : DOMAIN log = 1..n /\ n = Len(log)
    BY DEF EventsAreOfRequests
  <1>2. \A j \in OpenStarts : log[j].request = log[i].request => j = i
    BY <1>1 DEF OpenStarts
  <1>3. {log[j] : j \in OpenStarts} # {} /\ log[i] \in {log[j] : j \in OpenStarts}
    OBVIOUS
  <1>4. (CHOOSE e \in {log[j] : j \in OpenStarts} : e.request = log[i].request) = log[i]
    BY <1>2, <1>3
  <1> QED
    BY <1>4 DEF OpenPlans

LEMMA HouseholdInit == Init => HouseholdInv
  <1> SUFFICES ASSUME Init PROVE HouseholdInv
    OBVIOUS
  <1> USE HouseholdAssumption DEF Init
  <1>1. Reserved = {}
    BY DEF Reserved
  <1>2. OffersAndRequests
    BY <1>1 DEF OffersAndRequests, Status
  <1>3. EventsAreOfRequests
    BY DEF EventsAreOfRequests
  <1>4. ConsentIsComplete
    BY DEF ConsentIsComplete
  <1>5. BusyCanBeReleased
    BY <1>1 DEF BusyCanBeReleased
  <1> QED
    BY <1>2, <1>3, <1>4, <1>5 DEF HouseholdInv

\* start (180-246) marks the donors of its plan and makes the reservation that names them.
LEMMA StartKeeps ==
  ASSUME HouseholdInv, NEW q \in Request, Start(q)
  PROVE  HouseholdInv'
  <1> USE DEF HouseholdInv
  <1> DEFINE plan == PlanOf(q)
  <1>1. /\ requests[q] = "approved" /\ requests' = [requests EXCEPT ![q] = "started"]
        /\ offers' = [p \in Pod |-> IF p \in PodsOf(plan) THEN q ELSE offers[p]]
        /\ reservations' = With(reservations, q, plan)
        /\ unlogged' = unlogged \cup {[action |-> "started", request |-> q, plan |-> plan]}
        /\ log' = log /\ approved' = approved
    BY DEF Start, MayStart
  <1> HIDE DEF plan
  <1>2. Reserved' = Reserved \cup {q} /\ q \notin Reserved
    BY <1>1 DEF Reserved, With, BusyCanBeReleased
  <1>3. \A r \in Reserved' : reservations'[r] = IF r = q THEN plan ELSE reservations[r]
    BY <1>1, <1>2 DEF Reserved, With
  <1>4. OffersAndRequests'
    BY <1>1, <1>2 DEF OffersAndRequests, Status
  <1>5. EventsAreOfRequests'
    BY <1>1 DEF EventsAreOfRequests
  <1>6. BusyCanBeReleased'
    <2>1. Reserved' = {r \in Request : requests'[r] = "started"}
      BY <1>1, <1>2 DEF OffersAndRequests, BusyCanBeReleased
    <2>2. ASSUME NEW p \in Pod, offers'[p] \in Request
          PROVE  offers'[p] \in Reserved' /\ p \in PodsOf(reservations'[offers'[p]])
      <3>1. CASE p \in PodsOf(plan)
        BY <3>1, <1>1, <1>2, <1>3
      <3>2. CASE p \notin PodsOf(plan)
        BY <3>2, <2>2, <1>1, <1>2, <1>3 DEF BusyCanBeReleased
      <3> QED
        BY <3>1, <3>2
    <2> QED
      BY <2>1, <2>2 DEF BusyCanBeReleased
  <1>7. ConsentIsComplete'
    BY <1>1 DEF ConsentIsComplete, OffersAndRequests
  <1> QED
    BY <1>4, <1>5, <1>6, <1>7

\* release (248-278) frees every donor that is busy with the request.
LEMMA ReleaseKeeps ==
  ASSUME HouseholdInv, NEW q \in Request, Release(q)
  PROVE  HouseholdInv'
  <1> USE DEF HouseholdInv
  <1>1. /\ requests[q] = "started" /\ requests' = [requests EXCEPT ![q] = "released"]
        /\ offers' = [p \in Pod |-> IF p \in Freed(q) THEN "free" ELSE offers[p]]
        /\ reservations' = Without(reservations, q)
        /\ unlogged' = unlogged \cup {[action |-> "released", request |-> q, plan |-> <<>>]}
        /\ log' = log /\ approved' = approved
    BY DEF Release
  <1>2. Reserved' = Reserved \ {q} /\ \A r \in Reserved' : reservations'[r] = reservations[r]
    BY <1>1 DEF Reserved, Without
  <1>3. \A p \in Pod : offers[p] = q => p \in Freed(q)
    BY DEF Freed, BusyCanBeReleased
  <1>4. OffersAndRequests'
    BY <1>1, <1>2 DEF OffersAndRequests, Status
  <1>5. EventsAreOfRequests'
    BY <1>1 DEF EventsAreOfRequests
  <1>6. BusyCanBeReleased'
    <2>1. Reserved' = {r \in Request : requests'[r] = "started"}
      BY <1>1, <1>2 DEF OffersAndRequests, BusyCanBeReleased
    <2>2. ASSUME NEW p \in Pod, offers'[p] \in Request
          PROVE  offers'[p] \in Reserved' /\ p \in PodsOf(reservations'[offers'[p]])
      <3>1. offers'[p] = offers[p] /\ offers[p] # q
        BY <2>2, <1>1, <1>3, HouseholdAssumption
      <3> QED
        BY <3>1, <2>2, <1>2 DEF BusyCanBeReleased
    <2> QED
      BY <2>1, <2>2 DEF BusyCanBeReleased
  <1>7. ConsentIsComplete'
    BY <1>1 DEF ConsentIsComplete, OffersAndRequests
  <1> QED
    BY <1>4, <1>5, <1>6, <1>7

\* restore_from_events (280-326) marks a donor only with an open request of the log,
\* and rebuilds that request and its reservation as well.
LEMMA RestoreKeeps ==
  ASSUME HouseholdInv, Restore
  PROVE  HouseholdInv'
  <1> USE DEF HouseholdInv
  <1> DEFINE Open == {log[i].request : i \in OpenStarts}
  <1>1. /\ \A q \in Request : requests[q] \in {"new", "lost"}
        /\ reservations' = OpenPlans
        /\ requests' = [q \in Request |-> IF q \in DOMAIN OpenPlans THEN "started" ELSE requests[q]]
        /\ offers' = [p \in Pod |-> BusyWith(p)]
        /\ approved' = [q \in Request |-> IF q \in DOMAIN OpenPlans THEN Range(Donors[q]) ELSE approved[q]]
        /\ log' = log /\ unlogged' = unlogged
    BY DEF Restore
  <1>2. DOMAIN OpenPlans = Open /\ Open \subseteq Request
    BY DEF OpenPlans, OpenStarts, EventsAreOfRequests
  <1>3. Reserved' = Open
    BY <1>1, <1>2 DEF Reserved
  <1>4. PICK n \in Nat : DOMAIN log = 1..n
    BY DEF EventsAreOfRequests
  <1>5. n = Len(log)
    BY <1>4 DEF EventsAreOfRequests
  <1>6. ASSUME NEW i \in OpenStarts
        PROVE  OpenPlans[log[i].request] = log[i].plan
    BY OpenPlanOf
  <1>7. ASSUME NEW p \in Pod, BusyWith(p) \notin {"absent", "free"}
        PROVE  \E i \in OpenStarts : BusyWith(p) = log[i].request /\ p \in PodsOf(log[i].plan)
    <2> DEFINE holding == {i \in OpenStarts : p \in PodsOf(log[i].plan)}
    <2>1. holding # {} /\ BusyWith(p) = log[Max(holding)].request
      BY <1>7 DEF BusyWith
    <2>2. holding \subseteq 1..n
      BY <1>4 DEF OpenStarts
    <2> HIDE DEF holding
    <2>3. Max(holding) \in holding
      BY <2>1, <2>2, MaxIsMember
    <2> USE DEF holding
    <2> QED
      BY <2>1, <2>3
  <1>8. OffersAndRequests'
    <2>1. \A p \in Pod : BusyWith(p) \in {"absent", "free"} \cup Request
      BY <1>7, <1>2
    <2> QED
      BY <2>1, <1>1, <1>2, <1>3 DEF OffersAndRequests, Status
  <1>9. EventsAreOfRequests'
    BY <1>1 DEF EventsAreOfRequests
  <1>10. BusyCanBeReleased'
    <2>1. Reserved' = {q \in Request : requests'[q] = "started"}
      BY <1>1, <1>2, <1>3
    <2>2. ASSUME NEW p \in Pod, offers'[p] \in Request
          PROVE  offers'[p] \in Reserved' /\ p \in PodsOf(reservations'[offers'[p]])
      <3>1. offers'[p] = BusyWith(p) /\ BusyWith(p) \notin {"absent", "free"}
        BY <2>2, <1>1, HouseholdAssumption
      <3>2. PICK i \in OpenStarts : BusyWith(p) = log[i].request /\ p \in PodsOf(log[i].plan)
        BY <3>1, <1>7
      <3>3. OpenPlans[log[i].request] = log[i].plan
        BY <1>6
      <3> QED
        BY <3>1, <3>2, <3>3, <1>1, <1>3
    <2> QED
      BY <2>1, <2>2 DEF BusyCanBeReleased
  <1>11. ConsentIsComplete'
    BY <1>1, DonorsArePods DEF ConsentIsComplete
  <1> QED
    BY <1>8, <1>9, <1>10, <1>11

\* The other operations leave the reservations alone, or forget all of them.
LEMMA OthersKeep ==
  ASSUME HouseholdInv,
         \/ \E p \in Pod : Join(p)
         \/ \E q \in Request : RequestAllocation(q) \/ \E p \in Pod : Approve(q, p)
         \/ RecordEvent \/ Crash \/ UNCHANGED vars
  PROVE  HouseholdInv'
  <1> USE HouseholdAssumption DEF HouseholdInv, OffersAndRequests, EventsAreOfRequests, BusyCanBeReleased,
          ConsentIsComplete, Reserved, Status
  <1>1. CASE \E p \in Pod : Join(p)
    BY <1>1 DEF Join
  <1>2. CASE \E q \in Request : RequestAllocation(q)
    BY <1>2 DEF RequestAllocation
  <1>3. ASSUME NEW q \in Request, NEW p \in Pod, Approve(q, p)
        PROVE  HouseholdInv'
    <2>1. /\ approved' = [approved EXCEPT ![q] = @ \cup {p}] /\ p \in Range(Donors[q]) \ approved[q]
          /\ UNCHANGED <<offers, reservations, log, unlogged>>
      BY <1>3 DEF Approve
    <2>2. requests[q] \notin {"approved", "started", "released"}
      BY <2>1
    <2>3. approved' \in [Request -> SUBSET Pod]
      BY <2>1, DonorsArePods
    <2>4. CASE approved'[q] = Range(Donors[q])
      <3>1. requests' = [requests EXCEPT ![q] = "approved"]
        BY <1>3, <2>4 DEF Approve
      <3>2. requests' \in [Request -> Status] /\ requests[q] # "started" /\ requests'[q] = "approved"
        BY <2>2, <3>1
      <3>3. {r \in Request : requests'[r] = "started"} = {r \in Request : requests[r] = "started"}
        BY <3>1, <3>2
      <3>4. \A r \in Request : requests'[r] \in {"approved", "started", "released"} => approved'[r] = Range(Donors[r])
        BY <2>1, <2>2, <2>4, <3>1
      <3> QED
        BY <2>1, <2>3, <3>2, <3>3, <3>4
    <2>5. CASE approved'[q] # Range(Donors[q])
      <3>1. requests' = requests
        BY <1>3, <2>5 DEF Approve
      <3> QED
        BY <2>1, <2>2, <2>3, <3>1
    <2> QED
      BY <2>4, <2>5
  <1>4. CASE RecordEvent
    <2>1. PICK e \in unlogged : log' = Append(log, e) /\ unlogged' = unlogged \ {e}
      BY <1>4 DEF RecordEvent
    <2>2. UNCHANGED <<offers, requests, approved, reservations>>
      BY <1>4 DEF RecordEvent
    <2>3. PICK S : log \in Seq(S)
      OBVIOUS
    <2>4. log \in Seq(S \cup {e}) /\ log' \in Seq(S \cup {e})
      BY <2>1, <2>3
    <2>5. \A i \in DOMAIN log' : log'[i] = e \/ (i \in DOMAIN log /\ log'[i] = log[i])
      BY <2>1, <2>4
    <2>6. \A i \in DOMAIN log' : log'[i].request \in Request
      BY <2>5
    <2> QED
      BY <2>1, <2>2, <2>4, <2>6
  <1>5. CASE Crash
    BY <1>5 DEF Crash
  <1>6. CASE UNCHANGED vars
    BY <1>6 DEF vars
  <1> QED
    BY <1>1, <1>2, <1>3, <1>4, <1>5, <1>6

\* household.py:248-254 and 300-304: no donor is left busy without a started request
\* and a reservation by which release() frees it.
THEOREM BusyDonorsAreReleasable == Spec => []BusyCanBeReleased
  <1>1. HouseholdInv /\ [Next]_vars => HouseholdInv'
    BY StartKeeps, ReleaseKeeps, RestoreKeeps, OthersKeep DEF Next
  <1>2. HouseholdInv => BusyCanBeReleased
    BY DEF HouseholdInv
  <1> QED
    BY <1>1, <1>2, HouseholdInit, PTL DEF Spec
-----------------------------------------------------------------------------
(* What the log tells a new process. *)

\* Nothing was logged of a request that has not started.
NothingYet ==
    \A q \in Request : requests[q] \in {"new", "pending", "approved"} =>
      /\ \A e \in unlogged : e.request # q
      /\ \A i \in DOMAIN log : log[i].request # q

\* Calls that have not returned are about requests of this process.
UnloggedAreCurrent ==
    \A e \in unlogged : /\ requests[e.request] \in {"started", "released"}
                        /\ e.action \in {"started", "released"}

\* A reservation is told by the started event, in the log or on its way there.
StartIsTold(q) ==
    \/ /\ \A i \in DOMAIN log : log[i].request # q
       /\ \E e \in unlogged : /\ e.action = "started" /\ e.request = q /\ e.plan = reservations[q]
                              /\ \A f \in unlogged : f.request = q => f = e
    \/ /\ \A e \in unlogged : e.request # q
       /\ \E i \in OpenStarts : log[i].request = q /\ log[i].plan = reservations[q]

\* What no longer holds memory is closed in the log, or will be, or its release() overtook
\* its start().
EndIsTold(q) ==
    \/ \E e \in unlogged : e.request = q /\ e.action = "released"
    \/ /\ \A i \in OpenStarts : log[i].request # q
       /\ \/ \A e \in unlogged : e.request # q
          \/ \E i \in DOMAIN log : log[i].request = q /\ log[i].action = "released"

LogTells ==
    owed.complete /\ ~Overtaken =>
      \A q \in Request : /\ requests[q] = "started" => StartIsTold(q)
                         /\ requests[q] \in {"released", "lost"} => EndIsTold(q)

\* A process that has not done anything yet finds in the log what is owed.
OwedIsLogged ==
    owed.known /\ (\A q \in Request : requests[q] \in {"new", "lost"}) => owed.plans = OpenPlans

ReservationsAreFunctions == reservations = [q \in Reserved |-> reservations[q]]
OwedIsRecord == \E S : owed \in [complete : BOOLEAN, known : BOOLEAN, plans : S]

RestoreInv == /\ HouseholdInv /\ NothingYet /\ UnloggedAreCurrent /\ LogTells /\ OwedIsLogged
              /\ ReservationsAreFunctions /\ OwedIsRecord

LEMMA RestoreInit == Init => RestoreInv
  <1> SUFFICES ASSUME Init PROVE RestoreInv
    OBVIOUS
  <1>1. HouseholdInv
    BY HouseholdInit
  <1>2. NothingYet /\ UnloggedAreCurrent /\ LogTells /\ OwedIsLogged
    BY DEF Init, NothingYet, UnloggedAreCurrent, LogTells, OwedIsLogged
  <1>3. ReservationsAreFunctions
    BY DEF Init, ReservationsAreFunctions, Reserved
  <1>4. owed \in [complete : BOOLEAN, known : BOOLEAN, plans : {<<>>}]
    BY DEF Init
  <1> QED
    BY <1>1, <1>2, <1>3, <1>4 DEF RestoreInv, OwedIsRecord

\* A recorded event closes or opens nothing but its own request.
LEMMA AppendOpens ==
  ASSUME EventsAreOfRequests, NEW e \in unlogged, log' = Append(log, e)
  PROVE  /\ DOMAIN log' = DOMAIN log \cup {Len(log) + 1} /\ Len(log) + 1 \notin DOMAIN log
         /\ log'[Len(log) + 1] = e /\ \A i \in DOMAIN log : log'[i] = log[i]
         /\ OpenStarts' = {i \in OpenStarts : log[i].request # e.request}
                            \cup (IF e.action = "started" THEN {Len(log) + 1} ELSE {})
         /\ ~Overtaken' => /\ ~Overtaken
                           /\ e.action = "started" =>
                                \A i \in DOMAIN log : ~(log[i].request = e.request /\ log[i].action = "released")
  <1>1. PICK S : log \in Seq(S)
    BY DEF EventsAreOfRequests
  <1>2. log \in Seq(S \cup {e}) /\ log' \in Seq(S \cup {e})
    BY <1>1
  <1>3. Len(log') = Len(log) + 1 /\ Len(log) \in Nat /\ DOMAIN log = 1..Len(log) /\ DOMAIN log' = 1..(Len(log) + 1)
    BY <1>2
  <1>4. log'[Len(log) + 1] = e /\ \A i \in DOMAIN log : log'[i] = log[i]
    BY <1>2, <1>3
  <1>5. OpenStarts' = {i \in OpenStarts : log[i].request # e.request}
                        \cup (IF e.action = "started" THEN {Len(log) + 1} ELSE {})
    <2> DEFINE n == Len(log)
    <2>1. \A i \in 1..n : i \in OpenStarts' <=> i \in OpenStarts /\ log[i].request # e.request
      BY <1>3, <1>4 DEF OpenStarts
    <2>2. n + 1 \in OpenStarts' <=> e.action = "started"
      BY <1>3, <1>4 DEF OpenStarts
    <2>3. OpenStarts' \subseteq 1..(n + 1) /\ OpenStarts \subseteq 1..n
      BY <1>3 DEF OpenStarts
    <2>4. \A i : i \in 1..(n + 1) <=> i \in 1..n \/ i = n + 1
      BY <1>3
    <2>5. n + 1 \notin 1..n
      BY <1>3
    <2> HIDE DEF n
    <2>6. \A i : i \in OpenStarts' <=> \/ i \in {j \in OpenStarts : log[j].request # e.request}
                                      \/ (i = n + 1 /\ e.action = "started")
      BY <2>1, <2>2, <2>3, <2>4, <2>5, Zenon
    <2>7. OpenStarts' = {i \in OpenStarts : log[i].request # e.request}
                         \cup (IF e.action = "started" THEN {n + 1} ELSE {})
      BY <2>6, Zenon
    <2> QED
      BY <2>7, Zenon DEF n
  <1>6. ~Overtaken' => /\ ~Overtaken
                       /\ e.action = "started" =>
                            \A i \in DOMAIN log : ~(log[i].request = e.request /\ log[i].action = "released")
    <2>1. Overtaken => Overtaken'
      BY <1>3, <1>4 DEF Overtaken
    <2>2. ASSUME e.action = "started", NEW i \in DOMAIN log,
                 log[i].request = e.request, log[i].action = "released"
          PROVE  Overtaken'
      <3>1. i \in DOMAIN log' /\ Len(log) + 1 \in DOMAIN log' /\ i < Len(log) + 1
        BY <1>3
      <3> QED
        BY <3>1, <2>2, <1>4 DEF Overtaken
    <2> QED
      BY <2>1, <2>2
  <1>7. DOMAIN log' = DOMAIN log \cup {Len(log) + 1} /\ Len(log) + 1 \notin DOMAIN log
    BY <1>3
  <1> QED
    BY <1>4, <1>5, <1>6, <1>7

\* Requests and approvals happen before anything is logged; a pod that joins changes
\* neither requests nor reservations.
LEMMA QuietSteps ==
  ASSUME RestoreInv, HouseholdInv',
         UNCHANGED <<reservations, log, unlogged, owed>>,
         \A q \in Request : \/ requests'[q] = requests[q]
                           \/ /\ requests[q] \in {"new", "pending", "approved"}
                              /\ requests'[q] \in {"pending", "approved"}
  PROVE  RestoreInv'
  <1> USE DEF RestoreInv
  <1>1. OpenStarts' = OpenStarts /\ Overtaken' = Overtaken /\ OpenPlans' = OpenPlans
    BY DEF OpenStarts, Overtaken, OpenPlans
  <1>2. NothingYet'
    BY DEF NothingYet
  <1>3. UnloggedAreCurrent'
    BY DEF UnloggedAreCurrent, HouseholdInv, EventsAreOfRequests
  <1>4. LogTells'
    <2> SUFFICES ASSUME owed.complete, ~Overtaken, NEW q \in Request
                 PROVE  /\ requests'[q] = "started" => StartIsTold(q)'
                        /\ requests'[q] \in {"released", "lost"} => EndIsTold(q)'
      BY <1>1 DEF LogTells
    <2>1. requests'[q] \in {"started", "released", "lost"} => requests'[q] = requests[q]
      OBVIOUS
    <2>2. StartIsTold(q) => StartIsTold(q)'
      BY <1>1 DEF StartIsTold
    <2>3. EndIsTold(q) => EndIsTold(q)'
      BY <1>1 DEF EndIsTold
    <2> QED
      BY <2>1, <2>2, <2>3 DEF LogTells
  <1>5. OwedIsLogged'
    BY <1>1 DEF OwedIsLogged
  <1>6. ReservationsAreFunctions' /\ OwedIsRecord'
    BY DEF ReservationsAreFunctions, OwedIsRecord, Reserved
  <1> QED
    BY <1>2, <1>3, <1>4, <1>5, <1>6

\* start: the event is on its way, and the only one of its request.
LEMMA StartTells ==
  ASSUME RestoreInv, HouseholdInv', NEW q \in Request, Start(q)
  PROVE  RestoreInv'
  <1> USE DEF RestoreInv
  <1> DEFINE plan == PlanOf(q)
             told == [action |-> "started", request |-> q, plan |-> plan]
  <1>1. /\ requests[q] = "approved" /\ requests' = [requests EXCEPT ![q] = "started"]
        /\ reservations' = With(reservations, q, plan)
        /\ unlogged' = unlogged \cup {told}
        /\ log' = log /\ owed' = owed
    BY DEF Start, MayStart
  <1> HIDE DEF plan
  <1>2. told.action = "started" /\ told.request = q /\ told.plan = plan
    OBVIOUS
  <1> HIDE DEF told
  <1>3. OpenStarts' = OpenStarts /\ Overtaken' = Overtaken /\ OpenPlans' = OpenPlans
    BY <1>1 DEF OpenStarts, Overtaken, OpenPlans
  <1>4. Reserved' = Reserved \cup {q} /\ reservations'[q] = plan
        /\ \A r \in Reserved : r # q => reservations'[r] = reservations[r]
    BY <1>1 DEF Reserved, With
  <1>5. /\ \A e \in unlogged : e.request # q
        /\ \A i \in DOMAIN log : log[i].request # q
    BY <1>1 DEF NothingYet
  <1>6. \A r \in Request : requests'[r] = IF r = q THEN "started" ELSE requests[r]
    BY <1>1 DEF HouseholdInv, OffersAndRequests
  <1>7. NothingYet'
    BY <1>1, <1>2, <1>6 DEF NothingYet
  <1>8. UnloggedAreCurrent'
    BY <1>1, <1>2, <1>6 DEF UnloggedAreCurrent, HouseholdInv, EventsAreOfRequests
  <1>9. LogTells'
    <2> SUFFICES ASSUME owed.complete, ~Overtaken, NEW r \in Request
                 PROVE  /\ requests'[r] = "started" => StartIsTold(r)'
                        /\ requests'[r] \in {"released", "lost"} => EndIsTold(r)'
      BY <1>1, <1>3 DEF LogTells
    <2>1. CASE r = q
      BY <2>1, <1>1, <1>2, <1>4, <1>5, <1>6 DEF StartIsTold
    <2>2. CASE r # q
      <3>1. requests[r] = "started" => r \in Reserved
        BY DEF HouseholdInv, BusyCanBeReleased
      <3>2. r \in Reserved /\ StartIsTold(r) => StartIsTold(r)'
        BY <2>2, <1>1, <1>2, <1>3, <1>4 DEF StartIsTold
      <3>3. EndIsTold(r) => EndIsTold(r)'
        BY <2>2, <1>1, <1>2, <1>3 DEF EndIsTold
      <3> QED
        BY <2>2, <3>1, <3>2, <3>3, <1>6 DEF LogTells
    <2> QED
      BY <2>1, <2>2
  <1>10. OwedIsLogged'
    BY <1>6 DEF OwedIsLogged
  <1>11. ReservationsAreFunctions'
    BY <1>1 DEF ReservationsAreFunctions, Reserved, With
  <1>12. OwedIsRecord'
    BY <1>1 DEF OwedIsRecord
  <1> QED
    BY <1>7, <1>8, <1>9, <1>10, <1>11, <1>12

\* release: the request's end is on its way.
LEMMA ReleaseTells ==
  ASSUME RestoreInv, HouseholdInv', NEW q \in Request, Release(q)
  PROVE  RestoreInv'
  <1> USE DEF RestoreInv
  <1> DEFINE told == [action |-> "released", request |-> q, plan |-> <<>>]
  <1>1. /\ requests[q] = "started" /\ requests' = [requests EXCEPT ![q] = "released"]
        /\ reservations' = Without(reservations, q)
        /\ unlogged' = unlogged \cup {told}
        /\ log' = log /\ owed' = owed
    BY DEF Release
  <1>2. told.action = "released" /\ told.request = q
    OBVIOUS
  <1> HIDE DEF told
  <1>3. OpenStarts' = OpenStarts /\ Overtaken' = Overtaken /\ OpenPlans' = OpenPlans
    BY <1>1 DEF OpenStarts, Overtaken, OpenPlans
  <1>4. Reserved' = Reserved \ {q} /\ \A r \in Reserved : r # q => reservations'[r] = reservations[r]
    BY <1>1 DEF Reserved, Without
  <1>5. \A r \in Request : requests'[r] = IF r = q THEN "released" ELSE requests[r]
    BY <1>1 DEF HouseholdInv, OffersAndRequests
  <1>6. NothingYet'
    BY <1>1, <1>2, <1>5 DEF NothingYet
  <1>7. UnloggedAreCurrent'
    BY <1>1, <1>2, <1>5 DEF UnloggedAreCurrent, HouseholdInv, EventsAreOfRequests
  <1>8. LogTells'
    <2> SUFFICES ASSUME owed.complete, ~Overtaken, NEW r \in Request
                 PROVE  /\ requests'[r] = "started" => StartIsTold(r)'
                        /\ requests'[r] \in {"released", "lost"} => EndIsTold(r)'
      BY <1>1, <1>3 DEF LogTells
    <2>1. CASE r = q
      BY <2>1, <1>1, <1>2, <1>5 DEF EndIsTold
    <2>2. CASE r # q
      <3>1. requests[r] = "started" => r \in Reserved
        BY DEF HouseholdInv, BusyCanBeReleased
      <3>2. r \in Reserved /\ StartIsTold(r) => StartIsTold(r)'
        BY <2>2, <1>1, <1>2, <1>3, <1>4 DEF StartIsTold
      <3>3. EndIsTold(r) => EndIsTold(r)'
        BY <2>2, <1>1, <1>2, <1>3 DEF EndIsTold
      <3> QED
        BY <2>2, <3>1, <3>2, <3>3, <1>5 DEF LogTells
    <2> QED
      BY <2>1, <2>2
  <1>9. OwedIsLogged'
    BY <1>5 DEF OwedIsLogged
  <1>10. ReservationsAreFunctions'
    BY <1>1 DEF ReservationsAreFunctions, Reserved, Without
  <1>11. OwedIsRecord'
    BY <1>1 DEF OwedIsRecord
  <1> QED
    BY <1>6, <1>7, <1>8, <1>9, <1>10, <1>11

\* The event of a call arrives in the log.
LEMMA RecordTells ==
  ASSUME RestoreInv, HouseholdInv', RecordEvent
  PROVE  RestoreInv'
  <1> USE DEF RestoreInv
  <1>1. PICK e \in unlogged : log' = Append(log, e) /\ unlogged' = unlogged \ {e}
    BY DEF RecordEvent
  <1>2. UNCHANGED <<requests, reservations, owed>>
    BY DEF RecordEvent
  <1> DEFINE n == Len(log) + 1
  <1>3. /\ DOMAIN log' = DOMAIN log \cup {n} /\ n \notin DOMAIN log
        /\ log'[n] = e /\ \A i \in DOMAIN log : log'[i] = log[i]
        /\ OpenStarts' = {i \in OpenStarts : log[i].request # e.request}
                           \cup (IF e.action = "started" THEN {n} ELSE {})
        /\ ~Overtaken' => /\ ~Overtaken
                          /\ e.action = "started" =>
                               \A i \in DOMAIN log : ~(log[i].request = e.request /\ log[i].action = "released")
    BY <1>1, AppendOpens DEF HouseholdInv
  <1> HIDE DEF n
  <1>4. OpenStarts \subseteq DOMAIN log
    BY DEF OpenStarts
  <1>5. /\ e.request \in Request /\ requests[e.request] \in {"started", "released"}
        /\ e.action \in {"started", "released"}
    BY <1>1 DEF UnloggedAreCurrent, HouseholdInv, EventsAreOfRequests
  <1>6. NothingYet'
    BY <1>1, <1>2, <1>3, <1>5 DEF NothingYet
  <1>7. UnloggedAreCurrent'
    BY <1>1, <1>2 DEF UnloggedAreCurrent
  <1>8. LogTells'
    <2> SUFFICES ASSUME owed.complete, ~Overtaken', NEW q \in Request
                 PROVE  /\ requests[q] = "started" => StartIsTold(q)'
                        /\ requests[q] \in {"released", "lost"} => EndIsTold(q)'
      BY <1>2 DEF LogTells
    <2>1. /\ requests[q] = "started" => StartIsTold(q)
          /\ requests[q] \in {"released", "lost"} => EndIsTold(q)
      BY <1>3 DEF LogTells
    <2>2. CASE e.request # q
      <3>1. \A i \in OpenStarts : log[i].request = q => i \in OpenStarts' /\ log'[i] = log[i]
        BY <2>2, <1>3, <1>4
      <3>2. \A i \in OpenStarts' : log'[i].request = q => i \in OpenStarts /\ log[i].request = q
        BY <2>2, <1>3, <1>4
      <3>3. StartIsTold(q) => StartIsTold(q)'
        <4>1. ASSUME \A i \in DOMAIN log : log[i].request # q,
                     NEW g \in unlogged, g.action = "started", g.request = q, g.plan = reservations[q],
                     \A f \in unlogged : f.request = q => f = g
              PROVE  StartIsTold(q)'
          <5>1. \A i \in DOMAIN log' : log'[i].request # q
            BY <4>1, <2>2, <1>3
          <5>2. g \in unlogged' /\ \A f \in unlogged' : f.request = q => f = g
            BY <4>1, <2>2, <1>1
          <5> QED
            BY <5>1, <5>2, <4>1, <1>2 DEF StartIsTold
        <4>2. ASSUME \A f \in unlogged : f.request # q,
                     NEW i \in OpenStarts, log[i].request = q, log[i].plan = reservations[q]
              PROVE  StartIsTold(q)'
          BY <4>2, <3>1, <1>1, <1>2 DEF StartIsTold
        <4> QED
          BY <4>1, <4>2 DEF StartIsTold
      <3>4. EndIsTold(q) => EndIsTold(q)'
        <4>1. ASSUME NEW g \in unlogged, g.request = q, g.action = "released"
              PROVE  EndIsTold(q)'
          BY <4>1, <2>2, <1>1 DEF EndIsTold
        <4>2. ASSUME \A i \in OpenStarts : log[i].request # q, \A f \in unlogged : f.request # q
              PROVE  EndIsTold(q)'
          BY <4>2, <3>2, <1>1 DEF EndIsTold
        <4>3. ASSUME \A i \in OpenStarts : log[i].request # q,
                     NEW i \in DOMAIN log, log[i].request = q, log[i].action = "released"
              PROVE  EndIsTold(q)'
          <5>1. i \in DOMAIN log' /\ log'[i] = log[i]
            BY <1>3
          <5> QED
            BY <5>1, <4>3, <3>2 DEF EndIsTold
        <4> QED
          BY <4>1, <4>2, <4>3 DEF EndIsTold
      <3> QED
        BY <2>1, <3>3, <3>4
    <2>3. CASE e.request = q
      <3>1. CASE requests[q] = "started"
        <4>1. /\ e.action = "started" /\ e.plan = reservations[q]
              /\ \A f \in unlogged : f.request = q => f = e
          BY <3>1, <2>1, <2>3, <1>1 DEF StartIsTold
        <4>2. n \in OpenStarts' /\ log'[n] = e
          BY <4>1, <1>3
        <4>3. \A f \in unlogged' : f.request # q
          BY <4>1, <1>1
        <4> QED
          BY <4>1, <4>2, <4>3, <3>1, <2>3, <1>2 DEF StartIsTold
      <3>2. CASE requests[q] = "released"
        <4>1. EndIsTold(q)
          BY <3>2, <2>1
        <4>2. CASE e.action = "released"
          <5>1. \A i \in OpenStarts' : log'[i].request # q
            BY <4>2, <2>3, <1>3, <1>4
          <5>2. n \in DOMAIN log' /\ log'[n].request = q /\ log'[n].action = "released"
            BY <4>2, <2>3, <1>3
          <5>3. EndIsTold(q)'
            BY <5>1, <5>2 DEF EndIsTold
          <5> QED
            BY <5>3, <3>2
        <4>3. CASE e.action = "started"
          <5>1. \A i \in DOMAIN log : ~(log[i].request = q /\ log[i].action = "released")
            BY <4>3, <2>3, <1>3
          <5>2. PICK g \in unlogged : g.request = q /\ g.action = "released"
            BY <5>1, <4>1, <2>3, <1>1 DEF EndIsTold
          <5>3. g \in unlogged'
            BY <5>2, <4>3, <1>1
          <5>4. EndIsTold(q)'
            BY <5>2, <5>3 DEF EndIsTold
          <5> QED
            BY <5>4, <3>2
        <4> QED
          BY <4>2, <4>3, <1>5
      <3> QED
        BY <3>1, <3>2, <2>3, <1>5
    <2> QED
      BY <2>2, <2>3
  <1>9. OwedIsLogged'
    BY <1>2, <1>5 DEF OwedIsLogged
  <1>10. ReservationsAreFunctions' /\ OwedIsRecord'
    BY <1>2 DEF ReservationsAreFunctions, OwedIsRecord, Reserved
  <1> QED
    BY <1>6, <1>7, <1>8, <1>9, <1>10

\* The process dies with nothing on its way: what is open in the log is what it reserved.
LEMMA OwedAtCrash ==
  ASSUME RestoreInv, owed.complete, ~Overtaken, unlogged = {}
  PROVE  reservations = OpenPlans
  <1> USE DEF RestoreInv, HouseholdInv
  <1>1. ASSUME NEW q \in Reserved
        PROVE  q \in DOMAIN OpenPlans /\ OpenPlans[q] = reservations[q]
    <2>1. q \in Request /\ requests[q] = "started"
      BY DEF BusyCanBeReleased
    <2>2. StartIsTold(q)
      BY <2>1 DEF LogTells
    <2>3. PICK i \in OpenStarts : log[i].request = q /\ log[i].plan = reservations[q]
      BY <2>2 DEF StartIsTold
    <2> QED
      BY <2>3, OpenPlanOf
  <1>2. ASSUME NEW q \in DOMAIN OpenPlans
        PROVE  q \in Reserved
    <2>1. PICK i \in OpenStarts : log[i].request = q
      BY DEF OpenPlans
    <2>2. i \in DOMAIN log /\ q \in Request
      BY <2>1 DEF OpenStarts, EventsAreOfRequests
    <2>3. requests[q] \notin {"new", "pending", "approved"}
      BY <2>1, <2>2 DEF NothingYet
    <2>4. requests[q] \notin {"released", "lost"}
      BY <2>1, <2>2 DEF LogTells, EndIsTold
    <2>5. requests[q] = "started"
      BY <2>2, <2>3, <2>4 DEF OffersAndRequests, Status
    <2> QED
      BY <2>2, <2>5 DEF BusyCanBeReleased
  <1>3. Reserved = DOMAIN OpenPlans
    BY <1>1, <1>2
  <1>4. OpenPlans = [q \in DOMAIN OpenPlans |-> OpenPlans[q]]
    BY DEF OpenPlans
  <1>5. reservations = [q \in Reserved |-> reservations[q]]
    BY DEF ReservationsAreFunctions
  <1>6. \A q \in Reserved : OpenPlans[q] = reservations[q]
    BY <1>1
  <1> QED
    BY <1>3, <1>4, <1>5, <1>6

LEMMA CrashTells ==
  ASSUME RestoreInv, HouseholdInv', Crash
  PROVE  RestoreInv'
  <1> USE DEF RestoreInv
  <1>1. /\ requests' = [q \in Request |-> IF requests[q] = "new" THEN "new" ELSE "lost"]
        /\ reservations' = <<>> /\ unlogged' = {} /\ log' = log
        /\ owed' = [complete |-> FALSE, plans |-> reservations,
                    known |-> owed.complete /\ unlogged = {} /\ ~Overtaken]
    BY DEF Crash
  <1>2. OpenPlans' = OpenPlans
    BY <1>1 DEF OpenPlans, OpenStarts
  <1>3. NothingYet'
    BY <1>1 DEF NothingYet
  <1>4. UnloggedAreCurrent' /\ LogTells'
    BY <1>1 DEF UnloggedAreCurrent, LogTells
  <1>5. OwedIsLogged'
    BY <1>1, <1>2, OwedAtCrash DEF OwedIsLogged
  <1>6. ReservationsAreFunctions'
    BY <1>1 DEF ReservationsAreFunctions, Reserved
  <1>7. owed' \in [complete : BOOLEAN, known : BOOLEAN, plans : {reservations}]
    BY <1>1
  <1> QED
    BY <1>3, <1>4, <1>5, <1>6, <1>7 DEF OwedIsRecord

\* After a restore the reservations are the open requests of the log, and nothing else is.
LEMMA RestoreTells ==
  ASSUME RestoreInv, HouseholdInv', Restore
  PROVE  RestoreInv'
  <1> USE DEF RestoreInv
  <1>1. /\ \A q \in Request : requests[q] \in {"new", "lost"}
        /\ reservations' = OpenPlans
        /\ requests' = [q \in Request |-> IF q \in DOMAIN OpenPlans THEN "started" ELSE requests[q]]
        /\ log' = log /\ unlogged' = unlogged
        /\ owed' = [owed EXCEPT !.complete = TRUE]
    BY DEF Restore
  <1>2. OpenStarts' = OpenStarts /\ OpenPlans' = OpenPlans
    BY <1>1 DEF OpenPlans, OpenStarts
  <1>3. unlogged = {}
    BY <1>1 DEF UnloggedAreCurrent, HouseholdInv, EventsAreOfRequests
  <1>4. \A i \in OpenStarts : /\ log[i].request \in DOMAIN OpenPlans
                              /\ OpenPlans[log[i].request] = log[i].plan
    BY OpenPlanOf DEF HouseholdInv
  <1>5. \A q \in DOMAIN OpenPlans : \E i \in OpenStarts : log[i].request = q
    BY DEF OpenPlans
  <1>6. NothingYet'
    <2>1. \A q \in Request : requests'[q] \in {"new", "pending", "approved"} => requests[q] = "new"
      BY <1>1
    <2> QED
      BY <2>1, <1>1 DEF NothingYet
  <1>7. UnloggedAreCurrent'
    BY <1>1, <1>3 DEF UnloggedAreCurrent
  <1>8. LogTells'
    <2>1. ASSUME NEW q \in Request, requests'[q] = "started"
          PROVE  StartIsTold(q)'
      <3>1. q \in DOMAIN OpenPlans
        BY <2>1, <1>1
      <3>2. PICK i \in OpenStarts : log[i].request = q /\ OpenPlans[q] = log[i].plan
        BY <3>1, <1>4, <1>5
      <3> QED
        BY <3>2, <1>1, <1>2, <1>3 DEF StartIsTold
    <2>2. ASSUME NEW q \in Request, requests'[q] \in {"released", "lost"}
          PROVE  EndIsTold(q)'
      <3>1. \A i \in OpenStarts : log[i].request # q
        BY <2>2, <1>1, <1>4
      <3> QED
        BY <3>1, <1>1, <1>2, <1>3 DEF EndIsTold
    <2> QED
      BY <2>1, <2>2 DEF LogTells
  <1>9. OwedIsRecord'
    <2>1. PICK S : owed \in [complete : BOOLEAN, known : BOOLEAN, plans : S]
      BY DEF OwedIsRecord
    <2>2. owed' \in [complete : BOOLEAN, known : BOOLEAN, plans : S]
      BY <2>1, <1>1
    <2> QED
      BY <2>2 DEF OwedIsRecord
  <1>10. OwedIsLogged'
    <2>1. owed'.known = owed.known /\ owed'.plans = owed.plans
      BY <1>1 DEF OwedIsRecord
    <2> QED
      BY <2>1, <1>1, <1>2 DEF OwedIsLogged
  <1>11. ReservationsAreFunctions'
    BY <1>1 DEF ReservationsAreFunctions, Reserved, OpenPlans
  <1> QED
    BY <1>6, <1>7, <1>8, <1>9, <1>10, <1>11

LEMMA RestoreStep == RestoreInv /\ [Next]_vars => RestoreInv'
  <1> SUFFICES ASSUME RestoreInv, [Next]_vars PROVE RestoreInv'
    OBVIOUS
  <1>1. HouseholdInv'
    BY StartKeeps, ReleaseKeeps, RestoreKeeps, OthersKeep DEF Next, RestoreInv
  <1>2. ASSUME NEW p \in Pod, Join(p) PROVE RestoreInv'
    BY <1>1, <1>2, QuietSteps DEF Join
  <1>3. ASSUME NEW q \in Request, RequestAllocation(q) PROVE RestoreInv'
    <2>1. requests[q] = "new" /\ requests' = [requests EXCEPT ![q] = "pending"]
      BY <1>3 DEF RequestAllocation
    <2>2. UNCHANGED <<reservations, log, unlogged, owed>>
      BY <1>3 DEF RequestAllocation
    <2> QED
      BY <1>1, <2>1, <2>2, QuietSteps DEF RestoreInv, HouseholdInv, OffersAndRequests
  <1>4. ASSUME NEW q \in Request, NEW p \in Pod, Approve(q, p) PROVE RestoreInv'
    <2>1. UNCHANGED <<reservations, log, unlogged, owed>>
      BY <1>4 DEF Approve
    <2>2. requests' = requests \/ requests' = [requests EXCEPT ![q] = "approved"]
      BY <1>4 DEF Approve
    <2>3. requests[q] \in {"pending", "approved"}
      <3>1. requests[q] \notin {"new", "lost"} /\ p \in Range(Donors[q]) \ approved[q]
        BY <1>4 DEF Approve
      <3>2. requests[q] \notin {"approved", "started", "released"}
        BY <3>1 DEF RestoreInv, HouseholdInv, ConsentIsComplete
      <3> QED
        BY <3>1, <3>2 DEF RestoreInv, HouseholdInv, OffersAndRequests, Status
    <2> QED
      BY <1>1, <2>1, <2>2, <2>3, QuietSteps DEF RestoreInv, HouseholdInv, OffersAndRequests
  <1>5. CASE UNCHANGED vars
    BY <1>1, <1>5, QuietSteps DEF vars
  <1> QED
    BY <1>1, <1>2, <1>3, <1>4, <1>5, StartTells, ReleaseTells, RecordTells, CrashTells, RestoreTells DEF Next

\* household.py:87-91: for every log, a process that was up to date and had no event left
\* to write is rebuilt with exactly its reservations by restore_from_events().
THEOREM RestartsLoseNoReservation == Spec => RestoreIsExact
  <1>1. RestoreInv => (Restore /\ owed.known => reservations' = owed.plans)
    BY DEF RestoreInv, OwedIsLogged, Restore
  <1>2. RestoreInv /\ [Next]_vars => [Restore /\ owed.known => reservations' = owed.plans]_vars
    BY <1>1
  <1> QED
    BY <1>2, RestoreInit, RestoreStep, PTL DEF Spec, RestoreIsExact

-----------------------------------------------------------------------------
(* Induction and folds.  The library's folds are recursive functions over the *)
(* sets of positions: they exist, and the values along the prefixes 1..k are  *)
(* what the fold goes through.                                                *)

LEMMA LeastNumber ==
  ASSUME NEW T, T \subseteq Nat, T # {}
  PROVE  \E u \in T : \A v \in T : u <= v
  <1> DEFINE R == {ss \in Nat \X Nat : ss[1] < ss[2]}
  <1>1. PICK u \in T : \A v \in T : ~(<<v, u>> \in R)
    <2>1. IsWellFoundedOn(R, Nat)
      BY NatLessThanWellFounded DEF OpToRel
    <2> HIDE DEF R
    <2> QED
      BY <2>1, WFMin, Zenon
  <1>2. ASSUME NEW v \in T PROVE u <= v
    <2>1. <<v, u>> \in Nat \X Nat /\ <<v, u>>[1] = v /\ <<v, u>>[2] = u
      OBVIOUS
    <2>2. v < u => <<v, u>> \in R
      BY <2>1
    <2> QED
      BY <1>1, <2>2
  <1> QED
    BY <1>2

\* Induction up to n, for the set of the numbers that have what is to be proved.
LEMMA InductionTo ==
  ASSUME NEW n \in Nat, NEW T, 0 \in T, \A k \in 1..n : k - 1 \in T => k \in T
  PROVE  0..n \subseteq T
  <1> DEFINE U == (0..n) \ T
  <1> SUFFICES ASSUME U # {} PROVE FALSE
    OBVIOUS
  <1>1. PICK u \in U : \A v \in U : u <= v
    <2>1. U \subseteq Nat
      OBVIOUS
    <2> HIDE DEF U
    <2> QED
      BY <2>1, LeastNumber
  <1>2. u \in 1..n /\ u - 1 \in 0..n /\ ~(u <= u - 1)
    OBVIOUS
  <1>3. u - 1 \in T
    BY <1>1, <1>2
  <1> QED
    BY <1>1, <1>2, <1>3

LEMMA MaxOfPrefix ==
  ASSUME NEW k \in Nat \ {0}
  PROVE  Max(1..k) = k /\ (1..k) \ {k} = 1..(k - 1) /\ 1..k # {}
  <1>1. k \in 1..k /\ \A y \in 1..k : k >= y
    OBVIOUS
  <1>2. \A x \in 1..k : (\A y \in 1..k : x >= y) => x = k
    BY <1>1
  <1> QED
    BY <1>1, <1>2 DEF Max

\* The table of a fold whose step F stays in V.
Table(n, base, F, iter) ==
  iter = [s \in SUBSET (1..n) |-> IF s = {} THEN base ELSE F[<<Max(s), iter[s \ {Max(s)}]>>]]

LEMMA TablesExist ==
  ASSUME NEW n \in Nat, NEW V, NEW base \in V, NEW F \in [(1..n) \X V -> V]
  PROVE  \E iter \in [SUBSET (1..n) -> V] : Table(n, base, F, iter)
  <1> DEFINE T == {m \in 0..n : \E iter \in [SUBSET (1..m) -> V] : Table(m, base, F, iter)}
  <1>1. 0 \in T
    <2> DEFINE iter == [s \in SUBSET (1..0) |-> base]
    <2>1. iter \in [SUBSET (1..0) -> V]
      OBVIOUS
    <2>2. \A s \in SUBSET (1..0) : s = {}
      OBVIOUS
    <2>3. Table(0, base, F, iter)
      BY <2>2 DEF Table
    <2> QED
      BY <2>1, <2>3
  <1>2. ASSUME NEW m \in 1..n, m - 1 \in T PROVE m \in T
    <2>1. PICK old \in [SUBSET (1..(m - 1)) -> V] : Table(m - 1, base, F, old)
      BY <1>2
    <2> DEFINE iter == [s \in SUBSET (1..m) |-> IF m \in s THEN F[<<m, old[s \ {m}]>>] ELSE old[s]]
    <2>2. ASSUME NEW s \in SUBSET (1..m), m \in s
          PROVE  s \ {m} \in SUBSET (1..(m - 1)) /\ Max(s) = m /\ s # {} /\ s \ {m} \in SUBSET (1..m) /\ iter[s \ {m}] = old[s \ {m}]
      <3>1. \A y \in s : m >= y
        OBVIOUS
      <3>2. \A x \in s : (\A y \in s : x >= y) => x = m
        BY <2>2, <3>1
      <3>3. Max(s) = m
        BY <2>2, <3>1, <3>2 DEF Max
      <3>4. s \ {m} \in SUBSET (1..(m - 1))
        OBVIOUS
      <3> QED
        BY <2>2, <3>3, <3>4
    <2>3. ASSUME NEW s \in SUBSET (1..m), m \notin s
          PROVE  /\ s \in SUBSET (1..(m - 1))
                 /\ s # {} => Max(s) \in s /\ s \ {Max(s)} \in SUBSET (1..m) /\ iter[s \ {Max(s)}] = old[s \ {Max(s)}]
      <3>1. s \in SUBSET (1..(m - 1))
        BY <2>3
      <3>2. s # {} => Max(s) \in s
        <4>1. m - 1 \in Nat
          OBVIOUS
        <4> QED
          BY <3>1, <4>1, MaxIsMember
      <3> QED
        BY <2>3, <3>1, <3>2
    <2>4. iter \in [SUBSET (1..m) -> V]
      <3> SUFFICES ASSUME NEW s \in SUBSET (1..m) PROVE iter[s] \in V
        OBVIOUS
      <3>1. CASE m \in s
        <4>1. old[s \ {m}] \in V
          BY <2>2, <3>1
        <4> QED
          BY <3>1, <4>1
      <3>2. CASE m \notin s
        BY <2>3, <3>2
      <3> QED
        BY <3>1, <3>2
    <2>5. ASSUME NEW s \in SUBSET (1..m)
          PROVE  iter[s] = IF s = {} THEN base ELSE F[<<Max(s), iter[s \ {Max(s)}]>>]
      <3>1. CASE m \in s
        BY <2>2, <3>1
      <3>2. CASE m \notin s
        <4>1. iter[s] = old[s]
          BY <3>2
        <4>2. old[s] = IF s = {} THEN base ELSE F[<<Max(s), old[s \ {Max(s)}]>>]
          BY <2>1, <2>3, <3>2 DEF Table
        <4> QED
          BY <2>3, <3>2, <4>1, <4>2
      <3> QED
        BY <3>1, <3>2
    <2> HIDE DEF iter
    <2>6. Table(m, base, F, iter)
      BY <2>4, <2>5 DEF Table
    <2> QED
      BY <2>4, <2>6
  <1> HIDE DEF T
  <1>3. 0..n \subseteq T
    BY <1>1, <1>2, InductionTo
  <1>4. n \in T
    BY <1>3
  <1> QED
    BY <1>4 DEF T

-----------------------------------------------------------------------------
(* What a plan uses.  Used is the fold of start() over the entries. *)

ShareOf(e, p, t) == IF e.pod = p /\ e.tier = t THEN e.size ELSE 0

UsedTable(plan, p, t, iter) ==
  iter = [s \in SUBSET DOMAIN plan |->
            IF s = {} THEN 0
            ELSE IF plan[Max(s)].pod = p /\ plan[Max(s)].tier = t
                 THEN iter[s \ {Max(s)}] + plan[Max(s)].size ELSE iter[s \ {Max(s)}]]

\* The sums along the entries of a plan.
UsedRun(plan, p, t, w) ==
  /\ w \in [0..Len(plan) -> Nat]
  /\ w[0] = 0
  /\ \A k \in 1..Len(plan) : w[k] = w[k - 1] + ShareOf(plan[k], p, t)

LEMMA UsedIsRun ==
  ASSUME NEW plan \in Seq(Entry), NEW p, NEW t
  PROVE  \E w : UsedRun(plan, p, t, w) /\ Used(plan, p, t) = w[Len(plan)]
  <1> DEFINE n == Len(plan)
             F == [x \in (1..n) \X Nat |-> x[2] + ShareOf(plan[x[1]], p, t)]
             it == CHOOSE iter : UsedTable(plan, p, t, iter)
             w == [k \in 0..n |-> it[1..k]]
  <1>1. n \in Nat /\ DOMAIN plan = 1..n
    OBVIOUS
  <1>2. \A k \in 1..n : ShareOf(plan[k], p, t) \in Nat
    <2> SUFFICES ASSUME NEW k \in 1..n PROVE ShareOf(plan[k], p, t) \in Nat
      OBVIOUS
    <2>1. plan[k] \in Entry
      OBVIOUS
    <2> QED
      BY <2>1 DEF ShareOf, Entry
  <1>3. F \in [(1..n) \X Nat -> Nat]
    BY <1>2
  <1>4. \E iter : UsedTable(plan, p, t, iter)
    <2> HIDE DEF F, n
    <2>1. PICK iter \in [SUBSET (1..n) -> Nat] : Table(n, 0, F, iter)
      BY <1>1, <1>3, TablesExist
    <2>2. ASSUME NEW s \in SUBSET (1..n), s # {}
          PROVE  F[<<Max(s), iter[s \ {Max(s)}]>>]
                   = IF plan[Max(s)].pod = p /\ plan[Max(s)].tier = t
                     THEN iter[s \ {Max(s)}] + plan[Max(s)].size ELSE iter[s \ {Max(s)}]
      <3>1. Max(s) \in 1..n /\ s \ {Max(s)} \in SUBSET (1..n)
        BY <1>1, <2>2, MaxIsMember
      <3>2. iter[s \ {Max(s)}] \in Nat
        BY <3>1
      <3>3. PICK m \in 1..n, v \in Nat : m = Max(s) /\ v = iter[s \ {Max(s)}]
        BY <3>1, <3>2
      <3>4. F[<<m, v>>] = v + ShareOf(plan[m], p, t)
        BY DEF F
      <3>5. v + ShareOf(plan[m], p, t) = IF plan[m].pod = p /\ plan[m].tier = t THEN v + plan[m].size ELSE v
        BY DEF ShareOf
      <3> QED
        BY <3>3, <3>4, <3>5
    <2>3. UsedTable(plan, p, t, iter)
      BY <1>1, <2>1, <2>2 DEF Table, UsedTable
    <2> QED
      BY <2>3
  <1>5. UsedTable(plan, p, t, it)
    BY <1>4
  <1>6. Used(plan, p, t) = it[DOMAIN plan]
    BY DEF Used, FoldLeft, MapThenFoldSet, UsedTable
  <1> HIDE DEF it
  <1>7. it[{}] = 0
    BY <1>5 DEF UsedTable
  <1>8. ASSUME NEW k \in 1..n
        PROVE  it[1..k] = IF plan[k].pod = p /\ plan[k].tier = t THEN it[1..(k - 1)] + plan[k].size ELSE it[1..(k - 1)]
    <2>1. 1..k \in SUBSET DOMAIN plan
      BY <1>1
    <2>2. Max(1..k) = k /\ (1..k) \ {k} = 1..(k - 1) /\ 1..k # {}
      BY <1>1, MaxOfPrefix
    <2> QED
      BY <1>5, <2>1, <2>2 DEF UsedTable
  <1> DEFINE T == {k \in 0..n : it[1..k] \in Nat}
  <1>9. 0 \in T
    <2>1. 1..0 = {}
      OBVIOUS
    <2> QED
      BY <1>1, <1>7, <2>1
  <1>10. ASSUME NEW k \in 1..n, k - 1 \in T PROVE k \in T
    <2>1. ShareOf(plan[k], p, t) \in Nat
      BY <1>2
    <2>2. it[1..(k - 1)] \in Nat
      BY <1>10
    <2>3. it[1..k] \in Nat
      BY <1>8, <2>1, <2>2 DEF ShareOf
    <2> QED
      BY <2>3, <1>1
  <1> HIDE DEF T
  <1>11. 0..n \subseteq T
    BY <1>1, <1>9, <1>10, InductionTo
  <1> USE DEF T
  <1>12. w \in [0..n -> Nat]
    BY <1>11
  <1>13. w[0] = 0
    <2>1. 1..0 = {}
      OBVIOUS
    <2> QED
      BY <1>1, <1>7, <2>1
  <1>14. ASSUME NEW k \in 1..n PROVE w[k] = w[k - 1] + ShareOf(plan[k], p, t)
    <2>1. k - 1 \in 0..n /\ k \in 0..n
      BY <1>1
    <2>2. it[1..(k - 1)] \in Nat
      BY <1>11, <2>1
    <2> QED
      BY <1>8, <2>1, <2>2 DEF ShareOf
  <1>15. w[n] = it[DOMAIN plan]
    BY <1>1
  <1> HIDE DEF w
  <1> QED
    BY <1>6, <1>12, <1>13, <1>14, <1>15 DEF UsedRun

\* An entry adds its size to what its pod and tier use, and to nothing else.
LEMMA UsedAppends ==
  ASSUME NEW plan \in Seq(Entry), NEW e \in Entry, NEW p, NEW t
  PROVE  /\ Used(plan, p, t) \in Nat
         /\ Used(Append(plan, e), p, t) = Used(plan, p, t) + ShareOf(e, p, t)
  <1> DEFINE n == Len(plan)
             more == Append(plan, e)
  <1>1. more \in Seq(Entry) /\ n \in Nat /\ Len(more) = n + 1 /\ more[n + 1] = e /\ \A k \in 1..n : more[k] = plan[k]
    OBVIOUS
  <1>2. PICK w : UsedRun(plan, p, t, w) /\ Used(plan, p, t) = w[n]
    BY UsedIsRun
  <1>3. PICK v : UsedRun(more, p, t, v) /\ Used(more, p, t) = v[n + 1]
    BY <1>1, UsedIsRun
  <1> HIDE DEF more, n
  <1> DEFINE T == {k \in 0..n : v[k] = w[k]}
  <1>4. 0 \in T
    BY <1>1, <1>2, <1>3 DEF UsedRun
  <1>5. ASSUME NEW k \in 1..n, k - 1 \in T PROVE k \in T
    <2>1. w[k] = w[k - 1] + ShareOf(plan[k], p, t)
      BY <1>2 DEF UsedRun, n
    <2>2. k \in 1..Len(more)
      BY <1>1
    <2>3. v[k] = v[k - 1] + ShareOf(more[k], p, t)
      BY <1>3, <2>2 DEF UsedRun
    <2> QED
      BY <1>1, <1>5, <2>1, <2>3
  <1> HIDE DEF T
  <1>6. 0..n \subseteq T
    BY <1>1, <1>4, <1>5, InductionTo
  <1>7. v[n] = w[n]
    BY <1>1, <1>6 DEF T
  <1>8. n + 1 \in 1..Len(more) /\ (n + 1) - 1 = n
    BY <1>1
  <1>9. v[n + 1] = v[n] + ShareOf(e, p, t)
    BY <1>1, <1>3, <1>8 DEF UsedRun
  <1>10. w[n] \in Nat
    BY <1>1, <1>2 DEF UsedRun, n
  <1> QED
    BY <1>2, <1>3, <1>7, <1>9, <1>10 DEF more

LEMMA NothingUsed == \A p, t : Used(<<>>, p, t) = 0
  <1> SUFFICES ASSUME NEW p, NEW t PROVE Used(<<>>, p, t) = 0
    OBVIOUS
  <1>1. <<>> \in Seq(Entry) /\ Len(<<>>) = 0
    OBVIOUS
  <1>2. PICK w : UsedRun(<<>>, p, t, w) /\ Used(<<>>, p, t) = w[0]
    BY <1>1, UsedIsRun
  <1> QED
    BY <1>2 DEF UsedRun

-----------------------------------------------------------------------------
(* The plan of start() fits: it stays on the donors of the request, and within *)
(* what each of them offers in each tier.                                      *)

Fits(q) ==
  {plan \in Seq(Entry) :
     /\ PodsOf(plan) \subseteq Range(Donors[q])
     /\ \A p \in Pod, t \in Tier : Used(plan, p, t) <= Capacity[p][t]}

Segment == [size : Nat, tiers : Seq(Tier)]

\* A segment leaves the plan as it is, or joins it where there is room (start, 195-214).
LEMMA PlaceSegmentFits ==
  ASSUME NEW q \in Request, NEW plan \in Fits(q), NEW s \in Segment
  PROVE  PlaceSegment(q, plan, s) \in Fits(q)
  <1> DEFINE donors == Donors[q]
             fits == {ij \in (DOMAIN donors) \X (DOMAIN s.tiers) :
                        /\ offers[donors[ij[1]]] = "free"
                        /\ HasRoom(plan, donors[ij[1]], s.tiers[ij[2]], s.size)}
             Least(ij) == \A kl \in fits : ij[1] < kl[1] \/ (ij[1] = kl[1] /\ ij[2] <= kl[2])
             first == CHOOSE ij \in fits : Least(ij)
  <1>1. /\ donors \in Seq(Pod) /\ s.tiers \in Seq(Tier) /\ s.size \in Nat
        /\ plan \in Seq(Entry)
    BY HouseholdAssumption DEF Fits, Segment
  <1>2. PlaceSegment(q, plan, s)
          = IF fits = {} THEN plan
            ELSE Append(plan, [pod |-> donors[first[1]], tier |-> s.tiers[first[2]], size |-> s.size])
    BY DEF PlaceSegment
  <1>3. CASE fits = {}
    BY <1>2, <1>3
  <1>4. CASE fits # {}
    <2>1. fits \subseteq Nat \X Nat
      BY <1>1
    <2>2. PICK ij \in fits : Least(ij)
      <3> HIDE DEF fits
      <3> DEFINE I == {kl[1] : kl \in fits}
      <3>1. I \subseteq Nat /\ I # {}
        BY <1>4, <2>1
      <3>2. PICK i \in I : \A k \in I : i <= k
        <4> HIDE DEF I
        <4> QED
          BY <3>1, LeastNumber
      <3> DEFINE J == {l \in Nat : <<i, l>> \in fits}
      <3>3. J # {}
        <4>1. PICK kl \in fits : kl[1] = i
          BY <3>2
        <4>2. kl = <<i, kl[2]>> /\ kl[2] \in Nat
          BY <2>1, <4>1
        <4>3. kl[2] \in J
          BY <4>1, <4>2
        <4> QED
          BY <4>3
      <3>4. PICK j \in J : \A l \in J : j <= l
        <4>1. J \subseteq Nat
          OBVIOUS
        <4> HIDE DEF J
        <4> QED
          BY <3>3, <4>1, LeastNumber
      <3>5. <<i, j>> \in fits
        BY <3>4
      <3>6. ASSUME NEW kl \in fits PROVE i < kl[1] \/ (i = kl[1] /\ j <= kl[2])
        <4>1. kl[1] \in I /\ i <= kl[1] /\ kl[1] \in Nat /\ kl[2] \in Nat /\ kl = <<kl[1], kl[2]>>
          BY <2>1, <3>2
        <4>2. CASE kl[1] = i
          <5>1. kl[2] \in J
            BY <4>1, <4>2
          <5> QED
            BY <3>4, <4>2, <5>1
        <4>3. CASE kl[1] # i
          BY <3>1, <3>2, <4>1, <4>3
        <4> QED
          BY <4>2, <4>3
      <3>7. <<i, j>>[1] = i /\ <<i, j>>[2] = j
        OBVIOUS
      <3>8. Least(<<i, j>>)
        BY <3>6, <3>7
      <3> QED
        BY <3>5, <3>8
    <2>3. first \in fits
      <3> HIDE DEF fits, Least
      <3> QED
        BY <2>2
    <2> DEFINE pod == donors[first[1]]
               tier == s.tiers[first[2]]
               e == [pod |-> pod, tier |-> tier, size |-> s.size]
               more == Append(plan, e)
    <2>4. /\ first[1] \in DOMAIN donors /\ first[2] \in DOMAIN s.tiers
          /\ HasRoom(plan, pod, tier, s.size)
      <3>1. \A f \in fits : /\ f[1] \in DOMAIN donors /\ f[2] \in DOMAIN s.tiers
                             /\ HasRoom(plan, donors[f[1]], s.tiers[f[2]], s.size)
        OBVIOUS
      <3> HIDE DEF fits, first
      <3> QED
        BY <2>3, <3>1
    <2> HIDE DEF first
    <2>5. pod \in Range(donors) /\ pod \in Pod /\ tier \in Tier
      BY <1>1, <2>4 DEF Range
    <2> HIDE DEF pod, tier
    <2>6. e \in Entry
      BY <1>1, <2>5 DEF Entry
    <2>7. more \in Seq(Entry)
      BY <1>1, <2>6
    <2>8. PodsOf(more) \subseteq Range(Donors[q])
      <3>1. \A k \in DOMAIN more : more[k] = e \/ \E l \in DOMAIN plan : more[k] = plan[l]
        BY <1>1, <2>6
      <3>2. e.pod = pod
        OBVIOUS
      <3>3. PodsOf(plan) \subseteq Range(Donors[q])
        BY DEF Fits
      <3> HIDE DEF more, e
      <3> QED
        BY <2>5, <3>1, <3>2, <3>3 DEF PodsOf
    <2>9. ASSUME NEW p \in Pod, NEW t \in Tier PROVE Used(more, p, t) <= Capacity[p][t]
      <3>1. Used(plan, p, t) \in Nat /\ Used(more, p, t) = Used(plan, p, t) + ShareOf(e, p, t)
        BY <1>1, <2>6, UsedAppends
      <3>2. Used(plan, p, t) <= Capacity[p][t] /\ Capacity[p][t] \in Nat
        BY HouseholdAssumption DEF Fits
      <3>3. CASE pod = p /\ tier = t
        <4>1. ShareOf(e, p, t) = s.size
          BY <3>3 DEF ShareOf
        <4> QED
          BY <2>4, <3>1, <3>3, <4>1 DEF HasRoom
      <3>4. CASE ~(pod = p /\ tier = t)
        <4>1. ShareOf(e, p, t) = 0
          BY <3>4 DEF ShareOf
        <4> QED
          BY <3>1, <3>2, <4>1
      <3> QED
        BY <3>3, <3>4
    <2>10. PlaceSegment(q, plan, s) = more
      BY <1>2, <1>4 DEF pod, tier
    <2> HIDE DEF more, e
    <2> QED
      BY <2>7, <2>8, <2>9, <2>10 DEF Fits
  <1> QED
    BY <1>3, <1>4

PlanTable(q, iter) ==
  iter = [s \in SUBSET DOMAIN Segments[q] |->
            IF s = {} THEN <<>> ELSE PlaceSegment(q, iter[s \ {Max(s)}], Segments[q][Max(s)])]

LEMMA EmptyPlanFits == ASSUME NEW q \in Request PROVE <<>> \in Fits(q)
  <1>1. <<>> \in Seq(Entry)
    OBVIOUS
  <1>2. PodsOf(<<>>) = {}
    BY DEF PodsOf
  <1>3. \A p \in Pod, t \in Tier : Capacity[p][t] \in Nat
    BY HouseholdAssumption
  <1> QED
    BY <1>1, <1>2, <1>3, NothingUsed DEF Fits

LEMMA PlanFits ==
  ASSUME NEW q \in Request
  PROVE  PlanOf(q) \in Fits(q)
  <1> DEFINE n == Len(Segments[q])
             V == Fits(q)
             F == [x \in (1..n) \X V |-> PlaceSegment(q, x[2], Segments[q][x[1]])]
             it == CHOOSE iter : PlanTable(q, iter)
  <1>1. n \in Nat /\ DOMAIN Segments[q] = 1..n /\ \A k \in 1..n : Segments[q][k] \in Segment
    <2>1. Segments[q] \in Seq(Segment)
      BY HouseholdAssumption DEF Segment
    <2> QED
      BY <2>1
  <1> HIDE DEF n
  <1>2. <<>> \in V
    BY EmptyPlanFits
  <1>3. \A x \in (1..n) \X V : PlaceSegment(q, x[2], Segments[q][x[1]]) \in V
    <2> SUFFICES ASSUME NEW x \in (1..n) \X V PROVE PlaceSegment(q, x[2], Segments[q][x[1]]) \in V
      OBVIOUS
    <2>1. PICK k \in 1..n, plan \in V : x[1] = k /\ x[2] = plan
      <3> HIDE DEF V
      <3> QED
        OBVIOUS
    <2>2. PICK s \in Segment : s = Segments[q][k]
      BY <1>1
    <2>3. PlaceSegment(q, plan, s) \in V
      BY PlaceSegmentFits
    <2> QED
      BY <2>1, <2>2, <2>3
  <1>4. F \in [(1..n) \X V -> V]
    <2> HIDE DEF V
    <2> QED
      BY <1>3
  <1>5. \E iter : PlanTable(q, iter)
    <2> HIDE DEF V
    <2>1. PICK G \in [(1..n) \X V -> V] : G = F
      <3> HIDE DEF F
      <3> QED
        BY <1>4
    <2>2. PICK iter \in [SUBSET (1..n) -> V] : Table(n, <<>>, G, iter)
      BY <1>1, <1>2, TablesExist
    <2>3. ASSUME NEW s \in SUBSET (1..n), s # {}
          PROVE  G[<<Max(s), iter[s \ {Max(s)}]>>] = PlaceSegment(q, iter[s \ {Max(s)}], Segments[q][Max(s)])
      <3>1. Max(s) \in 1..n /\ s \ {Max(s)} \in SUBSET (1..n)
        BY <1>1, <2>3, MaxIsMember
      <3>2. iter[s \ {Max(s)}] \in V
        BY <3>1
      <3>3. PICK m \in 1..n, v \in V : m = Max(s) /\ v = iter[s \ {Max(s)}]
        BY <3>1, <3>2
      <3>4. F[<<m, v>>] = PlaceSegment(q, v, Segments[q][m])
        OBVIOUS
      <3> QED
        BY <2>1, <3>3, <3>4
    <2>4. PlanTable(q, iter)
      BY <1>1, <2>2, <2>3 DEF Table, PlanTable
    <2> QED
      BY <2>4
  <1>6. PlanTable(q, it)
    BY <1>5
  <1>7. PlanOf(q) = it[1..n]
    BY <1>1 DEF PlanOf, FoldLeft, MapThenFoldSet, PlanTable
  <1> HIDE DEF it, V
  <1>8. it[{}] = <<>>
    BY <1>6 DEF PlanTable
  <1>9. ASSUME NEW k \in 1..n PROVE it[1..k] = PlaceSegment(q, it[1..(k - 1)], Segments[q][k])
    <2>1. 1..k \in SUBSET DOMAIN Segments[q]
      BY <1>1
    <2>2. k \in Nat \ {0}
      BY <1>1
    <2>3. Max(1..k) = k /\ (1..k) \ {k} = 1..(k - 1) /\ 1..k # {}
      BY <2>2, MaxOfPrefix
    <2> QED
      BY <1>6, <2>1, <2>3 DEF PlanTable
  <1> DEFINE T == {k \in 0..n : it[1..k] \in V}
  <1>10. 0 \in T
    <2>1. 1..0 = {}
      OBVIOUS
    <2> QED
      BY <1>1, <1>2, <1>8, <2>1
  <1>11. ASSUME NEW k \in 1..n, k - 1 \in T PROVE k \in T
    <2>1. PICK plan \in V : plan = it[1..(k - 1)]
      BY <1>11
    <2>2. PICK s \in Segment : s = Segments[q][k]
      BY <1>1
    <2>3. PlaceSegment(q, plan, s) \in V
      BY PlaceSegmentFits DEF V
    <2> QED
      BY <1>1, <1>9, <2>1, <2>2, <2>3
  <1>12. 0..n \subseteq T
    <2>1. PICK T1 : T1 = T
      OBVIOUS
    <2>2. 0 \in T1 /\ \A k \in 1..n : k - 1 \in T1 => k \in T1
      BY <1>10, <1>11, <2>1
    <2>3. 0..n \subseteq T1
      BY <1>1, <2>2, InductionTo
    <2> QED
      BY <2>1, <2>3
  <1>13. it[1..n] \in V
    BY <1>1, <1>12
  <1> QED
    BY <1>7, <1>13 DEF V

-----------------------------------------------------------------------------
(* Every plan the household holds, or the log tells of, fits its request. *)

FittingEvent == {e \in Event : e.request \in Request /\ e.plan \in Fits(e.request)}

PlansFit ==
    /\ \A q \in Reserved : reservations[q] \in Fits(q)
    /\ log \in Seq(FittingEvent)
    /\ unlogged \subseteq FittingEvent
    /\ \A q \in Request : approved[q] \subseteq Range(Donors[q])

LEMMA PlansFitInit == Init => PlansFit
  <1> SUFFICES ASSUME Init PROVE PlansFit
    OBVIOUS
  <1>1. Reserved = {}
    BY DEF Init, Reserved
  <1>2. log \in Seq(FittingEvent)
    BY DEF Init
  <1> QED
    BY <1>1, <1>2 DEF Init, PlansFit

LEMMA PlansFitStep == HouseholdInv /\ PlansFit /\ [Next]_vars => PlansFit'
  <1> SUFFICES ASSUME HouseholdInv, PlansFit, [Next]_vars PROVE PlansFit'
    OBVIOUS
  <1> USE DEF PlansFit
  <1>1. ASSUME NEW q \in Request, Start(q) PROVE PlansFit'
    <2>1. PICK plan \in Fits(q) : plan = PlanOf(q)
      BY PlanFits
    <2>2. /\ reservations' = With(reservations, q, plan)
          /\ unlogged' = unlogged \cup {[action |-> "started", request |-> q, plan |-> plan]}
          /\ log' = log /\ approved' = approved
      BY <1>1, <2>1 DEF Start
    <2>3. [action |-> "started", request |-> q, plan |-> plan] \in FittingEvent
      <3>1. plan \in Seq(Entry)
        BY DEF Fits
      <3> QED
        BY <3>1 DEF FittingEvent, Event
    <2>4. \A r \in Reserved' : reservations'[r] \in Fits(r)
      BY <2>2 DEF Reserved, With
    <2> QED
      BY <2>2, <2>3, <2>4
  <1>2. ASSUME NEW q \in Request, Release(q) PROVE PlansFit'
    <2>1. /\ reservations' = Without(reservations, q)
          /\ unlogged' = unlogged \cup {[action |-> "released", request |-> q, plan |-> <<>>]}
          /\ log' = log /\ approved' = approved
      BY <1>2 DEF Release
    <2>2. [action |-> "released", request |-> q, plan |-> <<>>] \in FittingEvent
      <3>1. <<>> \in Seq(Entry) /\ <<>> \in Fits(q)
        BY EmptyPlanFits DEF Fits
      <3> QED
        BY <3>1 DEF FittingEvent, Event
    <2>3. \A r \in Reserved' : reservations'[r] \in Fits(r)
      BY <2>1 DEF Reserved, Without
    <2> QED
      BY <2>1, <2>2, <2>3
  <1>3. CASE RecordEvent
    <2>1. PICK e \in unlogged : log' = Append(log, e) /\ unlogged' = unlogged \ {e}
      BY <1>3 DEF RecordEvent
    <2>2. reservations' = reservations /\ approved' = approved
      BY <1>3 DEF RecordEvent
    <2>3. log' \in Seq(FittingEvent)
      BY <2>1
    <2> QED
      BY <2>1, <2>2, <2>3 DEF Reserved
  <1>4. CASE Crash
    <2>1. /\ reservations' = <<>> /\ unlogged' = {} /\ log' = log
          /\ approved' = [q \in Request |-> {}]
      BY <1>4 DEF Crash
    <2>2. Reserved' = {}
      BY <2>1 DEF Reserved
    <2> QED
      BY <2>1, <2>2
  <1>5. CASE Restore
    <2>1. /\ reservations' = OpenPlans /\ log' = log /\ unlogged' = unlogged
          /\ approved' = [q \in Request |-> IF q \in DOMAIN OpenPlans THEN Range(Donors[q]) ELSE approved[q]]
      BY <1>5 DEF Restore
    <2>2. ASSUME NEW q \in DOMAIN OpenPlans PROVE OpenPlans[q] \in Fits(q)
      <3>1. PICK i \in OpenStarts : log[i].request = q
        BY DEF OpenPlans
      <3>2. OpenPlans[q] = log[i].plan
        BY <3>1, OpenPlanOf DEF HouseholdInv
      <3>3. log[i] \in FittingEvent
        BY DEF OpenStarts
      <3> QED
        BY <3>1, <3>2, <3>3 DEF FittingEvent
    <2>3. \A q \in Reserved' : reservations'[q] \in Fits(q)
      BY <2>1, <2>2 DEF Reserved
    <2>4. \A q \in Request : approved'[q] \subseteq Range(Donors[q])
      BY <2>1
    <2> QED
      BY <2>1, <2>3, <2>4
  <1>6. ASSUME NEW q \in Request, NEW p \in Pod, Approve(q, p) PROVE PlansFit'
    <2>1. /\ p \in Range(Donors[q]) /\ approved' = [approved EXCEPT ![q] = @ \cup {p}]
          /\ reservations' = reservations /\ log' = log /\ unlogged' = unlogged
      BY <1>6 DEF Approve
    <2>2. \A r \in Request : approved'[r] \subseteq Range(Donors[r])
      BY <2>1 DEF HouseholdInv, ConsentIsComplete
    <2> QED
      BY <2>1, <2>2 DEF Reserved
  <1>7. CASE UNCHANGED <<approved, reservations, log, unlogged>>
    BY <1>7 DEF Reserved
  <1>8. ASSUME NEW p \in Pod, Join(p) PROVE PlansFit'
    BY <1>7, <1>8 DEF Join
  <1>9. ASSUME NEW q \in Request, RequestAllocation(q) PROVE PlansFit'
    BY <1>7, <1>9 DEF RequestAllocation
  <1>10. CASE UNCHANGED vars
    BY <1>7, <1>10 DEF vars
  <1> QED
    BY <1>1, <1>2, <1>3, <1>4, <1>5, <1>6, <1>8, <1>9, <1>10 DEF Next

\* Memory is held only with the consent of every donor, on its donors and within what each
\* of them offered, for every request, every order of segments and tiers and every log
\* (approve, 153-178; start, 180-246; restore_from_events, 280-326).
THEOREM MemoryIsHeldWithConsent == Spec => []ReservedWithConsent
  <1>1. HouseholdInv /\ PlansFit => ReservedWithConsent
    <2> SUFFICES ASSUME HouseholdInv, PlansFit, NEW q \in Reserved
                 PROVE  /\ approved[q] = Range(Donors[q])
                        /\ PodsOf(reservations[q]) \subseteq approved[q]
                        /\ \A p \in Pod, t \in Tier : Used(reservations[q], p, t) <= Capacity[p][t]
      BY DEF ReservedWithConsent
    <2>1. q \in Request /\ requests[q] = "started"
      BY DEF HouseholdInv, BusyCanBeReleased
    <2>2. approved[q] = Range(Donors[q])
      BY <2>1 DEF HouseholdInv, ConsentIsComplete
    <2>3. reservations[q] \in Fits(q)
      BY DEF PlansFit
    <2> QED
      BY <2>2, <2>3 DEF Fits
  <1>2. HouseholdInv /\ PlansFit /\ [Next]_vars => HouseholdInv'
    BY RestoreStep, StartKeeps, ReleaseKeeps, RestoreKeeps, OthersKeep DEF Next
  <1> QED
    BY <1>1, <1>2, HouseholdInit, PlansFitInit, PlansFitStep, PTL DEF Spec

\* The household's state has the types TypeOK lists, for every set of pods and requests.
THEOREM HouseholdTypeOK == Spec => []TypeOK
  <1>1. RestoreInv /\ PlansFit => TypeOK
    <2> SUFFICES ASSUME RestoreInv, PlansFit PROVE TypeOK
      OBVIOUS
    <2>1. \A q \in Reserved : reservations[q] \in Seq(Entry)
      BY DEF PlansFit, Fits
    <2>2. log \in Seq(Event) /\ unlogged \subseteq Event
      BY DEF PlansFit, FittingEvent
    <2>3. owed.known \in BOOLEAN /\ owed.complete \in BOOLEAN
      BY DEF RestoreInv, OwedIsRecord
    <2> QED
      BY <2>1, <2>2, <2>3 DEF TypeOK, RestoreInv, HouseholdInv, OffersAndRequests, PlansFit
  <1>2. RestoreInv => HouseholdInv
    BY DEF RestoreInv
  <1> QED
    BY <1>1, <1>2, RestoreInit, RestoreStep, PlansFitInit, PlansFitStep, PTL DEF Spec

=============================================================================
