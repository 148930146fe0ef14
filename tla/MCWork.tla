-------------------------------- MODULE MCWork --------------------------------
(* How work is admitted, run, sent on and counted, checked side by side: a    *)
(* behaviour is one of one component.                                         *)
(*                                                                            *)
(* household: two donors with one unit of each tier.  The first request fills *)
(* both tiers of its first donor and spills over to the second; the others    *)
(* compete for one donor each.                                                *)
(* governor: handlers, resident Pods and executors on two devices, ram and an *)
(* unmeasured disk, which together cannot hold all of them.                   *)
(* graph: every graph of N nodes, in every order, any number of workers.      *)
(* transport: two calls under one request id, one retry each.                  *)
(* router: three calls over two replicas.                                     *)
(* cache: with and without an L2, two calls of one query, the first of which  *)
(* pins it, or these and a call of another; one entry fits, and the namespace *)
(* may be written once.                                                       *)
(* dream: two runs of the cycle, one allowed in a window.                     *)
(* mesh: an envelope with a budget of two hops, of three, or none, and a      *)
(* deadline, or none, among two pods: the budget of two is spent before the   *)
(* second pod forwards, the budget of three outlasts both.  presence: one     *)
(* endpoint.                                                                  *)
EXTENDS Household, TaskGraphState, TransportState, MeshState, PodCacheState, GovernorState

CONSTANTS
    Replicas, MaxAttempts, Chat,
    Cycle, Quota, Window, Horizon

Spill == <<"vram", "ram">>
Unit(tiers) == [size |-> 1, tiers |-> tiers]

DonorsOf   == [q \in Request |-> CASE q = "q1" -> <<"d1", "d2">>
                                   [] q = "q2" -> <<"d1">>
                                   [] q = "q3" -> <<"d2">>]
SegmentsOf == [q \in Request |-> CASE q = "q1" -> <<Unit(Spill), Unit(Spill), Unit(<<"vram">>)>>
                                   [] q = "q2" -> <<Unit(<<"ram">>)>>
                                   [] q = "q3" -> <<Unit(Spill)>>]
OneEach    == [p \in Pod |-> [t \in Tier |-> 1]]

Handlers   == {"h1", "h2", "h3"}
Residents  == {"p1", "p2"}
TwoGpus    == <<"gpu0", "gpu1">>
Budget     == [p \in {"gpu0", "gpu1", "ram"} |-> CASE p = "gpu0" -> 1 [] p = "gpu1" -> 2 [] p = "ram" -> 4]
OneOrTwo   == [c \in Handlers \cup Residents \cup {"x1", "x2"} |-> IF c \in {"h1", "p1", "x1"} THEN 1 ELSE 2]
RamOrVram  == [c \in Handlers \cup Residents |-> IF c \in {"h3", "p2"} THEN "ram" ELSE "vram"]

governorVars == <<used, residencies, trying, held, pooled, used_bytes, started>>

Governor == INSTANCE ResourceGovernor

graphVars == <<depends_on, max_parallel, submitted, status, outputs, inputs>>

Graph == INSTANCE TaskGraph

IdsUsedTwice == [c \in Call |-> "r1"]
Hops         == {NoLimit, 2, 3}
Seconds      == {NoLimit, 1}

transportVars == <<at, clock, attempts, payload, outcome, active, receipts>>

Transport == INSTANCE PodTransport

VARIABLES cursor, chat_at, start, tried, metrics, asked, served, failed
routerVars == <<cursor, chat_at, start, tried, metrics, asked, served, failed>>

Router == INSTANCE VllmRouter WITH Call <- Chat, at <- chat_at

ASSUME RouterAssumption == Replicas \in Nat \ {0} /\ MaxAttempts \in Nat \ {0} /\ IsFiniteSet(Chat)

Queried == [c \in Lookup |-> IF c = "c3" THEN "q2" ELSE "q1"]

cacheVars == <<redis, revision, data, inflight, pinned, shared, calls>>

Cache == INSTANCE PodCache

VARIABLES cycle_now, cycle_at, replay_lease, worked, flag, events, unlucky, crowded
dreamVars == <<cycle_now, cycle_at, replay_lease, worked, flag, events, unlucky, crowded>>

Dream == INSTANCE DreamCycle WITH
    MaxTime <- Horizon, now <- cycle_now, at <- cycle_at, lease <- replay_lease

ASSUME DreamAssumption == IsFiniteSet(Cycle) /\ {Quota, Window, Horizon} \subseteq Nat

meshVars == <<now, origin, wire, handling, sending>>

Network == INSTANCE Mesh

presenceVars == <<link, stop, beat, retained, excused>>

VARIABLE service

\* The components that rest have one initial state.
MCInit ==
    /\ Graph!Init
    /\ \/ service = "graph"
       \/ /\ max_parallel = 1 /\ \A n \in Node : depends_on[n] = {}
          /\ service \in {"household", "governor", "transport", "router", "cache", "dream", "mesh", "presence"}
    /\ Cache!Init /\ (service # "cache" => ~redis)
    /\ Network!PresenceInit /\ (service # "presence" => retained = "none")
    /\ Init /\ Governor!Init /\ Transport!Init /\ Router!Init /\ Dream!Init /\ Network!Init

MCNext ==
    \/ /\ service = "household" /\ Next
       /\ UNCHANGED <<governorVars, graphVars, transportVars, routerVars, cacheVars, dreamVars, meshVars, presenceVars, service>>
    \/ /\ service = "governor" /\ Governor!Next
       /\ UNCHANGED <<vars, graphVars, transportVars, routerVars, cacheVars, dreamVars, meshVars, presenceVars, service>>
    \/ /\ service = "graph" /\ Graph!Next
       /\ UNCHANGED <<vars, governorVars, transportVars, routerVars, cacheVars, dreamVars, meshVars, presenceVars, service>>
    \/ /\ service = "transport" /\ Transport!Next
       /\ UNCHANGED <<vars, governorVars, graphVars, routerVars, cacheVars, dreamVars, meshVars, presenceVars, service>>
    \/ /\ service = "router" /\ Router!Next
       /\ UNCHANGED <<vars, governorVars, graphVars, transportVars, cacheVars, dreamVars, meshVars, presenceVars, service>>
    \/ /\ service = "cache" /\ Cache!Next
       /\ UNCHANGED <<vars, governorVars, graphVars, transportVars, routerVars, dreamVars, meshVars, presenceVars, service>>
    \/ /\ service = "dream" /\ Dream!Next
       /\ UNCHANGED <<vars, governorVars, graphVars, transportVars, routerVars, cacheVars, meshVars, presenceVars, service>>
    \/ /\ service = "mesh" /\ Network!Next
       /\ UNCHANGED <<vars, governorVars, graphVars, transportVars, routerVars, cacheVars, dreamVars, presenceVars, service>>
    \/ /\ service = "presence" /\ Network!PresenceNext
       /\ UNCHANGED <<vars, governorVars, graphVars, transportVars, routerVars, cacheVars, dreamVars, meshVars, service>>

MCSpec == MCInit /\ [][MCNext]_<<vars, governorVars, graphVars, transportVars, routerVars, cacheVars, dreamVars,
                                 meshVars, presenceVars, service>>

\* The cache alone, whose calls go on: their threads are scheduled, and waits time out.
CacheSpec ==
    /\ MCSpec /\ service = "cache"
    /\ \A c \in Lookup : WF_cacheVars(service = "cache" /\ Cache!Step(c))

TypesOK == /\ TypeOK /\ Governor!TypeOK /\ Graph!TypeOK /\ Transport!TypeOK /\ Router!TypeOK /\ Cache!TypeOK /\ Dream!TypeOK
           /\ Network!TypeOK
ReplicasTakeTurns       == Router!ReplicasTakeTurns
WorkIsCounted           == Dream!WorkIsCounted
EverySearchEnds         == Cache!EverySearchEnds
=============================================================================
