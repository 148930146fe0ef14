-------------------------------- MODULE MCData --------------------------------
(* What a host keeps about knowledge, checked side by side: a behaviour is    *)
(* one of one component.                                                      *)
(*                                                                            *)
(* registry: one key, one client with a snapshot in flight.                  *)
(* timed: the registry again, with validity intervals, two principals and a   *)
(* clock.                                                                     *)
(* ports: two calls that bind or update, and an invocation of the channel.    *)
(* The keys of each are symmetric: no operation orders or singles them out.   *)
(* search: a branch and its parent, and one search.                           *)
(* storage: two puts, one of which opts out of the hot tier, and two gets.    *)
(* links: two descriptors, each a cluster of its own; two calls that register, *)
(* one training and one answer to resolve.                                    *)
EXTENDS Registry, PortState, TLC

CONSTANTS
    Branch, Main, ItemKey, Search, MaxRev,
    Put, OptOut, Get,
    Descriptor, ClusterOf, Register, Attach, Resolve,
    MaxCompiled,
    \* of the registry with a clock
    TimedKey, TimedPrincipal, TimedAcls, TimedWindows, TimedNode, TimedEvent, TimedTime

PublicAcl == {Principal}
NoLifecycle == {Always}
TwoAcls     == {{"alice", "bob"}, {"alice"}}
\* Valid from reading 1, or expiring at reading 1.
LateAndShort == {[from |-> 1, until |-> 2], [from |-> 0, until |-> 1]}
OwnCluster == [d \in Descriptor |-> d]
KeysAreAlike == Permutations(Key) \cup Permutations(Knowledge) \cup Permutations(ItemKey)

VARIABLES t_nodes, t_revoked, t_heads, t_events, t_now, t_snapshots
timedVars == <<t_nodes, t_revoked, t_heads, t_events, t_now, t_snapshots>>

Timed == INSTANCE Registry WITH
    Key <- TimedKey, Principal <- TimedPrincipal, Acls <- TimedAcls, Windows <- TimedWindows,
    MaxNode <- TimedNode, MaxEvent <- TimedEvent, MaxTime <- TimedTime,
    nodes <- t_nodes, revoked <- t_revoked, heads <- t_heads, events <- t_events,
    now <- t_now, snapshots <- t_snapshots

ASSUME TimedAssumption ==
    /\ TimedPrincipal # {} /\ TimedAcls \subseteq SUBSET TimedPrincipal
    /\ TimedWindows \subseteq Timed!Window
    /\ TimedNode \in Nat /\ TimedEvent \in Nat /\ TimedTime \in Nat

VARIABLE withdrawn
portVars == <<head, withdrawn, ports, aliases, calls, arms, misses, hits, failovers>>

Ports == INSTANCE PortPlane WITH revoked <- withdrawn

VARIABLES chain, items, revision, read_only, pinned, filters, clearing, spoiled, searches
searchVars == <<chain, items, revision, read_only, pinned, filters, clearing, spoiled, searches>>

Backend == INSTANCE LocalSearch

ASSUME SearchAssumption == Main \in Branch /\ Backend!NoBranch \notin Branch /\ MaxRev \in Nat

VARIABLES l1, row, puts, gets, raced
storageVars == <<l1, row, puts, gets, raced>>

Storage == INSTANCE PodStorage WITH Cold <- OptOut

ASSUME StorageAssumption == OptOut \subseteq Put /\ {Storage!None, Storage!Migrated} \cap Put = {}

VARIABLES described, cut, identities, link, registers, attaches, resolves
linkVars == <<described, cut, identities, link, registers, attaches, resolves>>

Links == INSTANCE NeuralSymlinks WITH
    MaxGen <- MaxCompiled, withdrawn <- cut

VARIABLE service

MCInit ==
    /\ Init /\ Timed!Init /\ Ports!Init /\ Backend!Init /\ Storage!Init /\ Links!Init
    /\ service \in {"registry", "timed", "ports", "search", "storage", "links"}
    /\ service # "storage" => row = Storage!NoRow

MCNext ==
    \/ /\ service = "registry" /\ Next
       /\ UNCHANGED <<timedVars, portVars, searchVars, storageVars, linkVars, service>>
    \/ /\ service = "timed" /\ Timed!Next
       /\ UNCHANGED <<vars, portVars, searchVars, storageVars, linkVars, service>>
    \/ /\ service = "ports" /\ Ports!Next
       /\ UNCHANGED <<vars, timedVars, searchVars, storageVars, linkVars, service>>
    \/ /\ service = "search" /\ Backend!Next
       /\ UNCHANGED <<vars, timedVars, portVars, storageVars, linkVars, service>>
    \/ /\ service = "storage" /\ Storage!Next
       /\ UNCHANGED <<vars, timedVars, portVars, searchVars, linkVars, service>>
    \/ /\ service = "links" /\ Links!Next
       /\ UNCHANGED <<vars, timedVars, portVars, searchVars, storageVars, service>>

MCSpec == MCInit /\ [][MCNext]_<<vars, timedVars, portVars, searchVars, storageVars, linkVars, service>>

TypesOK == TypeOK /\ Timed!TypeOK /\ Ports!TypeOK /\ Backend!TypeOK /\ Storage!TypeOK /\ Links!TypeOK
\* With a clock: the log tells the state, and no commit came too early or too late.
CommitsAreInTime == Timed!LogTellsState /\ Timed!CommitBarrier
\* What opted out of the hot tier stays out of it, and no get returns what a put had
\* replaced before it began.
TiersAgree == Storage!OptedOutStaysCold /\ Storage!GetsAreRegular
BranchesHold == Backend!BranchesHold
LinksAreCurrent == Links!LinksAreCurrent
=============================================================================
