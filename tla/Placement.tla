----------------------------- MODULE Placement -----------------------------
(***************************************************************************)
(* neural_pods/placement.py, PlacementDriver: nodes with a zone, a load    *)
(* and a health, and regions placed on the live ones.  Every method runs   *)
(* under one lock, but reconcile() reads the clock again for each region   *)
(* it moves: heartbeats go on timing out while it works, so it is a        *)
(* sequence of steps with the lock held.  A node whose last heartbeat is   *)
(* too old is not in "fresh".  capacity is stored and never read.          *)
(***************************************************************************)
EXTENDS PlacementState

Placements == [replicas : Seq(Node), leader : Node, epoch : Nat]

NoPass == [todo |-> {}, live |-> {}, at |-> "idle"]
LockFree == pass.at # "running"

Init ==
    /\ zone = <<>>
    /\ load = <<>>
    /\ healthy = {}
    /\ fresh = {}
    /\ regions = <<>>
    /\ epoch = 0
    /\ pass = NoPass

Put(f, x, y) == [z \in DOMAIN f \cup {x} |-> IF z = x THEN y ELSE f[z]]

-----------------------------------------------------------------------------
(* The choice of replicas. *)

\* candidates.sort(key=lambda n: (n.load, n.node_id))
Earlier(m, n) == load[m] < load[n] \/ (load[m] = load[n] /\ m < n)
Sorted(S) == CHOOSE order \in [1..Cardinality(S) -> S] :
                 \A i, j \in DOMAIN order : i < j => Earlier(order[i], order[j])

\* The first candidate of every zone, which the first loop selects.
Firsts(S) == {n \in S : \A m \in S : zone[m] = zone[n] => ~Earlier(m, n)}

\* Seeded fault: the first rf candidates, whatever their zones.
ChooseByLoad(S, rf) == SubSeq(Sorted(S), 1, rf)

\* Seeded fault: the second loop does not skip the nodes selected by the first.
ChooseTwice(S, rf) == SubSeq(Sorted(Firsts(S)) \o Sorted(S), 1, rf)

Choose(S, rf) == SubSeq(Sorted(Firsts(S)) \o Sorted(S \ Firsts(S)), 1, rf)

\* assign() past its check of the candidates, of which there are enough.
Place(r, rf) ==
    LET chosen == Choose(Live, rf)
    IN  /\ epoch' = epoch + 1
        /\ regions' = Put(regions, r, [replicas |-> chosen, leader |-> chosen[1], epoch |-> epoch'])

-----------------------------------------------------------------------------
(* The operations. *)

Register(n, z) ==
    /\ LockFree
    /\ zone' = Put(zone, n, z)
    /\ load' = Put(load, n, 0)
    /\ healthy' = healthy \cup {n}
    /\ fresh' = fresh \cup {n}
    /\ UNCHANGED <<regions, epoch, pass>>

\* A negative load is refused after the node was marked alive: the same step with
\* the old load.
Heartbeat(n, l) ==
    /\ LockFree
    /\ n \in Known
    /\ fresh' = fresh \cup {n}
    /\ healthy' = healthy \cup {n}
    /\ load' = [load EXCEPT ![n] = l]
    /\ UNCHANGED <<zone, regions, epoch, pass>>

SetHealth(n, h) ==
    /\ LockFree
    /\ n \in Known
    /\ healthy' = IF h THEN healthy \cup {n} ELSE healthy \ {n}
    /\ UNCHANGED <<zone, load, fresh, regions, epoch, pass>>

\* A node's heartbeat times out, whoever holds the lock.
TimeOut(n) ==
    /\ n \in fresh
    /\ fresh' = fresh \ {n}
    /\ UNCHANGED <<zone, load, healthy, regions, epoch, pass>>

Assign(r, rf) ==
    /\ LockFree
    /\ rf >= 1 /\ Cardinality(Live) >= rf
    /\ epoch < MaxEpoch
    /\ Place(r, rf)
    /\ UNCHANGED <<zone, load, healthy, fresh, pass>>

Rebalance(r) ==
    /\ r \in Placed
    /\ Assign(r, Len(regions[r].replicas))

BeginReconcile ==
    /\ LockFree
    /\ Placed # {}
    /\ pass' = [todo |-> Placed, live |-> Live, at |-> "running"]
    /\ UNCHANGED <<zone, load, healthy, fresh, regions, epoch>>

\* Seeded fault: only the leader's health is looked at.
SickLeader(r) == regions[r].leader \notin pass.live

Sick(r) == ~(Range(regions[r].replicas) \subseteq pass.live)

ReconcileKeep(r) ==
    /\ pass.at = "running" /\ r \in pass.todo
    /\ ~Sick(r)
    /\ pass' = [pass EXCEPT !.todo = @ \ {r}]
    /\ UNCHANGED <<zone, load, healthy, fresh, regions, epoch>>

ReconcileMove(r) ==
    /\ pass.at = "running" /\ r \in pass.todo
    /\ Sick(r)
    /\ Cardinality(Live) >= Len(regions[r].replicas)
    /\ epoch < MaxEpoch
    /\ Place(r, Len(regions[r].replicas))
    /\ pass' = [pass EXCEPT !.todo = @ \ {r}]
    /\ UNCHANGED <<zone, load, healthy, fresh>>

\* Too few live nodes: the exception ends the pass, the regions moved so far stay
\* moved and the caller gets no list of them.
ReconcileRaise(r) ==
    /\ pass.at = "running" /\ r \in pass.todo
    /\ Sick(r)
    /\ Cardinality(Live) < Len(regions[r].replicas)
    /\ pass' = NoPass
    /\ UNCHANGED <<zone, load, healthy, fresh, regions, epoch>>

EndReconcile ==
    /\ pass.at = "running" /\ pass.todo = {}
    /\ pass' = NoPass
    /\ UNCHANGED <<zone, load, healthy, fresh, regions, epoch>>

Next ==
    \/ \E n \in Node : \/ \E z \in Zones[n] : Register(n, z)
                       \/ \E l \in Loads[n] : Heartbeat(n, l)
                       \/ \E h \in BOOLEAN : SetHealth(n, h)
                       \/ TimeOut(n)
    \/ \E r \in Region : \/ \E rf \in 1..Cardinality(Node) : Assign(r, rf)
                         \/ Rebalance(r)
                         \/ ReconcileKeep(r) \/ ReconcileMove(r) \/ ReconcileRaise(r)
    \/ BeginReconcile \/ EndReconcile

Spec == Init /\ [][Next]_placementVars
-----------------------------------------------------------------------------
TypeOK ==
    /\ Known \subseteq Node /\ \A n \in Known : zone[n] \in Zones[n]
    /\ DOMAIN load = Known /\ \A n \in Known : load[n] \in Loads[n] \cup {0}
    /\ healthy \subseteq Known /\ fresh \subseteq Known
    /\ regions \in [Placed -> Placements] /\ Placed \subseteq Region
    /\ epoch \in 0..MaxEpoch
    /\ pass.todo \subseteq Placed /\ pass.live \subseteq Known
    /\ pass.at \in {"idle", "running"}
=============================================================================
