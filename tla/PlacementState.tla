--------------------------- MODULE PlacementState ---------------------------
(* The parameters and the state of Placement, and what placement promises,   *)
(* apart from the steps so that a module that checks several components can  *)
(* extend them.                                                              *)
EXTENDS Naturals, Sequences, FiniteSets, FiniteSetsExt, SequencesExt

CONSTANTS
    Node,      \* node ids, numbers in the order of the strings
    Zones,     \* the failure domains each node may register in
    Loads,     \* the loads heartbeats of each node report
    Region,    \* (namespace, region_id) pairs
    MaxEpoch   \* bound on the number of placements

ASSUME PlacementAssumption ==
    /\ Node \subseteq Nat /\ IsFiniteSet(Node)
    /\ Loads \in [Node -> SUBSET Nat]
    /\ MaxEpoch \in Nat

VARIABLES
    zone,     \* the zone of each registered node
    load,     \* load, of the same nodes
    healthy,  \* the nodes whose healthy flag is set
    fresh,    \* the nodes with a recent enough heartbeat
    regions,  \* _regions: the placement of each assigned region
    epoch,    \* _epoch
    pass      \* what reconcile() has before it, and the nodes live when it began

placementVars == <<zone, load, healthy, fresh, regions, epoch, pass>>

Known  == DOMAIN zone
Live   == healthy \cap fresh
Placed == DOMAIN regions

-----------------------------------------------------------------------------
\* A region has as many different nodes as replicas, the first of them leads it, and
\* no two placements share an epoch: a router that compares epochs can tell which of
\* two it read is the later (assign, 72-101).
PlacementsAreSound ==
    /\ \A r \in Placed : LET p == regions[r] IN
         /\ p.replicas # <<>> /\ IsInjective(p.replicas) /\ Range(p.replicas) \subseteq Known
         /\ p.leader = Head(p.replicas)
         /\ p.epoch \in 1..epoch
    /\ \A r, q \in Placed : r # q => regions[r].epoch # regions[q].epoch

\* A new placement uses live nodes only, is led by one of the least loaded, and
\* covers as many zones as the live nodes and the replication factor allow
\* (82-95), also when it is made in the middle of a reconcile pass.
SpreadsOut ==
    \A r \in DOMAIN regions' :
      (r \in Placed => regions'[r] # regions[r]) =>
        LET p     == regions'[r]
            zones == {zone[n] : n \in Live}
        IN  /\ Range(p.replicas) \subseteq Live
            /\ \A n \in Live : load[p.leader] <= load[n]
            /\ Cardinality({zone[n] : n \in Range(p.replicas)})
                 = Min({Cardinality(zones), Len(p.replicas)})

\* What reconcile() has dealt with is on nodes that were live when the pass began,
\* although it places regions by later readings of the clock, and a pass that ends
\* normally has dealt with every region (109-120).
ReconcileHeals ==
    pass.at = "running" =>
      \A r \in Placed \ pass.todo : Range(regions[r].replicas) \subseteq pass.live

\* Neither rebalance nor reconcile changes how many replicas a region has, so a pass
\* under a shortage of nodes raises instead of thinning a region out (103-107).
KeepsFactor ==
    pass.at = "running" =>
      \A r \in Placed : Len(regions'[r].replicas) = Len(regions[r].replicas)

\* Replicas take different zones first, and reconcile() keeps their number.
PlacementsAreKept == [][SpreadsOut /\ KeepsFactor]_placementVars
=============================================================================
