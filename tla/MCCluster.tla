------------------------------ MODULE MCCluster ------------------------------
(* What hosts agree on, and what survives one of them, checked side by side: *)
(* a behaviour is one of one component.                                       *)
(*                                                                            *)
(* lease: three clients, two of which share a holder name.                    *)
(* placement: two of three nodes share a zone, and the node with the smallest *)
(* id may be the busiest.  The two regions are symmetric: no operation orders *)
(* or singles them out.                                                       *)
(* writes: three replicas, quorum two, two payloads, a coordinator that       *)
(* restarts.                                                                  *)
(* reads: the same with a reader beside the writer, and one payload.          *)
(* raft: one node, two candidates, killed at any moment.                      *)
(* snapshots: a writer and a proposer that die twice.                         *)
(* frames: two frames, each tried twice; the network breaks one connection.   *)
EXTENDS FencedLeader, PlacementState, ReplicatorState, RaftState, SnapshotState, FrameState

CONSTANTS east, west  \* two regions

Regions   == {east, west}
RegionsAreAlike == Permutations(Regions)

Names == [c \in Client |-> IF c = "c" THEN "n2" ELSE "n1"]

Nodes     == {1, 2, 3}
TwoZones  == [n \in Nodes |-> IF n = 3 THEN {"b"} ELSE {"a"}]
OneLoaded == [n \in Nodes |-> IF n = 1 THEN {0, 1} ELSE {0}]

Driver == INSTANCE Placement

replicatorVars == <<stored, revisions, write, acked, used, read, begun, firsts>>

Replicator == INSTANCE QuorumReplicator

raftVars == <<hard, log, ready, emit, wal, votes, owed>>

Raft == INSTANCE RaftPeer

snapshotVars == <<files, tmp, latest, at, revision, returned, doomed, crashes, queued, pending, logged, released, proposer>>

Snapshots == INSTANCE SnapshotStore

frameVars == <<sequence, attempts, socket, raised, streams, ends, threads, stop, handed, late, breaks>>

Frames == INSTANCE RaftTransport

VARIABLE service

MCInit == /\ Init /\ Driver!Init /\ Replicator!Init /\ Raft!Init /\ Snapshots!Init /\ Frames!Init
          /\ service \in {"lease", "placement", "writes", "reads", "raft", "snapshots", "frames"}

MCNext ==
    \/ /\ service = "lease" /\ Next
       /\ UNCHANGED <<placementVars, replicatorVars, raftVars, snapshotVars, frameVars, service>>
    \/ /\ service = "placement" /\ Driver!Next
       /\ UNCHANGED <<vars, replicatorVars, raftVars, snapshotVars, frameVars, service>>
    \/ /\ service = "writes" /\ Replicator!Next /\ ~read'.busy
       /\ UNCHANGED <<vars, placementVars, raftVars, snapshotVars, frameVars, service>>
    \/ /\ service = "reads" /\ Replicator!Next /\ write'.record.value = Deleted
       /\ UNCHANGED <<vars, placementVars, raftVars, snapshotVars, frameVars, service>>
    \/ /\ service = "raft" /\ Raft!Next
       /\ UNCHANGED <<vars, placementVars, replicatorVars, snapshotVars, frameVars, service>>
    \/ /\ service = "snapshots" /\ Snapshots!Next
       /\ UNCHANGED <<vars, placementVars, replicatorVars, raftVars, frameVars, service>>
    \/ /\ service = "frames" /\ Frames!Next
       /\ UNCHANGED <<vars, placementVars, replicatorVars, raftVars, snapshotVars, service>>

MCSpec == MCInit /\ [][MCNext]_<<vars, placementVars, replicatorVars, raftVars, snapshotVars, frameVars, service>>

TypesOK == TypeOK /\ Driver!TypeOK /\ Replicator!TypeOK /\ Raft!TypeOK /\ Snapshots!TypeOK /\ Frames!TypeOK
=============================================================================
