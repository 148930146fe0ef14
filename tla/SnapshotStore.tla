---------------------------- MODULE SnapshotStore ----------------------------
(***************************************************************************)
(* neural_pods/snapshot_store.py: a namespace's snapshot files, the file   *)
(* LATEST that names one of them, and the log; and DurableRaftNode         *)
(* (raft_backend.py), which logs what the native node is ready to persist  *)
(* before it acknowledges it.  One process writes, compacts, and may die   *)
(* between any two steps; the machine stays up.  A write or compact() that *)
(* raises leaves on disk what a process that dies there leaves.  Revisions *)
(* go up, and a revision has one content: a write may repeat the last one. *)
(* A file is renamed into place, or removed, in one step.                  *)
(***************************************************************************)
EXTENDS SnapshotState, FiniteSetsExt

store == <<files, tmp, latest, at, revision, returned, doomed>>
raft  == <<queued, pending, logged, released, proposer>>
vars == <<store, crashes, raft>>

Init ==
    /\ files = {} /\ tmp = {} /\ latest = Absent /\ at = "idle" /\ revision = 0 /\ returned = 0 /\ doomed = {}
    /\ crashes = 0
    /\ queued = {} /\ pending = {} /\ logged = {} /\ released = {} /\ proposer = "idle"

-----------------------------------------------------------------------------
(* SnapshotStore. *)

BeginWrite ==
    /\ at = "idle"
    /\ revision' \in {revision, revision + 1} \ {0, MaxRevision + 1}
    /\ at' = "file"
    /\ UNCHANGED <<files, tmp, latest, returned, doomed, crashes, raft>>

WriteFile ==
    /\ at = "file"
    /\ files' = files \cup {revision}
    /\ at' = "open"
    /\ UNCHANGED <<tmp, latest, revision, returned, doomed, crashes, raft>>

\* write_text truncates LATEST.tmp, which a dead process may have left, and fills it.
OpenTmp ==
    /\ at = "open"
    /\ tmp' = {}
    /\ at' = "fill"
    /\ UNCHANGED <<files, latest, revision, returned, doomed, crashes, raft>>

FillTmp ==
    /\ at = "fill"
    /\ tmp' = {revision}
    /\ at' = "rename"
    /\ UNCHANGED <<files, latest, revision, returned, doomed, crashes, raft>>

Rename ==
    /\ at = "rename"
    /\ latest' = Max(tmp)
    /\ tmp' = {}
    /\ at' = "return"
    /\ UNCHANGED <<files, revision, returned, doomed, crashes, raft>>

Return ==
    /\ at = "return"
    /\ returned' = revision
    /\ at' = "idle"
    /\ UNCHANGED <<files, tmp, latest, revision, doomed, crashes, raft>>

\* Seeded fault: the file being named is not among those kept.
CompactOneMore ==
    /\ at = "idle"
    /\ doomed' = {f \in files : Cardinality({g \in files : g > f}) >= Keep - 1}
    /\ at' = "compact"
    /\ UNCHANGED <<files, tmp, latest, revision, returned, crashes, raft>>

\* All but the last Keep files by name.
Compact ==
    /\ at = "idle"
    /\ doomed' = {f \in files : Cardinality({g \in files : g > f}) >= Keep}
    /\ at' = "compact"
    /\ UNCHANGED <<files, tmp, latest, revision, returned, crashes, raft>>

Unlink ==
    /\ at = "compact"
    /\ IF doomed = {} THEN at' = "idle" /\ UNCHANGED <<files, doomed>>
       ELSE /\ files' = files \ {Min(doomed)}
            /\ doomed' = doomed \ {Min(doomed)}
            /\ UNCHANGED at
    /\ UNCHANGED <<tmp, latest, revision, returned, crashes, raft>>

-----------------------------------------------------------------------------
(* DurableRaftNode. *)

\* propose_pending: without a pending Ready everything queued becomes one; with one,
\* left by a propose that raised, propose returns at once.
Propose(p) ==
    /\ proposer = "idle"
    /\ p \notin queued \cup pending \cup logged
    /\ IF pending = {}
       THEN pending' = queued \cup {p} /\ queued' = {} /\ proposer' = "log"
       ELSE queued' = queued \cup {p} /\ UNCHANGED <<pending, proposer>>
    /\ UNCHANGED <<store, crashes, logged, released>>

\* append_wal, which may raise.
Log ==
    /\ proposer = "log"
    /\ \/ logged' = logged \cup pending /\ proposer' = "ack"
       \/ UNCHANGED logged /\ proposer' = "idle"
    /\ UNCHANGED <<store, crashes, queued, pending, released>>

Acknowledge ==
    /\ proposer = "ack"
    /\ released' = released \cup pending
    /\ pending' = {}
    /\ proposer' = "idle"
    /\ UNCHANGED <<store, crashes, queued, logged>>

Crash ==
    /\ crashes < MaxCrash
    /\ crashes' = crashes + 1
    /\ at' = "idle" /\ doomed' = {}
    /\ queued' = {} /\ pending' = {} /\ proposer' = "idle"
    /\ UNCHANGED <<files, tmp, latest, revision, returned, logged, released>>

Next ==
    \/ BeginWrite \/ WriteFile \/ OpenTmp \/ FillTmp \/ Rename \/ Return \/ Compact \/ Unlink
    \/ \E p \in Proposal : Propose(p)
    \/ Log \/ Acknowledge
    \/ Crash

Spec == Init /\ [][Next]_vars
-----------------------------------------------------------------------------
(* What store and node promise. *)

TypeOK ==
    /\ files \subseteq 1..MaxRevision /\ latest \in 0..MaxRevision /\ revision \in 0..MaxRevision /\ returned \in 0..MaxRevision
    /\ tmp \subseteq 1..MaxRevision /\ doomed \subseteq files
    /\ at \in {"idle", "file", "open", "fill", "rename", "return", "compact"}
    /\ crashes \in 0..MaxCrash
    /\ queued \cup pending \cup released \subseteq Proposal
    /\ proposer \in {"idle", "log", "ack"}
=============================================================================
