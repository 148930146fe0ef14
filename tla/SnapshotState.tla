----------------------------- MODULE SnapshotState -----------------------------
(* The parameters and the state of SnapshotStore, and what store and node     *)
(* promise, apart from the steps so that a module that checks several         *)
(* components can extend them.                                                *)
EXTENDS Naturals, FiniteSets

CONSTANTS
    Keep,         \* argument of compact
    MaxRevision,  \* bound: revisions written
    MaxCrash,     \* bound: times the process dies
    Proposal      \* what is proposed to the node

ASSUME SnapshotAssumption == Keep \in Nat \ {0} /\ MaxRevision \in Nat /\ MaxCrash \in Nat

VARIABLES
    files,     \* revisions that have a snapshot file
    tmp,       \* LATEST.tmp: absent, just created, or a revision
    latest,    \* LATEST: absent or a revision
    at,        \* where write or compact is
    revision,  \* the revision last written, or begun
    returned,  \* history: the revision of the last write that returned
    doomed,    \* the files compact() has listed for removal
    crashes,
    queued,    \* proposals the node holds that are in no Ready
    pending,   \* the node's pending_ready
    logged,    \* the proposals of the lines of wal.jsonl
    released,  \* what ack_ready() returned to the callers of propose
    proposer   \* where propose is

Absent == 0

-----------------------------------------------------------------------------
\* snapshot_store.py:3-6: the manifest "points at the latest revision".  At every moment,
\* however many processes died in the middle of a write or of compact(), LATEST is no older
\* than any write that returned; and the file it names is there as long as fewer of them
\* died than compact() keeps files, which it chooses by name without a look at LATEST.
LatestIsReadable ==
    /\ returned <= latest
    /\ crashes < Keep /\ latest # Absent => latest \in files

\* raft_backend.py:25-27: what the node acknowledged is in the log, also after a crash.
AckedIsLogged == released \subseteq logged

\* What a reader of the store and a caller of the node rely on survives every crash.
SnapshotsAndLogSurvive == LatestIsReadable /\ AckedIsLogged
=============================================================================
