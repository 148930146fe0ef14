--------------------------- MODULE ReplicatorState ---------------------------
(* The parameters and the state of QuorumReplicator, and what its quorums    *)
(* promise, apart from the steps so that a module that checks several        *)
(* components can extend them.                                               *)
EXTENDS Naturals, FiniteSets

CONSTANTS
    N,        \* number of replicas, in the order of the dict
    Quorum,   \* successes a write needs
    Value,    \* payloads
    Deleted,  \* the value of a tombstone
    Restarts, \* whether the coordinator's process may be replaced
    MaxRev    \* bound on the revisions

Replica == 1..N

ASSUME ReplicatorAssumption ==
    /\ N \in Nat /\ Quorum \in 1..N
    /\ Deleted \in Value
    /\ Restarts \in BOOLEAN
    /\ MaxRev \in Nat

VARIABLES
    stored,     \* the row of each replica, revision 0 if there is none
    revisions,  \* _revisions of the key, 0 if absent
    write,      \* the write in progress: its record, the next replica, the successes
    acked,      \* the records whose write returned
    used,       \* history: the newest revision this coordinator acknowledged or read
    read,       \* the read in progress
    begun,      \* history: the revisions a write of any coordinator was begun with
    firsts      \* history: the acknowledged records whose write was the first of its revision

-----------------------------------------------------------------------------
Holders(v) == {r \in Replica : stored[r].revision >= v}

\* The replicas that have the record itself or one of a newer revision.
Keepers(a) == {r \in Replica : stored[r] = a \/ stored[r].revision > a.revision}

\* Whatever failed, was retried or raised on the way, and whatever the coordinators
\* after it write: the revision of a write that returned, or a newer one, is on a quorum
\* of replicas; and if no write was begun with that revision before it, so is the record
\* itself, with its payload, or a newer one (write, 69-95).  A revision that a failed
\* write left behind and the next write takes again is what the second part leaves out:
\* there the upsert changes nothing and still counts as a success (34, 93).
AckedOnQuorum ==
    /\ \A a \in acked : Cardinality(Holders(a.revision)) >= Quorum
    /\ \A a \in firsts : Cardinality(Keepers(a)) >= Quorum

\* A read that heard from enough replicas to meet every quorum is about to return nothing
\* older than what was acknowledged when it began, although it takes no lock and writes go
\* on while it asks (read, 97-107).
QuorumReadIsRecent ==
    read.next > N /\ Cardinality(read.answered) + Quorum > N =>
      \A a \in read.before : read.best.revision >= a.revision
=============================================================================
