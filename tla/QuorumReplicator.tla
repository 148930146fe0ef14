-------------------------- MODULE QuorumReplicator --------------------------
(***************************************************************************)
(* neural_pods/replication.py: a coordinator writes a revisioned record to *)
(* its replicas one after the other and asks for a quorum of successes;    *)
(* read() asks them in the same order, without the lock, and keeps the     *)
(* newest answer.  One key is modelled: keys share nothing but the lock.   *)
(* A tombstone is a record with the value Deleted.  Retries of one put are *)
(* part of its outcome: stored and acknowledged, stored although every     *)
(* attempt raised, or not stored.                                          *)
(***************************************************************************)
EXTENDS ReplicatorState

Record   == [revision : Nat \ {0}, value : Value]
NoRecord == [revision |-> 0, value |-> Deleted]

Newer(v, w) == IF v > w THEN v ELSE w

vars == <<stored, revisions, write, acked, used, read, begun, firsts>>

\* before: what was acknowledged when the read began.
\* first: no write was begun with this revision before.
IdleWrite == [busy |-> FALSE, record |-> NoRecord, next |-> 1, ok |-> {}, first |-> FALSE]
IdleRead  == [busy |-> FALSE, next |-> 1, answered |-> {}, best |-> NoRecord, before |-> {}]

Init ==
    /\ stored = [r \in Replica |-> NoRecord]
    /\ revisions = 0
    /\ write = IdleWrite
    /\ acked = {}
    /\ used = 0
    /\ read = IdleRead
    /\ begun = {}
    /\ firsts = {}

-----------------------------------------------------------------------------
(* write() and tombstone(), under the coordinator's lock. *)

\* With the revision the caller gave, or the next one.
BeginWrite(v, x) ==
    /\ ~write.busy
    /\ v > revisions
    /\ write' = [busy |-> TRUE, record |-> [revision |-> v, value |-> x], next |-> 1, ok |-> {},
                 first |-> v \notin begun]
    /\ begun' = begun \cup {v}
    /\ UNCHANGED <<stored, revisions, acked, used, read, firsts>>

\* Seeded fault: the upsert also replaces a row of the same revision.
StoreAgain(r) ==
    stored' = [stored EXCEPT ![r] = IF stored[r].revision <= write.record.revision
                                    THEN write.record ELSE @]

\* INSERT ... ON CONFLICT DO UPDATE ... WHERE revision < EXCLUDED.revision
Store(r) ==
    stored' = [stored EXCEPT ![r] = IF stored[r].revision < write.record.revision
                                    THEN write.record ELSE @]

PutSucceeds ==
    /\ write.busy /\ write.next <= N
    /\ Store(write.next)
    /\ write' = [write EXCEPT !.ok = @ \cup {write.next}, !.next = @ + 1]
    /\ UNCHANGED <<revisions, acked, used, read, begun, firsts>>

PutRaises ==
    /\ write.busy /\ write.next <= N
    /\ Store(write.next) \/ UNCHANGED stored
    /\ write' = [write EXCEPT !.next = @ + 1]
    /\ UNCHANGED <<revisions, acked, used, read, begun, firsts>>

WriteReturns ==
    /\ write.busy /\ write.next > N
    /\ Cardinality(write.ok) >= Quorum
    /\ revisions' = write.record.revision
    /\ acked' = acked \cup {write.record}
    /\ used' = Newer(write.record.revision, used)
    /\ firsts' = IF write.first THEN firsts \cup {write.record} ELSE firsts
    /\ write' = IdleWrite
    /\ UNCHANGED <<stored, read, begun>>

\* "quorum unavailable": what was stored stays, _revisions is not advanced.
WriteRaises ==
    /\ write.busy /\ write.next > N
    /\ Cardinality(write.ok) < Quorum
    /\ write' = IdleWrite
    /\ UNCHANGED <<stored, revisions, acked, used, read, begun, firsts>>

-----------------------------------------------------------------------------
(* read(). *)

BeginRead ==
    /\ ~read.busy
    /\ read' = [IdleRead EXCEPT !.busy = TRUE, !.before = acked]
    /\ UNCHANGED <<stored, revisions, write, acked, used, begun, firsts>>

\* Seeded fault: the last answer wins.
WinsLast(a, b) == a.revision > 0

\* max() keeps the first of several records with the greatest revision.
Wins(a, b) == a.revision > b.revision

GetSucceeds ==
    /\ read.busy /\ read.next <= N
    /\ LET answer == stored[read.next] IN
       read' = [read EXCEPT !.next = @ + 1, !.answered = @ \cup {read.next},
                            !.best = IF Wins(answer, @) THEN answer ELSE @]
    /\ UNCHANGED <<stored, revisions, write, acked, used, begun, firsts>>

GetRaises ==
    /\ read.busy /\ read.next <= N
    /\ read' = [read EXCEPT !.next = @ + 1]
    /\ UNCHANGED <<stored, revisions, write, acked, used, begun, firsts>>

\* The winner raises _revisions, for which it takes the lock.
ReadReturns ==
    /\ read.busy /\ read.next > N
    /\ read.best = NoRecord \/ ~write.busy
    /\ revisions' = Newer(read.best.revision, revisions)
    /\ used' = Newer(read.best.revision, used)
    /\ read' = IdleRead
    /\ UNCHANGED <<stored, write, acked, begun, firsts>>

\* A new coordinator over the same replicas; a write in progress stops where it is.
Restart ==
    /\ Restarts
    /\ revisions' = 0
    /\ used' = 0
    /\ write' = IdleWrite
    /\ read' = IdleRead
    /\ UNCHANGED <<stored, acked, begun, firsts>>

Next ==
    \/ \E v \in 1..MaxRev, x \in Value : BeginWrite(v, x)
    \/ PutSucceeds \/ PutRaises \/ WriteReturns \/ WriteRaises
    \/ BeginRead \/ GetSucceeds \/ GetRaises \/ ReadReturns
    \/ Restart

Spec == Init /\ [][Next]_vars
-----------------------------------------------------------------------------
(* What replication promises. *)

TypeOK ==
    /\ stored \in [Replica -> Record \cup {NoRecord}]
    /\ revisions \in Nat
    /\ write \in [busy : BOOLEAN, record : Record \cup {NoRecord}, next : 1..(N + 1), ok : SUBSET Replica,
                  first : BOOLEAN]
    /\ write.busy => write.record \in Record
    /\ \A r \in write.ok : r < write.next
    /\ acked \subseteq Record /\ used \in Nat /\ begun \subseteq Nat /\ firsts \subseteq acked
    /\ read \in [busy : BOOLEAN, next : 1..(N + 1), answered : SUBSET Replica,
                 best : Record \cup {NoRecord}, before : SUBSET acked]

\* While a coordinator lives, a new write has a newer revision than every one that was
\* acknowledged or read before it (72-73, 94, 106).
RevisionsGrow ==
    [][write'.busy /\ ~write.busy => write'.record.revision > used]_vars

\* tests/test_replication.py:29, "test_quorum_replication_reads_latest_and_
\* tombstones": a read that hears from every replica and returns a revision that was
\* acknowledged returns the record that was acknowledged.
ReadsLatest ==
    /\ read.next > N /\ read.answered = Replica
    /\ \E a \in read.before : a.revision = read.best.revision
    => read.best \in read.before
=============================================================================
