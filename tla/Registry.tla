------------------------------ MODULE Registry ------------------------------
(***************************************************************************)
(* neural_pods/registry.py: the immutable lineage DAG and its commit       *)
(* barrier.  Every operation runs under the registry's lock and, when it   *)
(* writes, inside one BEGIN IMMEDIATE transaction (transaction(), 91-112), *)
(* so it is one action here; an exception rolls the transaction back and   *)
(* is the absence of a step.  What does interleave is a client that takes  *)
(* a snapshot, computes an answer, and commits it later, with the writers  *)
(* and with the clock.                                                     *)
(*                                                                         *)
(* A node id is the hash of kind, payload and parents.  Here it is the     *)
(* position of the row in the node table: equal content has equal          *)
(* position, because _add returns the row that exists.                     *)
(***************************************************************************)
EXTENDS Naturals, Sequences, FiniteSets

CONSTANTS
    Content,     \* payload contents (semantic, text, derivation, ...)
    Key,         \* knowledge keys
    Principal,   \* principals; an ACL holding "*" is the whole set
    Acls,        \* the ACLs writers use
    Windows,     \* the validity intervals writers use
    Client,      \* concurrent callers that snapshot and commit
    MaxNode,     \* bound: rows of the node table
    MaxEvent,    \* bound: rows of the event table
    MaxTime      \* bound: clock readings

Time == 0..MaxTime
\* A knowledge without valid_until is valid until after the last reading.
Window == [from : Time, until : 0..(MaxTime + 1)]
Always == [from |-> 0, until |-> MaxTime + 1]

ASSUME RegistryAssumption ==
    /\ Principal # {}
    /\ Acls \subseteq SUBSET Principal
    /\ Windows \subseteq Window
    /\ MaxNode \in Nat /\ MaxEvent \in Nat /\ MaxTime \in Nat

VARIABLES
    nodes,     \* table nodes (without its revoked column) and table edges
    revoked,   \* ids with revoked = 1
    heads,     \* table heads: the node and generation of each key
    events,    \* table events, oldest first
    now,       \* what self.clock() returns
    snapshots  \* the Snapshot each client holds

vars == <<nodes, revoked, heads, events, now, snapshots>>

NodeId == 1..MaxNode
Generation == Nat
Kind       == {"origin", "knowledge", "artifact", "answer"}

Node == [kind : Kind, content : Content, key : SUBSET Key, generation : Generation,
         acl : SUBSET Principal, window : Window, parents : SUBSET NodeId,
         header : SUBSET NodeId]
HeadRow == [node : 0..MaxNode, generation : Generation]
Event == [action : {"publish", "commit", "revoke"}, node : NodeId,
          affected : SUBSET NodeId, ts : Time]
Snapshot == [artifacts : SUBSET NodeId, principal : Principal]

NoHead == [node |-> 0, generation |-> 0]

-----------------------------------------------------------------------------
(* The recursive SQL queries.  WITH RECURSIVE r(id) AS (SELECT n UNION SELECT next  *)
(* ... JOIN r) returns the least set that holds n and is closed under the join.  It *)
(* is written as what all such sets hold, so no recursion is needed and its laws    *)
(* can be proved.                                                                   *)

\* S is closed under the step function next.
Closed(S, next) == \A x \in S : next[x] \subseteq S

\* The ids the query returns when it starts at n and follows next inside U: n, and
\* what no closed set around n leaves out.
Reach(U, next, n) ==
    {m \in U : m = n \/ \A S \in SUBSET (U \ {m, n}) : ~Closed(S \cup {n}, next)}

-----------------------------------------------------------------------------
(* Reading the DAG. *)

Ids == DOMAIN nodes

Parents == [i \in Ids |-> nodes[i].parents]
Children == [i \in Ids |-> {c \in Ids : i \in nodes[c].parents}]

Ancestors(i) == Reach(Ids, Parents, i)
Descendants(i) == Reach(Ids, Children, i)

IsHead(i) == \A k \in nodes[i].key : heads[k].node = i

\* Seeded fault: the walk forgets that a knowledge must still be the head.
UsableAnyGeneration(i, p) ==
    /\ i \notin revoked
    /\ p \in nodes[i].acl
    /\ nodes[i].kind = "knowledge" =>
         nodes[i].window.from <= now /\ now < nodes[i].window.until

\* Seeded fault: the walk does not look at the clock.
UsableAnyTime(i, p) ==
    /\ i \notin revoked
    /\ p \in nodes[i].acl
    /\ nodes[i].kind = "knowledge" => IsHead(i)

\* The checks _valid makes on one node of the ancestry.
Usable(i, p) ==
    /\ i \notin revoked
    /\ p \in nodes[i].acl
    /\ nodes[i].kind = "knowledge" =>
         /\ nodes[i].window.from <= now
         /\ now < nodes[i].window.until
         /\ IsHead(i)

\* The nodes for which _valid returns instead of raising.
ValidIds(p) == {i \in Ids : \A a \in Ancestors(i) : Usable(a, p)}

-----------------------------------------------------------------------------
(* Writing. *)

\* Rows that already hold this content: at most one, its hash is its key.
Existing(node) == {i \in Ids : nodes[i] = node}

\* The id _add returns.
IdOf(node) == IF Existing(node) = {} THEN Len(nodes) + 1
                                     ELSE CHOOSE i \in Existing(node) : TRUE

\* _add: a revoked row is not created again, an existing row is returned.
Add(node) ==
    /\ Existing(node) \cap revoked = {}
    /\ IdOf(node) \in NodeId
    /\ nodes' = IF Existing(node) = {} THEN Append(nodes, node) ELSE nodes

\* record_event reads the clock again, so time may have passed since the
\* checks of the same transaction.
Record(action, i, affected) ==
    \E t \in now..MaxTime :
        /\ Len(events) < MaxEvent
        /\ events' = Append(events, [action |-> action, node |-> i,
                                     affected |-> affected, ts |-> t])
        /\ now' = t

\* What _artifact collects from the ancestries of the parents: the origins and
\* the knowledge, stored as origin_keys and generations.
Evidence(parents) ==
    {a \in UNION {Ancestors(p) : p \in parents} :
        nodes[a].kind \in {"origin", "knowledge"}}

ArtifactNode(kind, content, parents) ==
    [kind |-> kind, content |-> content, key |-> {}, generation |-> 0,
     acl |-> Principal, window |-> Always, parents |-> parents,
     header |-> Evidence(parents)]

\* What _artifact requires of the collected evidence.
Grounded(parents) ==
    {"origin", "knowledge"} \subseteq {nodes[a].kind : a \in Evidence(parents)}

-----------------------------------------------------------------------------
Init ==
    /\ nodes = <<>>
    /\ revoked = {}
    /\ heads = [k \in Key |-> NoHead]
    /\ events = <<>>
    /\ now = 0
    /\ snapshots = [c \in Client |-> [artifacts |-> {}, principal |-> CHOOSE p \in Principal : TRUE]]

Origin ==
    /\ \E content \in Content, acl \in Acls :
         Add([kind |-> "origin", content |-> content, key |-> {}, generation |-> 0,
              acl |-> acl, window |-> Always, parents |-> {}, header |-> {}])
    /\ UNCHANGED <<revoked, heads, events, now, snapshots>>

\* Seeded fault: the generation is not part of the hashed payload.
KnowledgeNodeUnversioned(content, k, acl, window, parents) ==
    [kind |-> "knowledge", content |-> content, key |-> {k}, generation |-> 1,
     acl |-> acl, window |-> window, parents |-> parents, header |-> {}]

KnowledgeNode(content, k, acl, window, parents) ==
    [kind |-> "knowledge", content |-> content, key |-> {k},
     generation |-> heads[k].generation + 1, acl |-> acl,
     window |-> window, parents |-> parents, header |-> {}]

Publish(p, k, content, acl, window) ==
    \E parents \in SUBSET ValidIds(p) :
        LET node == KnowledgeNode(content, k, acl, window, parents) IN
        /\ parents # {}
        /\ window.from < window.until
        /\ Add(node)
        /\ heads' = [heads EXCEPT ![k] = [node |-> IdOf(node), generation |-> node.generation]]
        /\ Record("publish", IdOf(node), {})
        /\ UNCHANGED <<revoked, snapshots>>

\* artifact() of any kind; the answers of commit() are of kind "answer" too.
Artifact(p, kind, content) ==
    \E parents \in SUBSET ValidIds(p) :
        /\ parents # {}
        /\ Grounded(parents)
        /\ Add(ArtifactNode(kind, content, parents))
        /\ UNCHANGED <<revoked, heads, events, now, snapshots>>

\* Seeded fault: the ids are taken from the caller without a look at the table.
TakeSnapshotUnchecked(c, p) ==
    \E artifacts \in SUBSET NodeId :
        /\ artifacts # {}
        /\ snapshots' = [snapshots EXCEPT ![c] = [artifacts |-> artifacts, principal |-> p]]
        /\ UNCHANGED <<nodes, revoked, heads, events, now>>

TakeSnapshot(c, p) ==
    \E artifacts \in SUBSET ValidIds(p) :
        /\ artifacts # {}
        /\ snapshots' = [snapshots EXCEPT ![c] = [artifacts |-> artifacts, principal |-> p]]
        /\ UNCHANGED <<nodes, revoked, heads, events, now>>

\* Seeded fault: the checks made by the snapshot are trusted at commit.
CommitTrustingSnapshot(c, text) ==
    LET parents == snapshots[c].artifacts
        answer  == ArtifactNode("answer", text, parents)
    IN  /\ parents # {}
        /\ Add(answer)
        /\ Record("commit", IdOf(answer), {})
        /\ UNCHANGED <<revoked, heads, snapshots>>

Commit(c, text) ==
    LET parents == snapshots[c].artifacts
        answer  == ArtifactNode("answer", text, parents)
    IN  /\ parents # {}
        /\ parents \subseteq ValidIds(snapshots[c].principal)
        /\ Grounded(parents)
        /\ Add(answer)
        /\ Record("commit", IdOf(answer), {})
        /\ UNCHANGED <<revoked, heads, snapshots>>

\* Seeded fault: only the children of the node are revoked with it.
RevokeChildren(i) ==
    /\ i \in Ids
    /\ revoked' = revoked \cup {i} \cup Children[i]
    /\ Record("revoke", i, {i} \cup Children[i])
    /\ UNCHANGED <<nodes, heads, snapshots>>

\* Seeded fault: the event names the root alone.
RevokeLoggingRoot(i) ==
    /\ i \in Ids
    /\ revoked' = revoked \cup Descendants(i)
    /\ Record("revoke", i, {i})
    /\ UNCHANGED <<nodes, heads, snapshots>>

Revoke(i) ==
    /\ i \in Ids
    /\ revoked' = revoked \cup Descendants(i)
    /\ Record("revoke", i, Descendants(i))
    /\ UNCHANGED <<nodes, heads, snapshots>>

Tick ==
    /\ now < MaxTime
    /\ now' = now + 1
    /\ UNCHANGED <<nodes, revoked, heads, events, snapshots>>

Next ==
    \/ Origin
    \/ \E p \in Principal, k \in Key, content \in Content, acl \in Acls, window \in Windows :
         Publish(p, k, content, acl, window)
    \/ \E p \in Principal, kind \in {"artifact", "answer"}, content \in Content :
         Artifact(p, kind, content)
    \/ \E c \in Client, p \in Principal : TakeSnapshot(c, p)
    \/ \E c \in Client, text \in Content : Commit(c, text)
    \/ \E i \in Ids : Revoke(i)
    \/ Tick

Spec == Init /\ [][Next]_vars
-----------------------------------------------------------------------------
(* What the registry promises. *)

\* Every table has its declared shape and an edge leads to an older row.
TypeOK ==
    /\ nodes \in Seq(Node)
    /\ Len(nodes) <= MaxNode
    /\ \A i \in Ids : nodes[i].parents \subseteq 1..(i - 1)
    /\ revoked \subseteq Ids
    /\ heads \in [Key -> HeadRow]
    /\ \A k \in Key : heads[k].node \in Ids \cup {0}
    /\ events \in Seq(Event)
    /\ now \in Time
    /\ snapshots \in [Client -> Snapshot]
    /\ \A c \in Client : snapshots[c].artifacts \subseteq Ids

\* revoke() marks what exists when it runs.  Nothing below a revoked node is
\* ever unrevoked, whatever is derived, published or committed afterwards
\* (revoke, 278-286; the parent checks of publish and _artifact).
RevocationReachesDescendants ==
    \A i \in Ids : Ancestors(i) \cap revoked # {} => i \in revoked

\* No use of a node can succeed again: something in its ancestry is revoked or
\* is a knowledge that another generation replaced.
Dead(i) == \E a \in Ancestors(i) :
    a \in revoked \/ (nodes[a].kind = "knowledge" /\ ~IsHead(a))

Retired == {i \in Ids : Dead(i)}

\* The acknowledged answers, from the log.
Receipts == {[number |-> j, item |-> events[j].node] :
                j \in {e \in DOMAIN events : events[e].action = "commit"}}

Barrier == INSTANCE EvidenceBarrier WITH deps <- Parents, dead <- Retired, receipts <- Receipts

\* The registry implements the evidence barrier: no publication of old content, no
\* restore and no late commit brings a dead node back or builds on one
\* (publish, 213-231; _add, 140-143; commit, 269-276; revoke, 278-286).
ImplementsBarrier == Barrier!Spec

Committed(j, i) == events[j].action = "commit" /\ i \in Ancestors(events[j].node)

\* The commit barrier, read from the audit log: when a commit is logged, none of
\* the answer's evidence is in an earlier revocation or behind an earlier
\* publication of its key, none had expired by an earlier row's time stamp and
\* none becomes valid later (commit, 269-276).
CommitBarrier ==
    \A j \in DOMAIN events, i \in Ids : Committed(j, i) =>
        /\ nodes[i].kind = "knowledge" => nodes[i].window.from <= events[j].ts
        /\ \A e \in 1..(j - 1) :
            /\ i \notin events[e].affected
            /\ nodes[i].kind = "knowledge" => events[e].ts < nodes[i].window.until
            /\ (events[e].action = "publish" /\ nodes[i].kind = "knowledge"
                 /\ nodes[i].key = nodes[events[e].node].key)
               => nodes[events[e].node].generation <= nodes[i].generation

\* No artifact or answer rests on two generations of one key, though its parents
\* are validated one after the other (_artifact, 241-247).
NoMixedGenerations ==
    \A i \in Ids : nodes[i].kind \in {"artifact", "answer"} =>
        \A a, b \in Ancestors(i) :
            (nodes[a].kind = "knowledge" /\ nodes[b].kind = "knowledge"
             /\ nodes[a].key = nodes[b].key) => a = b

\* The header of an artifact lists the origins and generations of its whole
\* lineage, the check of audit_lineage.py (_artifact, 239-253).
HeaderIsLineage ==
    \A i \in Ids : nodes[i].kind \in {"artifact", "answer"} =>
        nodes[i].header = {a \in Ancestors(i) : nodes[a].kind \in {"origin", "knowledge"}}

\* What an artifact rests on and what it says it rests on.
EvidenceIsCoherent == NoMixedGenerations /\ HeaderIsLineage

\* The publications of key k in the log.
Published(k) == {e \in DOMAIN events : events[e].action = "publish"
                                       /\ nodes[events[e].node].key = {k}}

\* The event log alone tells the mutable state: the revoked set is the union of
\* the logged closures and each head is the last publication of its key.
LogTellsState ==
    /\ revoked = UNION {events[e].affected : e \in DOMAIN events}
    /\ \A k \in Key :
        /\ heads[k].generation = Cardinality(Published(k))
        /\ \A e \in Published(k) : (\A f \in Published(k) : f <= e)
                                    => heads[k].node = events[e].node
=============================================================================
