--------------------------- MODULE RegistryProofs ---------------------------
(***************************************************************************)
(* The registry's invariants for every content, key, principal, client and *)
(* bound.  Type correctness needs no strengthening.  That revocation       *)
(* reaches all descendants is not inductive as it stands: the inductive    *)
(* form speaks of single edges (RevokedEdges), and the laws of Reach carry *)
(* it to whole ancestries.  The commit barrier and the coherence of        *)
(* evidence need more (BInv): that the log lies in the past, and that a    *)
(* row's ancestry never changes.                                           *)
(***************************************************************************)
EXTENDS Registry, SequenceTheorems, FiniteSetTheorems, TLAPS

-----------------------------------------------------------------------------
(* The three laws of the recursive queries, for any node set and any edges. *)

\* The query returns ids of the table, its start among them.
LEMMA ReachContainsStart ==
    ASSUME NEW U, NEW next, NEW n \in U
    PROVE  n \in Reach(U, next, n) /\ Reach(U, next, n) \subseteq U
BY DEF Reach

\* The result is closed under the join the query repeats.
LEMMA ReachIsClosed ==
    ASSUME NEW U, NEW next, NEW n \in U,
           \A x \in U : next[x] \subseteq U
    PROVE  Closed(Reach(U, next, n), next)
<1> SUFFICES ASSUME NEW x \in Reach(U, next, n), NEW m \in next[x], m # n,
                    NEW S \in SUBSET (U \ {m, n}), Closed(S \cup {n}, next)
             PROVE  FALSE
    BY DEF Closed, Reach
<1>1. x \in S \cup {n}
  <2> SUFFICES ASSUME x \notin S, x # n
               PROVE  FALSE
      OBVIOUS
  <2>1. S \in SUBSET (U \ {x, n})
      OBVIOUS
  <2> QED
      BY <2>1 DEF Reach
<1> QED
    BY <1>1 DEF Closed

\* Nothing else is returned: any closed set of ids with the start holds it.
LEMMA ReachIsLeast ==
    ASSUME NEW U, NEW next, NEW n \in U,
           NEW S \in SUBSET U, n \in S, Closed(S, next)
    PROVE  Reach(U, next, n) \subseteq S
<1> SUFFICES ASSUME NEW m \in Reach(U, next, n), m \notin S
             PROVE  FALSE
    OBVIOUS
<1>1. S = (S \ {n}) \cup {n} /\ S \ {n} \in SUBSET (U \ {m, n})
    OBVIOUS
<1> QED
    BY <1>1 DEF Reach

-----------------------------------------------------------------------------
(* Type correctness and revocation. *)

\* A row whose parents include a revoked row is revoked.
RevokedEdges == \A c \in Ids : nodes[c].parents \cap revoked # {} => c \in revoked

IInv == TypeOK /\ RevokedEdges

\* A node is one of its own ancestors and one of its own descendants, and both
\* walks stay inside the table.
LEMMA WalksAreIds ==
    ASSUME TypeOK, NEW i \in Ids
    PROVE  /\ i \in Ancestors(i) /\ Ancestors(i) \subseteq Ids
           /\ i \in Descendants(i) /\ Descendants(i) \subseteq Ids
BY ReachContainsStart DEF Ancestors, Descendants

\* What _valid accepts is in the table and not revoked.
LEMMA ValidIsLive ==
    ASSUME TypeOK, NEW p
    PROVE  ValidIds(p) \subseteq Ids \ revoked
BY WalksAreIds DEF ValidIds, Usable

\* The revocation closure holds every child of its members.
LEMMA DescendantsTakeChildren ==
    ASSUME TypeOK, NEW i \in Ids, NEW c \in Ids,
           nodes[c].parents \cap Descendants(i) # {}
    PROVE  c \in Descendants(i)
<1>1. \A x \in Ids : Children[x] \subseteq Ids
    BY DEF Children
<1>2. Closed(Descendants(i), Children)
    BY <1>1, ReachIsClosed DEF Descendants
<1>3. PICK x \in Descendants(i) : x \in nodes[c].parents
    OBVIOUS
<1>4. c \in Children[x]
    BY <1>3, WalksAreIds DEF Children
<1> QED
    BY <1>2, <1>4 DEF Closed

-----------------------------------------------------------------------------
(* The two table writes every operation is made of. *)

\* The part of TypeOK about the node table.
NodesOK(table) ==
    /\ table \in Seq(Node)
    /\ Len(table) <= MaxNode
    /\ \A i \in DOMAIN table : table[i].parents \subseteq 1..(i - 1)

\* Inserting a row keeps the table well formed and every old row in its place;
\* the only new row, if there is one, is the node itself.
LEMMA AddStep ==
    ASSUME TypeOK, NEW node \in Node, node.parents \subseteq Ids, Add(node)
    PROVE  /\ NodesOK(nodes')
           /\ Ids \subseteq Ids'
           /\ IdOf(node) \in Ids' \cap NodeId
           /\ \A i \in Ids : nodes'[i] = nodes[i]
           /\ \A i \in Ids' \ Ids : nodes'[i].parents = node.parents
<1>1. nodes \in Seq(Node) /\ Len(nodes) \in Nat /\ Ids = 1..Len(nodes)
    BY DEF TypeOK, Ids
<1>2. CASE Existing(node) = {}
    <2>1. nodes' = Append(nodes, node) /\ IdOf(node) = Len(nodes) + 1
        BY <1>2 DEF Add, IdOf
    <2>2. /\ nodes' \in Seq(Node) /\ Len(nodes') = Len(nodes) + 1
          /\ Ids' = 1..(Len(nodes) + 1)
          /\ nodes'[Len(nodes) + 1] = node
          /\ \A i \in Ids : nodes'[i] = nodes[i]
        BY <1>1, <2>1 DEF Ids
    <2>3. Len(nodes) + 1 \in 1..MaxNode
        BY <2>1 DEF Add, NodeId
    <2>4. \A i \in Ids' : nodes'[i].parents \subseteq 1..(i - 1)
        <3> SUFFICES ASSUME NEW i \in Ids'
                     PROVE  nodes'[i].parents \subseteq 1..(i - 1)
            OBVIOUS
        <3>1. CASE i \in Ids
            BY <3>1, <2>2 DEF TypeOK
        <3>2. CASE i = Len(nodes) + 1
            BY <3>2, <2>2, <1>1
        <3> QED
            BY <3>1, <3>2, <1>1, <2>2
    <2> QED
        BY <1>1, <2>1, <2>2, <2>3, <2>4, RegistryAssumption DEF NodesOK, Ids, NodeId
<1>3. CASE Existing(node) # {}
    <2>1. nodes' = nodes /\ IdOf(node) \in Ids
        BY <1>3 DEF Add, IdOf, Existing
    <2> QED
        BY <1>1, <2>1 DEF Add, NodesOK, TypeOK, Ids
<1> QED
    BY <1>2, <1>3

\* Appending an event moves the clock forward at most to its bound.
LEMMA RecordStep ==
    ASSUME TypeOK,
           NEW action \in {"publish", "commit", "revoke"}, NEW i \in NodeId,
           NEW affected \in SUBSET NodeId, Record(action, i, affected)
    PROVE  events' \in Seq(Event) /\ now' \in Time
<1> PICK t \in now..MaxTime :
        /\ events' = Append(events, [action |-> action, node |-> i,
                                     affected |-> affected, ts |-> t])
        /\ now' = t
    BY DEF Record
<1>1. t \in Time
    BY RegistryAssumption DEF TypeOK, Time
<1>2. [action |-> action, node |-> i, affected |-> affected, ts |-> t] \in Event
    BY <1>1 DEF Event
<1>3. events \in Seq(Event)
    BY DEF TypeOK
<1> QED
    BY <1>1, <1>2, <1>3

\* The header of an artifact names rows of the table.
LEMMA EvidenceIsIds ==
    ASSUME TypeOK, NEW parents \in SUBSET Ids
    PROVE  Evidence(parents) \subseteq Ids
BY WalksAreIds DEF Evidence

\* Every id is within the bound of the table.
LEMMA IdsAreNodeIds ==
    ASSUME TypeOK
    PROVE  Ids \subseteq NodeId
<1>1. Ids = 1..Len(nodes) /\ Len(nodes) \in Nat
    BY DEF TypeOK, Ids
<1> QED
    BY <1>1, RegistryAssumption DEF TypeOK, NodeId

\* An artifact built from rows of the table is a well-formed row.
LEMMA ArtifactNodeOK ==
    ASSUME TypeOK, NEW kind \in {"artifact", "answer"}, NEW content \in Content,
           NEW parents \in SUBSET Ids
    PROVE  /\ ArtifactNode(kind, content, parents) \in Node
           /\ ArtifactNode(kind, content, parents).parents = parents
<1>1. Always \in Window
    BY RegistryAssumption DEF Always, Window, Time
<1>2. Evidence(parents) \in SUBSET NodeId /\ parents \in SUBSET NodeId
    BY EvidenceIsIds, IdsAreNodeIds
<1> QED
    BY <1>1, <1>2 DEF ArtifactNode, Node, Kind, Generation

-----------------------------------------------------------------------------
(* Every operation keeps the inductive invariant. *)

\* Rows are added under live parents only, and revoked ids stay what they were.
LEMMA AddKeepsEdges ==
    ASSUME IInv, NEW node \in Node, node.parents \subseteq Ids \ revoked,
           Add(node), revoked' = revoked
    PROVE  RevokedEdges'
<1> USE DEF IInv
<1> SUFFICES ASSUME NEW c \in Ids', nodes'[c].parents \cap revoked # {}
             PROVE  c \in revoked
    BY DEF RevokedEdges
<1>1. CASE c \in Ids
    BY <1>1, AddStep DEF RevokedEdges
<1>2. CASE c \notin Ids
    BY <1>2, AddStep
<1> QED
    BY <1>1, <1>2

LEMMA InitIInv == Init => IInv
<1> SUFFICES ASSUME Init PROVE IInv
    OBVIOUS
<1> USE DEF Init
<1>1. Ids = {} /\ nodes \in Seq(Node) /\ Len(nodes) = 0
    BY DEF Ids
<1>2. heads \in [Key -> HeadRow] /\ \A k \in Key : heads[k].node = 0
    BY RegistryAssumption DEF HeadRow, NoHead, Generation
<1>3. snapshots \in [Client -> Snapshot] /\ \A c \in Client : snapshots[c].artifacts = {}
    BY RegistryAssumption DEF Snapshot
<1>4. events \in Seq(Event) /\ now \in Time
    BY RegistryAssumption DEF Time
<1> QED
    BY <1>1, <1>2, <1>3, <1>4, RegistryAssumption DEF IInv, TypeOK, RevokedEdges

LEMMA OriginStep == IInv /\ Origin => IInv'
<1> SUFFICES ASSUME IInv, Origin PROVE IInv'
    OBVIOUS
<1> PICK content \in Content, acl \in Acls :
        Add([kind |-> "origin", content |-> content, key |-> {}, generation |-> 0,
             acl |-> acl, window |-> Always, parents |-> {}, header |-> {}])
    BY DEF Origin
<1> DEFINE node == [kind |-> "origin", content |-> content, key |-> {}, generation |-> 0,
                    acl |-> acl, window |-> Always, parents |-> {}, header |-> {}]
<1>1. node \in Node /\ node.parents = {}
    BY RegistryAssumption DEF Node, Kind, Generation, Always, Window, Time
<1> HIDE DEF node
<1>2. Add(node) /\ UNCHANGED <<revoked, heads, events, now, snapshots>>
    BY DEF Origin, node
<1>3. NodesOK(nodes') /\ Ids \subseteq Ids'
    BY <1>1, <1>2, AddStep DEF IInv
<1>4. TypeOK'
    BY <1>2, <1>3 DEF IInv, TypeOK, NodesOK, Ids
<1>5. RevokedEdges'
    BY <1>1, <1>2, AddKeepsEdges
<1> QED
    BY <1>4, <1>5 DEF IInv

LEMMA PublishStep ==
    ASSUME IInv, NEW p \in Principal, NEW k \in Key, NEW content \in Content,
           NEW acl \in Acls, NEW window \in Windows,
           Publish(p, k, content, acl, window)
    PROVE  IInv'
<1> PICK parents \in SUBSET ValidIds(p) :
        LET node == KnowledgeNode(content, k, acl, window, parents) IN
        /\ Add(node)
        /\ heads' = [heads EXCEPT ![k] = [node |-> IdOf(node), generation |-> node.generation]]
        /\ Record("publish", IdOf(node), {})
        /\ UNCHANGED <<revoked, snapshots>>
    BY DEF Publish
<1> DEFINE node == KnowledgeNode(content, k, acl, window, parents)
<1>1. parents \subseteq Ids \ revoked /\ parents \in SUBSET NodeId
    BY ValidIsLive, IdsAreNodeIds DEF IInv
<1>2. node \in Node /\ node.parents = parents /\ node.generation \in Nat
    BY <1>1, RegistryAssumption DEF IInv, TypeOK, KnowledgeNode, Node, Kind, Generation, HeadRow
<1> HIDE DEF node
<1>3. /\ Add(node)
      /\ heads' = [heads EXCEPT ![k] = [node |-> IdOf(node), generation |-> node.generation]]
      /\ Record("publish", IdOf(node), {})
      /\ UNCHANGED <<revoked, snapshots>>
    BY DEF node
<1>4. /\ NodesOK(nodes') /\ Ids \subseteq Ids'
      /\ IdOf(node) \in Ids' \cap NodeId
    BY <1>1, <1>2, <1>3, AddStep DEF IInv
<1>5. events' \in Seq(Event) /\ now' \in Time
    BY <1>3, <1>4, RecordStep DEF IInv
<1>6. heads' \in [Key -> HeadRow] /\ \A q \in Key : heads'[q].node \in Ids' \cup {0}
    <2>1. heads \in [Key -> HeadRow] /\ \A q \in Key : heads[q].node \in Ids \cup {0}
        BY DEF IInv, TypeOK
    <2>2. [node |-> IdOf(node), generation |-> node.generation] \in HeadRow
        BY <1>2, <1>4, RegistryAssumption DEF HeadRow, Generation, NodeId
    <2> QED
        BY <1>3, <1>4, <2>1, <2>2
<1>7. TypeOK'
    BY <1>3, <1>4, <1>5, <1>6 DEF IInv, TypeOK, NodesOK, Ids
<1>8. RevokedEdges'
    BY <1>1, <1>2, <1>3, AddKeepsEdges
<1> QED
    BY <1>7, <1>8 DEF IInv

LEMMA ArtifactStep ==
    ASSUME IInv, NEW p \in Principal, NEW kind \in {"artifact", "answer"},
           NEW content \in Content, Artifact(p, kind, content)
    PROVE  IInv'
<1> PICK parents \in SUBSET ValidIds(p) :
        /\ Add(ArtifactNode(kind, content, parents))
        /\ UNCHANGED <<revoked, heads, events, now, snapshots>>
    BY DEF Artifact
<1> DEFINE node == ArtifactNode(kind, content, parents)
<1>1. parents \subseteq Ids \ revoked
    BY ValidIsLive DEF IInv
<1>2. node \in Node /\ node.parents = parents
    BY <1>1, ArtifactNodeOK DEF IInv
<1> HIDE DEF node
<1>3. Add(node)
    BY DEF node
<1>4. NodesOK(nodes') /\ Ids \subseteq Ids'
    BY <1>1, <1>2, <1>3, AddStep DEF IInv
<1>5. TypeOK'
    BY <1>4 DEF IInv, TypeOK, NodesOK, Ids
<1>6. RevokedEdges'
    BY <1>1, <1>2, <1>3, AddKeepsEdges
<1> QED
    BY <1>5, <1>6 DEF IInv

LEMMA SnapshotStep ==
    ASSUME IInv, NEW c \in Client, NEW p \in Principal, TakeSnapshot(c, p)
    PROVE  IInv'
<1> PICK artifacts \in SUBSET ValidIds(p) :
        /\ snapshots' = [snapshots EXCEPT ![c] = [artifacts |-> artifacts, principal |-> p]]
        /\ UNCHANGED <<nodes, revoked, heads, events, now>>
    BY DEF TakeSnapshot
<1>1. artifacts \subseteq Ids /\ artifacts \in SUBSET NodeId
    BY ValidIsLive, IdsAreNodeIds DEF IInv
<1>2. /\ snapshots' \in [Client -> Snapshot]
      /\ \A d \in Client : snapshots'[d].artifacts \subseteq Ids
    <2>1. snapshots \in [Client -> Snapshot]
          /\ \A d \in Client : snapshots[d].artifacts \subseteq Ids
        BY DEF IInv, TypeOK
    <2>2. [artifacts |-> artifacts, principal |-> p] \in Snapshot
        BY <1>1 DEF Snapshot
    <2> QED
        BY <1>1, <2>1, <2>2
<1> QED
    BY <1>2 DEF IInv, TypeOK, RevokedEdges, Ids

LEMMA CommitStep ==
    ASSUME IInv, NEW c \in Client, NEW text \in Content, Commit(c, text)
    PROVE  IInv'
<1> DEFINE parents == snapshots[c].artifacts
           node    == ArtifactNode("answer", text, parents)
<1>1. /\ parents \subseteq ValidIds(snapshots[c].principal)
      /\ Add(node)
      /\ Record("commit", IdOf(node), {})
      /\ UNCHANGED <<revoked, heads, snapshots>>
    BY DEF Commit
<1>2. parents \subseteq Ids \ revoked
    BY <1>1, ValidIsLive DEF IInv
<1>3. node \in Node /\ node.parents = parents
    BY <1>2, ArtifactNodeOK DEF IInv
<1> HIDE DEF node, parents
<1>4. /\ NodesOK(nodes') /\ Ids \subseteq Ids'
      /\ IdOf(node) \in Ids' \cap NodeId
    BY <1>1, <1>2, <1>3, AddStep DEF IInv
<1>5. events' \in Seq(Event) /\ now' \in Time
    BY <1>1, <1>4, RecordStep DEF IInv
<1>6. TypeOK'
    BY <1>1, <1>4, <1>5 DEF IInv, TypeOK, NodesOK, Ids
<1>7. RevokedEdges'
    BY <1>1, <1>2, <1>3, AddKeepsEdges
<1> QED
    BY <1>6, <1>7 DEF IInv

LEMMA RevokeStep ==
    ASSUME IInv, NEW i \in Ids, Revoke(i)
    PROVE  IInv'
<1>1. /\ revoked' = revoked \cup Descendants(i)
      /\ Record("revoke", i, Descendants(i))
      /\ UNCHANGED <<nodes, heads, snapshots>>
    BY DEF Revoke
<1>2. Descendants(i) \subseteq Ids /\ Ids \subseteq NodeId
    BY WalksAreIds, IdsAreNodeIds DEF IInv
<1>3. events' \in Seq(Event) /\ now' \in Time
    BY <1>1, <1>2, RecordStep DEF IInv
<1>4. TypeOK'
    BY <1>1, <1>2, <1>3 DEF IInv, TypeOK, Ids
<1>5. RevokedEdges'
    <2> SUFFICES ASSUME NEW c \in Ids,
                        nodes[c].parents \cap (revoked \cup Descendants(i)) # {}
                 PROVE  c \in revoked \cup Descendants(i)
        BY <1>1 DEF RevokedEdges, Ids
    <2>1. CASE nodes[c].parents \cap revoked # {}
        BY <2>1 DEF IInv, RevokedEdges
    <2>2. CASE nodes[c].parents \cap Descendants(i) # {}
        BY <2>2, DescendantsTakeChildren DEF IInv
    <2> QED
        BY <2>1, <2>2
<1> QED
    BY <1>4, <1>5 DEF IInv

LEMMA TickStep == IInv /\ Tick => IInv'
BY RegistryAssumption DEF IInv, TypeOK, RevokedEdges, Tick, Time, Ids

LEMMA NextIInv == IInv /\ [Next]_vars => IInv'
<1> SUFFICES ASSUME IInv, [Next]_vars PROVE IInv'
    OBVIOUS
<1>1. CASE UNCHANGED vars
    BY <1>1 DEF IInv, TypeOK, RevokedEdges, Ids, vars
<1>2. CASE Next
    BY <1>2, OriginStep, PublishStep, ArtifactStep, SnapshotStep, CommitStep,
       RevokeStep, TickStep DEF Next
<1> QED
    BY <1>1, <1>2

-----------------------------------------------------------------------------
(* The theorems. *)

\* The tables keep their shape, edges lead to older rows, heads, events and
\* snapshots name rows that exist: every reachable state of the registry.
THEOREM RegistryTypeOK == Spec => []TypeOK
<1>1. IInv => TypeOK
    BY DEF IInv
<1> QED
    BY InitIInv, NextIInv, <1>1, PTL DEF Spec

\* Single edges suffice: the unrevoked rows are closed under parents, so the walk
\* from an unrevoked row meets no revoked one.
LEMMA EdgesGiveAncestry == IInv => RevocationReachesDescendants
<1> SUFFICES ASSUME IInv, NEW i \in Ids, i \notin revoked
             PROVE  Ancestors(i) \cap revoked = {}
    BY DEF RevocationReachesDescendants
<1> DEFINE live == Ids \ revoked
<1>1. Closed(live, Parents)
    <2> SUFFICES ASSUME NEW c \in live, NEW q \in nodes[c].parents
                 PROVE  q \in live
        BY DEF Closed, Parents
    <2>1. q \in Ids
        BY DEF IInv, TypeOK, Ids
    <2>2. q \notin revoked
        BY DEF IInv, RevokedEdges
    <2> QED
        BY <2>1, <2>2
<1>2. Ancestors(i) \subseteq live
    BY <1>1, ReachIsLeast DEF Ancestors
<1> QED
    BY <1>2

\* Whatever is derived, published or committed after a revocation, nothing below
\* a revoked node is ever usable.
THEOREM RevocationIsTransitive == Spec => []RevocationReachesDescendants
BY InitIInv, NextIInv, EdgesGiveAncestry, PTL DEF Spec

-----------------------------------------------------------------------------
(* The commit barrier and the coherence of evidence.  Both are about the      *)
(* ancestry of rows, which never changes once a row exists (Growth), and      *)
(* follow from what is true of the heads and of the log when a row or an      *)
(* event is added.                                                            *)

\* Every knowledge has one key, and its generation is its head's when it is the head.
KeysOK ==
    /\ \A i \in Ids : nodes[i].kind = "knowledge" => \E k \in Key : nodes[i].key = {k}
    /\ \A k \in Key : heads[k].node \in Ids => nodes[heads[k].node].generation = heads[k].generation

\* What the log says is in the past: no time stamp lies ahead, what was revoked still
\* is, and no publication is newer than the head of its key.
EventOK(ev) ==
    /\ ev.ts <= now
    /\ ev.affected \subseteq revoked
    /\ ev.node \in Ids
    /\ ev.action = "publish" =>
         \A k \in Key : nodes[ev.node].key = {k} => nodes[ev.node].generation <= heads[k].generation

LogOK == \A e \in DOMAIN events : EventOK(events[e])

BInv == IInv /\ KeysOK /\ LogOK /\ CommitBarrier /\ EvidenceIsCoherent

\* The old rows stay, with their ancestries.
Growth ==
    /\ Ids \subseteq Ids'
    /\ \A i \in Ids : nodes'[i] = nodes[i] /\ Ancestors(i)' = Ancestors(i)

\* The row that was inserted, or found, is the node, and no other row is new.
LEMMA AddGivesNode ==
    ASSUME TypeOK, NEW node \in Node, node.parents \subseteq Ids, Add(node)
    PROVE  /\ Ids' = Ids \cup {IdOf(node)}
           /\ nodes'[IdOf(node)] = node
           /\ IdOf(node) \notin revoked
           /\ \A i \in Ids : nodes'[i] = nodes[i]
<1>1. nodes \in Seq(Node) /\ Len(nodes) \in Nat /\ Ids = 1..Len(nodes) /\ revoked \subseteq Ids
    BY DEF TypeOK, Ids
<1>2. CASE Existing(node) = {}
    <2>1. nodes' = Append(nodes, node) /\ IdOf(node) = Len(nodes) + 1
        BY <1>2 DEF Add, IdOf
    <2>2. /\ Ids' = 1..(Len(nodes) + 1) /\ nodes'[Len(nodes) + 1] = node
          /\ \A i \in Ids : nodes'[i] = nodes[i]
        BY <1>1, <2>1 DEF Ids
    <2> QED
        BY <1>1, <2>1, <2>2
<1>3. CASE Existing(node) # {}
    <2>1. nodes' = nodes /\ IdOf(node) \in Existing(node) /\ Existing(node) \cap revoked = {}
        BY <1>3 DEF Add, IdOf
    <2>2. IdOf(node) \in Ids /\ nodes[IdOf(node)] = node
        BY <2>1 DEF Existing
    <2> QED
        BY <2>1, <2>2 DEF Ids
<1> QED
    BY <1>2, <1>3

\* The ancestry of a row is closed under its edges.
LEMMA AncestryIsClosed ==
    ASSUME TypeOK, NEW i \in Ids, NEW x \in Ancestors(i)
    PROVE  nodes[x].parents \subseteq Ancestors(i) /\ x \in Ids
<1>1. \A y \in Ids : Parents[y] \subseteq Ids
    BY DEF Parents, TypeOK, Ids
<1>2. Closed(Ancestors(i), Parents)
    BY <1>1, ReachIsClosed DEF Ancestors
<1>3. x \in Ids /\ Parents[x] = nodes[x].parents
    BY WalksAreIds DEF Parents
<1> QED
    BY <1>2, <1>3 DEF Closed

\* Adding a row leaves the ancestries of the others alone.
LEMMA AddGrows ==
    ASSUME TypeOK, TypeOK', Ids \subseteq Ids', \A i \in Ids : nodes'[i] = nodes[i]
    PROVE  Growth
<1> SUFFICES ASSUME NEW i \in Ids PROVE Ancestors(i)' = Ancestors(i)
    BY DEF Growth
<1>1. Ancestors(i)' \subseteq Ancestors(i)
    <2>1. i \in Ancestors(i) /\ Ancestors(i) \subseteq Ids'
        BY WalksAreIds
    <2>2. Closed(Ancestors(i), Parents')
        BY AncestryIsClosed DEF Closed, Parents
    <2> QED
        BY <2>1, <2>2, ReachIsLeast DEF Ancestors
<1>2. Ancestors(i) \subseteq Ancestors(i)'
    <2> DEFINE S == Ancestors(i)' \cap Ids
    <2>1. /\ i \in Ancestors(i)'
          /\ \A x \in Ancestors(i)' : nodes'[x].parents \subseteq Ancestors(i)'
        <3>1. i \in Ids'
            OBVIOUS
        <3>2. \A y \in Ids' : Parents'[y] \subseteq Ids'
            BY DEF Parents, TypeOK, Ids
        <3>3. Closed(Ancestors(i)', Parents') /\ i \in Ancestors(i)' /\ Ancestors(i)' \subseteq Ids'
            BY <3>1, <3>2, ReachIsClosed, ReachContainsStart DEF Ancestors
        <3> QED
            BY <3>3 DEF Closed, Parents
    <2>2. i \in S /\ S \in SUBSET Ids
        BY <2>1
    <2>3. Closed(S, Parents)
        <3> SUFFICES ASSUME NEW x \in S, NEW q \in Parents[x] PROVE q \in S
            BY DEF Closed
        <3>1. q \in nodes[x].parents /\ nodes[x] = nodes'[x]
            BY DEF Parents
        <3> QED
            BY <3>1, <2>1 DEF TypeOK, Ids
    <2> HIDE DEF S
    <2>4. Ancestors(i) \subseteq S
        BY <2>2, <2>3, ReachIsLeast DEF Ancestors
    <2> QED
        BY <2>4 DEF S
<1> QED
    BY <1>1, <1>2

\* The ancestry of the inserted row: the row, and the ancestries of its parents.
LEMMA AncestryOfRow ==
    ASSUME TypeOK, TypeOK', NEW node \in Node, node.parents \subseteq Ids, Add(node),
           NEW n, n = IdOf(node)
    PROVE  Ancestors(n)' = {n} \cup UNION {Ancestors(q) : q \in node.parents}
<1> DEFINE above == UNION {Ancestors(q) : q \in node.parents}
<1>1. /\ n \in Ids' /\ Ids \subseteq Ids' /\ nodes'[n] = node
      /\ \A i \in Ids : nodes'[i] = nodes[i]
    BY AddGivesNode
<1>2. Growth
    BY <1>1, AddGrows
<1>3. Ancestors(n)' \subseteq {n} \cup above
    <2>1. {n} \cup above \in SUBSET Ids'
        BY <1>1, WalksAreIds
    <2>2. Closed({n} \cup above, Parents')
        <3> SUFFICES ASSUME NEW x \in {n} \cup above PROVE nodes'[x].parents \subseteq above
            BY <2>1 DEF Closed, Parents
        <3>1. CASE x = n
            BY <3>1, <1>1, WalksAreIds
        <3>2. CASE x \in above
            BY <3>2, <1>1, AncestryIsClosed
        <3> QED
            BY <3>1, <3>2
    <2> HIDE DEF above
    <2> QED
        BY <1>1, <2>1, <2>2, ReachIsLeast DEF Ancestors
<1>4. above \subseteq Ancestors(n)'
    <2> SUFFICES ASSUME NEW q \in node.parents PROVE Ancestors(q) \subseteq Ancestors(n)'
        OBVIOUS
    <2>1. \A y \in Ids' : Parents'[y] \subseteq Ids'
        BY DEF Parents, TypeOK, Ids
    <2>2. /\ n \in Ancestors(n)' /\ Ancestors(n)' \subseteq Ids'
          /\ Closed(Ancestors(n)', Parents')
        BY <1>1, <2>1, ReachContainsStart, ReachIsClosed DEF Ancestors
    <2>3. \A x \in Ancestors(n)' : nodes'[x].parents \subseteq Ancestors(n)'
        BY <2>2 DEF Closed, Parents
    <2>4. q \in Ancestors(n)' /\ q \in Ids
        BY <2>2, <2>3, <1>1
    <2>5. Ancestors(q)' \subseteq Ancestors(n)'
        BY <2>2, <2>4, ReachIsLeast DEF Ancestors
    <2> QED
        BY <2>4, <2>5, <1>2 DEF Growth
<1>5. n \in Ancestors(n)'
    BY <1>1, ReachContainsStart DEF Ancestors
<1> QED
    BY <1>3, <1>4, <1>5

\* Whatever _valid accepted, every row above it was usable.
LEMMA ValidAncestry ==
    ASSUME TypeOK, NEW p, NEW q \in ValidIds(p), NEW a \in Ancestors(q)
    PROVE  a \in Ids /\ Usable(a, p)
BY WalksAreIds DEF ValidIds

\* Two usable knowledge of one key are the same: both are its head.
LEMMA HeadsAreUnique ==
    ASSUME TypeOK, KeysOK, NEW p, NEW a \in Ids, NEW b \in Ids, Usable(a, p), Usable(b, p),
           nodes[a].kind = "knowledge", nodes[b].kind = "knowledge", nodes[a].key = nodes[b].key
    PROVE  a = b
BY DEF KeysOK, Usable, IsHead

\* A row of valid parents, whose header is their evidence, keeps the evidence coherent.
LEMMA CoherentStep ==
    ASSUME TypeOK, TypeOK', KeysOK, EvidenceIsCoherent,
           NEW p, NEW node \in Node, node.parents \subseteq ValidIds(p), Add(node),
           node.kind \in {"artifact", "answer"} => node.header = Evidence(node.parents)
    PROVE  EvidenceIsCoherent'
<1> PICK n : n = IdOf(node)
    OBVIOUS
<1>1. node.parents \subseteq Ids
    BY DEF ValidIds
<1>2. /\ Ids' = Ids \cup {n} /\ nodes'[n] = node
      /\ \A i \in Ids : nodes'[i] = nodes[i]
    BY <1>1, AddGivesNode
<1>3. Growth
    BY <1>2, AddGrows
<1>4. Ancestors(n)' = {n} \cup UNION {Ancestors(q) : q \in node.parents}
    BY <1>1, AncestryOfRow
<1>5. \A i \in Ids : Ancestors(i)' \subseteq Ids
    BY <1>3, WalksAreIds DEF Growth
<1>6. NoMixedGenerations'
    <2> SUFFICES ASSUME NEW i \in Ids', nodes'[i].kind \in {"artifact", "answer"},
                        NEW a \in Ancestors(i)', NEW b \in Ancestors(i)',
                        nodes'[a].kind = "knowledge", nodes'[b].kind = "knowledge",
                        nodes'[a].key = nodes'[b].key
                 PROVE  a = b
        BY DEF NoMixedGenerations
    <2>1. CASE i \in Ids
        BY <2>1, <1>2, <1>3, <1>5 DEF EvidenceIsCoherent, NoMixedGenerations, Growth
    <2>2. CASE i = n
        <3>1. a # n /\ b # n
            BY <2>2, <1>2
        <3>2. PICK q \in node.parents : a \in Ancestors(q)
            BY <2>2, <3>1, <1>4
        <3>3. PICK r \in node.parents : b \in Ancestors(r)
            BY <2>2, <3>1, <1>4
        <3>4. a \in Ids /\ Usable(a, p) /\ b \in Ids /\ Usable(b, p)
            BY <3>2, <3>3, ValidAncestry
        <3> QED
            BY <3>4, <1>2, HeadsAreUnique
    <2> QED
        BY <2>1, <2>2, <1>2
<1>7. HeaderIsLineage'
    <2> SUFFICES ASSUME NEW i \in Ids', nodes'[i].kind \in {"artifact", "answer"}
                 PROVE  nodes'[i].header = {a \in Ancestors(i)' : nodes'[a].kind \in {"origin", "knowledge"}}
        BY DEF HeaderIsLineage
    <2>1. CASE i \in Ids
        BY <2>1, <1>2, <1>3, <1>5 DEF EvidenceIsCoherent, HeaderIsLineage, Growth
    <2>2. CASE i = n
        <3>1. node.header = {a \in UNION {Ancestors(q) : q \in node.parents} :
                               nodes[a].kind \in {"origin", "knowledge"}}
            BY <2>2, <1>2 DEF Evidence
        <3>2. \A a \in UNION {Ancestors(q) : q \in node.parents} : nodes'[a] = nodes[a]
            BY <1>1, <1>2, WalksAreIds
        <3> QED
            BY <2>2, <3>1, <3>2, <1>2, <1>4
    <2> QED
        BY <2>1, <2>2, <1>2
<1> QED
    BY <1>6, <1>7 DEF EvidenceIsCoherent

\* What an event says stays true while rows stay and revocations, generations and the
\* clock go up.
LEMMA EventStays ==
    ASSUME TypeOK, TypeOK', NEW ev \in Event, EventOK(ev),
           Ids \subseteq Ids', \A i \in Ids : nodes'[i] = nodes[i],
           revoked \subseteq revoked', now <= now',
           \A k \in Key : heads[k].generation <= heads'[k].generation
    PROVE  EventOK(ev)'
<1>1. ev.ts <= now'
    <2>1. ev.ts \in Nat /\ now \in Nat /\ now' \in Nat
        BY RegistryAssumption DEF TypeOK, Event, Time
    <2> QED
        BY <2>1 DEF EventOK
<1>2. ASSUME ev.action = "publish", NEW k \in Key, nodes'[ev.node].key = {k}
      PROVE  nodes'[ev.node].generation <= heads'[k].generation
    <2>1. nodes'[ev.node] = nodes[ev.node] /\ nodes[ev.node].generation <= heads[k].generation
        BY <1>2 DEF EventOK
    <2>2. nodes[ev.node] \in Node /\ heads[k] \in HeadRow /\ heads'[k] \in HeadRow
        BY DEF EventOK, TypeOK, Ids
    <2>3. /\ nodes[ev.node].generation \in Nat
          /\ heads[k].generation \in Nat /\ heads'[k].generation \in Nat
        BY <2>2 DEF Node, HeadRow, Generation
    <2> QED
        BY <2>1, <2>3
<1> QED
    BY <1>1, <1>2 DEF EventOK

\* The clock does not go back.
LEMMA RecordAppends ==
    ASSUME TypeOK, NEW action, NEW i, NEW affected, Record(action, i, affected)
    PROVE  \E t \in Time :
             /\ now <= t /\ now' = t
             /\ events' = Append(events, [action |-> action, node |-> i, affected |-> affected, ts |-> t])
BY RegistryAssumption DEF Record, TypeOK, Time

\* What CommitBarrier asks of row i when event j is a commit that rests on it.
EvidenceHeld(j, i) ==
    /\ nodes[i].kind = "knowledge" => nodes[i].window.from <= events[j].ts
    /\ \A e \in 1..(j - 1) :
        /\ i \notin events[e].affected
        /\ nodes[i].kind = "knowledge" => events[e].ts < nodes[i].window.until
        /\ (events[e].action = "publish" /\ nodes[i].kind = "knowledge"
             /\ nodes[i].key = nodes[events[e].node].key)
           => nodes[events[e].node].generation <= nodes[i].generation

\* An old commit still rests on the same rows, in front of the same events.
LEMMA OldCommits ==
    ASSUME TypeOK, TypeOK', LogOK, CommitBarrier, Growth, NEW j \in DOMAIN events,
           \A e \in DOMAIN events : events'[e] = events[e],
           NEW i \in Ids', Committed(j, i)'
    PROVE  EvidenceHeld(j, i)'
<1>1. /\ DOMAIN events = 1..Len(events) /\ Len(events) \in Nat
      /\ \A e \in 1..(j - 1) : e \in DOMAIN events
    BY DEF TypeOK
<1>2. PICK n : n = events[j].node
    OBVIOUS
<1>3. n \in Ids /\ Ancestors(n)' = Ancestors(n) /\ Ancestors(n) \subseteq Ids
    BY <1>2, WalksAreIds DEF LogOK, EventOK, Growth
<1>4. events'[j].action = "commit" /\ i \in Ancestors(n)'
    BY <1>2 DEF Committed
<1>5. i \in Ids /\ Committed(j, i) /\ nodes'[i] = nodes[i]
    BY <1>2, <1>3, <1>4 DEF Committed, Growth
<1>6. EvidenceHeld(j, i)
    BY <1>5 DEF CommitBarrier, EvidenceHeld
<1>7. \A e \in 1..(j - 1) : events'[e] = events[e] /\ nodes'[events[e].node] = nodes[events[e].node]
    BY <1>1 DEF LogOK, EventOK, Growth
<1> QED
    BY <1>5, <1>6, <1>7 DEF EvidenceHeld

\* A new commit of valid parents rests on rows that no event has withdrawn.
LEMMA NewCommit ==
    ASSUME TypeOK, TypeOK', KeysOK, LogOK,
           NEW p, NEW node \in Node, node.parents \subseteq ValidIds(p), Add(node),
           node.kind = "answer", NEW n, n = IdOf(node),
           NEW t \in Time, now <= t,
           events' = Append(events, [action |-> "commit", node |-> n, affected |-> {}, ts |-> t]),
           NEW j, j = Len(events) + 1, NEW i \in Ancestors(n)'
    PROVE  EvidenceHeld(j, i)'
<1>1. node.parents \subseteq Ids
    BY DEF ValidIds
<1>2. /\ nodes'[n] = node /\ n \notin revoked
      /\ \A x \in Ids : nodes'[x] = nodes[x]
    BY <1>1, AddGivesNode
<1>3. Ancestors(n)' = {n} \cup UNION {Ancestors(q) : q \in node.parents}
    BY <1>1, AncestryOfRow
<1>4. /\ events'[j].ts = t
      /\ \A e \in 1..Len(events) : events'[e] = events[e] /\ EventOK(events[e]) /\ events[e] \in Event
    BY DEF TypeOK, LogOK
<1>5. j - 1 = Len(events)
    BY DEF TypeOK
<1>6. CASE i = n
    <2>1. nodes'[i].kind # "knowledge"
        BY <1>2, <1>6
    <2>2. \A e \in 1..Len(events) : i \notin events'[e].affected
        BY <1>2, <1>4, <1>6 DEF EventOK
    <2> QED
        BY <2>1, <2>2, <1>5 DEF EvidenceHeld
<1>7. CASE i # n
    <2>1. i \in Ids /\ Usable(i, p) /\ nodes'[i] = nodes[i]
        BY <1>7, <1>2, <1>3, ValidAncestry
    <2>2. /\ nodes[i].window.from \in Nat /\ nodes[i].window.until \in Nat
          /\ nodes[i].generation \in Nat /\ now \in Nat /\ t \in Nat
        <3>1. nodes[i] \in Node
            BY <2>1 DEF TypeOK, Ids
        <3>2. nodes[i].window \in Window /\ nodes[i].generation \in Nat
            BY <3>1 DEF Node, Generation
        <3>3. nodes[i].window.from \in Nat /\ nodes[i].window.until \in Nat
            BY <3>2 DEF Window, Time
        <3> QED
            BY <3>2, <3>3 DEF TypeOK, Time
    <2>3. nodes[i].kind = "knowledge" => nodes[i].window.from <= t
        BY <2>1, <2>2 DEF Usable
    <2>4. ASSUME NEW e \in 1..Len(events)
          PROVE  /\ i \notin events[e].affected
                 /\ nodes[i].kind = "knowledge" => events[e].ts < nodes[i].window.until
                 /\ (events[e].action = "publish" /\ nodes[i].kind = "knowledge"
                      /\ nodes[i].key = nodes[events[e].node].key)
                    => nodes[events[e].node].generation <= nodes[i].generation
        <3>1. i \notin events[e].affected
            BY <1>4, <2>1 DEF EventOK, Usable
        <3>2. nodes[i].kind = "knowledge" => events[e].ts < nodes[i].window.until
            <4>1. events[e].ts \in Nat /\ events[e].ts <= now
                BY <1>4 DEF EventOK, Event, Time
            <4> QED
                BY <4>1, <2>1, <2>2 DEF Usable
        <3>3. ASSUME events[e].action = "publish", nodes[i].kind = "knowledge",
                     nodes[i].key = nodes[events[e].node].key
              PROVE  nodes[events[e].node].generation <= nodes[i].generation
            <4>1. PICK k \in Key : nodes[i].key = {k}
                BY <2>1, <3>3 DEF KeysOK
            <4>2. heads[k].node = i
                BY <2>1, <3>3, <4>1 DEF Usable, IsHead
            <4>3. nodes[i].generation = heads[k].generation
                BY <2>1, <4>2 DEF KeysOK
            <4>4. nodes[events[e].node].generation <= heads[k].generation
                BY <1>4, <3>3, <4>1 DEF EventOK
            <4> QED
                BY <4>3, <4>4
        <3> QED
            BY <3>1, <3>2, <3>3
    <2>5. \A e \in 1..Len(events) : nodes'[events[e].node] = nodes[events[e].node]
        BY <1>2, <1>4 DEF EventOK
    <2> QED
        BY <2>1, <2>3, <2>4, <2>5, <1>4, <1>5 DEF EvidenceHeld
<1> QED
    BY <1>6, <1>7

\* Nothing new is asked while no commit is logged.
LEMMA BarrierStays ==
    ASSUME TypeOK, TypeOK', LogOK, CommitBarrier, Growth,
           \A e \in DOMAIN events : events'[e] = events[e],
           \A e \in DOMAIN events' : e \in DOMAIN events \/ events'[e].action # "commit"
    PROVE  CommitBarrier'
<1> SUFFICES ASSUME NEW j \in DOMAIN events', NEW i \in Ids', Committed(j, i)'
             PROVE  EvidenceHeld(j, i)'
    BY DEF CommitBarrier, EvidenceHeld
<1>1. j \in DOMAIN events
    BY DEF Committed
<1> QED
    BY <1>1, OldCommits

\* The log stays in the past: its old events by EventStays, the new one by assumption.
LEMMA LogStays ==
    ASSUME TypeOK, TypeOK', LogOK,
           Ids \subseteq Ids', \A i \in Ids : nodes'[i] = nodes[i],
           revoked \subseteq revoked', now <= now',
           \A k \in Key : heads[k].generation <= heads'[k].generation,
           \A e \in DOMAIN events' :
              (e \in DOMAIN events /\ events'[e] = events[e])
              \/ \E ev : ev = events'[e] /\ EventOK(ev)'
    PROVE  LogOK'
<1> SUFFICES ASSUME NEW e \in DOMAIN events' PROVE EventOK(events[e])'
    BY DEF LogOK
<1>1. CASE e \in DOMAIN events /\ events'[e] = events[e]
    <2> PICK ev : ev = events[e]
        OBVIOUS
    <2>1. ev \in Event /\ EventOK(ev)
        BY <1>1 DEF TypeOK, LogOK
    <2>2. EventOK(ev)'
        BY <2>1, EventStays
    <2> QED
        BY <2>2, <1>1 DEF EventOK
<1>2. CASE \E ev : ev = events'[e] /\ EventOK(ev)'
    BY <1>2 DEF EventOK
<1> QED
    BY <1>1, <1>2

\* A row under the same heads keeps the keys, when it is no knowledge.
LEMMA KeysStay ==
    ASSUME TypeOK, TypeOK', KeysOK, NEW node \in Node, node.parents \subseteq Ids, Add(node),
           node.kind # "knowledge", heads' = heads
    PROVE  KeysOK'
<1>1. /\ Ids' = Ids \cup {IdOf(node)} /\ nodes'[IdOf(node)] = node
      /\ \A i \in Ids : nodes'[i] = nodes[i]
    BY AddGivesNode
<1>2. \A k \in Key : heads[k].node \in Ids \cup {0} /\ 0 \notin Ids'
    BY DEF TypeOK, Ids
<1>3. ASSUME NEW i \in Ids', nodes'[i].kind = "knowledge"
      PROVE  \E k \in Key : nodes'[i].key = {k}
    BY <1>1, <1>3 DEF KeysOK
<1>4. ASSUME NEW k \in Key, heads'[k].node \in Ids'
      PROVE  nodes'[heads'[k].node].generation = heads'[k].generation
    BY <1>1, <1>2, <1>4 DEF KeysOK
<1> QED
    BY <1>3, <1>4 DEF KeysOK

-----------------------------------------------------------------------------
(* One step per action. *)

LEMMA InitBInv == Init => BInv
<1> SUFFICES ASSUME Init PROVE BInv
    OBVIOUS
<1>1. IInv
    BY InitIInv
<1>2. Ids = {} /\ DOMAIN events = {}
    BY DEF Init, Ids
<1> QED
    BY <1>1, <1>2 DEF BInv, KeysOK, LogOK, CommitBarrier, EvidenceIsCoherent,
       NoMixedGenerations, HeaderIsLineage

\* origin() and artifact() insert a row and touch nothing else.
LEMMA RowStep ==
    ASSUME BInv, IInv', NEW p, NEW node \in Node, node.parents \subseteq ValidIds(p), Add(node),
           node.kind # "knowledge",
           node.kind \in {"artifact", "answer"} => node.header = Evidence(node.parents),
           UNCHANGED <<revoked, heads, events, now>>
    PROVE  BInv'
<1>1. TypeOK /\ TypeOK' /\ node.parents \subseteq Ids
    BY DEF BInv, IInv, ValidIds
<1>2. Ids \subseteq Ids' /\ \A i \in Ids : nodes'[i] = nodes[i]
    BY <1>1, AddGivesNode
<1>3. Growth
    BY <1>1, <1>2, AddGrows
<1>4. KeysOK'
    BY <1>1, KeysStay DEF BInv
<1>5. LogOK'
    <2>1. now <= now' /\ \A k \in Key : heads[k].generation <= heads'[k].generation
        BY <1>1 DEF TypeOK, Time, HeadRow, Generation
    <2> QED
        BY <2>1, <1>1, <1>2, LogStays DEF BInv
<1>6. CommitBarrier'
    BY <1>1, <1>3, BarrierStays DEF BInv
<1>7. EvidenceIsCoherent'
    BY <1>1, CoherentStep DEF BInv
<1> QED
    BY <1>4, <1>5, <1>6, <1>7 DEF BInv

LEMMA PublishBarrier ==
    ASSUME BInv, IInv', NEW p \in Principal, NEW k \in Key, NEW content \in Content,
           NEW acl \in Acls, NEW window \in Windows,
           Publish(p, k, content, acl, window)
    PROVE  BInv'
<1> PICK parents \in SUBSET ValidIds(p) :
        LET node == KnowledgeNode(content, k, acl, window, parents) IN
        /\ Add(node)
        /\ heads' = [heads EXCEPT ![k] = [node |-> IdOf(node), generation |-> node.generation]]
        /\ Record("publish", IdOf(node), {})
        /\ UNCHANGED <<revoked, snapshots>>
    BY DEF Publish
<1> PICK node : node = KnowledgeNode(content, k, acl, window, parents)
    OBVIOUS
<1> PICK n : n = IdOf(node)
    OBVIOUS
<1>1. /\ TypeOK /\ TypeOK' /\ KeysOK /\ LogOK /\ CommitBarrier /\ EvidenceIsCoherent
      /\ parents \subseteq Ids
    BY DEF BInv, IInv, ValidIds
<1>2. /\ heads \in [Key -> HeadRow] /\ heads[k].generation \in Nat /\ heads[k] \in HeadRow
      /\ \A q \in Key : heads[q].node \in Ids \cup {0} /\ heads[q].generation \in Nat
    BY <1>1 DEF TypeOK, HeadRow, Generation
<1>3. /\ node \in Node /\ node.parents = parents /\ node.kind = "knowledge" /\ node.key = {k}
      /\ node.generation = heads[k].generation + 1
    <2>1. parents \in SUBSET NodeId
        BY <1>1, IdsAreNodeIds
    <2> QED
        BY <1>2, <2>1, RegistryAssumption DEF KnowledgeNode, Node, Kind, Generation
<1>4. /\ Add(node)
      /\ heads' = [heads EXCEPT ![k] = [node |-> n, generation |-> node.generation]]
      /\ revoked' = revoked
    OBVIOUS
<1>5. PICK t \in Time :
        /\ now <= t /\ now' = t
        /\ events' = Append(events, [action |-> "publish", node |-> n, affected |-> {}, ts |-> t])
    BY <1>1, RecordAppends
<1>6. /\ Ids' = Ids \cup {n} /\ nodes'[n] = node
      /\ \A i \in Ids : nodes'[i] = nodes[i]
    BY <1>1, <1>3, <1>4, AddGivesNode
<1>7. Growth
    BY <1>1, <1>6, AddGrows
<1>8. /\ heads'[k] = [node |-> n, generation |-> node.generation]
      /\ \A q \in Key : q # k => heads'[q] = heads[q]
    BY <1>2, <1>4
<1>9. KeysOK'
    <2>1. 0 \notin Ids'
        BY <1>1 DEF TypeOK, Ids
    <2>2. ASSUME NEW i \in Ids', nodes'[i].kind = "knowledge"
          PROVE  \E q \in Key : nodes'[i].key = {q}
        BY <2>2, <1>1, <1>3, <1>6 DEF KeysOK
    <2>3. ASSUME NEW q \in Key, heads'[q].node \in Ids'
          PROVE  nodes'[heads'[q].node].generation = heads'[q].generation
        <3>1. CASE q = k
            BY <3>1, <1>6, <1>8
        <3>2. CASE q # k
            BY <3>2, <2>1, <2>3, <1>1, <1>2, <1>6, <1>8 DEF KeysOK
        <3> QED
            BY <3>1, <3>2
    <2> QED
        BY <2>2, <2>3 DEF KeysOK
<1>10. /\ \A e \in DOMAIN events : events'[e] = events[e]
       /\ \A e \in DOMAIN events' : e \in DOMAIN events \/
            events'[e] = [action |-> "publish", node |-> n, affected |-> {}, ts |-> t]
    BY <1>1, <1>5 DEF TypeOK
<1>11. LogOK'
    <2>1. \A q \in Key : heads[q].generation <= heads'[q].generation
        BY <1>2, <1>3, <1>8
    <2> PICK ev : ev = [action |-> "publish", node |-> n, affected |-> {}, ts |-> t]
        OBVIOUS
    <2>2. EventOK(ev)'
        <3>1. ev.ts <= now'
            BY <1>5 DEF Time
        <3>2. \A q \in Key : nodes'[ev.node].key = {q} =>
                 nodes'[ev.node].generation <= heads'[q].generation
            BY <1>2, <1>3, <1>6, <1>8
        <3> QED
            BY <3>1, <3>2, <1>6 DEF EventOK
    <2>3. Ids \subseteq Ids' /\ revoked \subseteq revoked' /\ now <= now'
        BY <1>4, <1>5, <1>6
    <2> QED
        BY <2>1, <2>2, <2>3, <1>1, <1>6, <1>10, LogStays
<1>12. CommitBarrier'
    BY <1>1, <1>7, <1>10, BarrierStays
<1>13. EvidenceIsCoherent'
    BY <1>1, <1>3, <1>4, CoherentStep
<1> QED
    BY <1>9, <1>11, <1>12, <1>13 DEF BInv

LEMMA CommitKeeps ==
    ASSUME BInv, IInv', NEW c \in Client, NEW text \in Content, Commit(c, text)
    PROVE  BInv'
<1> PICK parents : parents = snapshots[c].artifacts
    OBVIOUS
<1> PICK p : p = snapshots[c].principal
    OBVIOUS
<1> PICK node : node = ArtifactNode("answer", text, parents)
    OBVIOUS
<1> PICK n : n = IdOf(node)
    OBVIOUS
<1>1. /\ TypeOK /\ TypeOK' /\ KeysOK /\ LogOK /\ CommitBarrier /\ EvidenceIsCoherent
    BY DEF BInv, IInv
<1>2. /\ parents \subseteq ValidIds(p) /\ Add(node)
      /\ Record("commit", n, {})
      /\ UNCHANGED <<revoked, heads, snapshots>>
    BY DEF Commit
<1>3. parents \subseteq Ids
    BY <1>2 DEF ValidIds
<1>4. /\ node \in Node /\ node.parents = parents /\ node.kind = "answer"
      /\ node.header = Evidence(parents)
    BY <1>1, <1>3, ArtifactNodeOK DEF ArtifactNode
<1>5. PICK t \in Time :
        /\ now <= t /\ now' = t
        /\ events' = Append(events, [action |-> "commit", node |-> n, affected |-> {}, ts |-> t])
    BY <1>1, <1>2, RecordAppends
<1>6. /\ Ids' = Ids \cup {n} /\ nodes'[n] = node
      /\ \A i \in Ids : nodes'[i] = nodes[i]
    BY <1>2, <1>3, <1>4, <1>1, AddGivesNode
<1>7. Growth
    BY <1>1, <1>6, AddGrows
<1>8. KeysOK'
    BY <1>1, <1>2, <1>3, <1>4, KeysStay
<1>9. PICK last : last = Len(events) + 1
    OBVIOUS
<1>10. /\ \A e \in DOMAIN events : events'[e] = events[e]
       /\ \A e \in DOMAIN events' : e \in DOMAIN events \/ e = last
       /\ events'[last] = [action |-> "commit", node |-> n, affected |-> {}, ts |-> t]
    BY <1>1, <1>5, <1>9 DEF TypeOK
<1>11. LogOK'
    <2>1. \A q \in Key : heads[q].generation <= heads'[q].generation
        BY <1>1, <1>2 DEF TypeOK, HeadRow, Generation
    <2> PICK ev : ev = [action |-> "commit", node |-> n, affected |-> {}, ts |-> t]
        OBVIOUS
    <2>2. EventOK(ev)'
        BY <1>5, <1>6 DEF EventOK, Time
    <2>3. Ids \subseteq Ids' /\ revoked \subseteq revoked' /\ now <= now'
        BY <1>2, <1>5, <1>6
    <2> QED
        BY <2>1, <2>2, <2>3, <1>1, <1>6, <1>10, LogStays
<1>12. CommitBarrier'
    <2> SUFFICES ASSUME NEW j \in DOMAIN events', NEW i \in Ids', Committed(j, i)'
                 PROVE  EvidenceHeld(j, i)'
        BY DEF CommitBarrier, EvidenceHeld
    <2>1. CASE j \in DOMAIN events
        BY <2>1, <1>1, <1>7, <1>10, OldCommits
    <2>2. CASE j = last
        <3>1. i \in Ancestors(n)'
            BY <2>2, <1>10 DEF Committed
        <3> QED
            BY <3>1, <2>2, <1>1, <1>2, <1>4, <1>5, <1>9, NewCommit
    <2> QED
        BY <2>1, <2>2, <1>10
<1>13. EvidenceIsCoherent'
    BY <1>1, <1>2, <1>4, CoherentStep
<1> QED
    BY <1>8, <1>11, <1>12, <1>13 DEF BInv

LEMMA RevokeKeeps ==
    ASSUME BInv, IInv', NEW r \in Ids, Revoke(r)
    PROVE  BInv'
<1>1. TypeOK /\ TypeOK' /\ KeysOK /\ LogOK /\ CommitBarrier /\ EvidenceIsCoherent
    BY DEF BInv, IInv
<1> PICK below : below = Descendants(r)
    OBVIOUS
<1>2. /\ nodes' = nodes /\ heads' = heads /\ revoked' = revoked \cup below
      /\ Record("revoke", r, below)
    BY DEF Revoke
<1>3. PICK t \in Time :
        /\ now <= t /\ now' = t
        /\ events' = Append(events, [action |-> "revoke", node |-> r, affected |-> below, ts |-> t])
    BY <1>1, <1>2, RecordAppends
<1>4. Ids' = Ids /\ \A i \in Ids : nodes'[i] = nodes[i]
    BY <1>2 DEF Ids
<1>5. Growth
    BY <1>1, <1>4, AddGrows
<1>6. /\ \A e \in DOMAIN events : events'[e] = events[e]
      /\ \A e \in DOMAIN events' : e \in DOMAIN events \/
           events'[e] = [action |-> "revoke", node |-> r, affected |-> below, ts |-> t]
    BY <1>1, <1>3 DEF TypeOK
<1>7. LogOK'
    <2>1. \A q \in Key : heads[q].generation <= heads'[q].generation
        BY <1>1, <1>2 DEF TypeOK, HeadRow, Generation
    <2> PICK ev : ev = [action |-> "revoke", node |-> r, affected |-> below, ts |-> t]
        OBVIOUS
    <2>2. EventOK(ev)'
        BY <1>2, <1>3, <1>4 DEF EventOK, Time
    <2>3. Ids \subseteq Ids' /\ revoked \subseteq revoked' /\ now <= now'
        BY <1>2, <1>3, <1>4
    <2> QED
        BY <2>1, <2>2, <2>3, <1>1, <1>4, <1>6, LogStays
<1>8. CommitBarrier'
    BY <1>1, <1>5, <1>6, BarrierStays
<1>9. KeysOK' /\ EvidenceIsCoherent'
    BY <1>1, <1>2, <1>4, <1>5 DEF KeysOK, EvidenceIsCoherent, NoMixedGenerations,
       HeaderIsLineage, Growth
<1> QED
    BY <1>7, <1>8, <1>9 DEF BInv

\* Time passing and a snapshot leave the tables alone.
LEMMA TablesStay ==
    ASSUME BInv, IInv', UNCHANGED <<nodes, revoked, heads, events>>, now <= now'
    PROVE  BInv'
<1>1. TypeOK /\ TypeOK' /\ KeysOK /\ LogOK /\ CommitBarrier /\ EvidenceIsCoherent
    BY DEF BInv, IInv
<1>2. Ids' = Ids /\ \A i \in Ids : nodes'[i] = nodes[i]
    BY DEF Ids
<1>3. Growth
    BY <1>1, <1>2, AddGrows
<1>4. LogOK'
    <2>1. \A q \in Key : heads[q].generation <= heads'[q].generation
        BY <1>1 DEF TypeOK, HeadRow, Generation
    <2> QED
        BY <2>1, <1>1, <1>2, LogStays
<1>5. CommitBarrier'
    BY <1>1, <1>3, BarrierStays
<1>6. KeysOK' /\ EvidenceIsCoherent'
    BY <1>1, <1>2, <1>3 DEF KeysOK, EvidenceIsCoherent, NoMixedGenerations,
       HeaderIsLineage, Growth
<1> QED
    BY <1>4, <1>5, <1>6 DEF BInv

LEMMA NextBInv == BInv /\ [Next]_vars => BInv'
<1> SUFFICES ASSUME BInv, [Next]_vars PROVE BInv'
    OBVIOUS
<1>1. IInv'
    BY NextIInv DEF BInv
<1>2. TypeOK /\ now <= now
    BY DEF BInv, IInv, TypeOK, Time
<1>3. CASE Origin
    <2> PICK content \in Content, acl \in Acls :
            Add([kind |-> "origin", content |-> content, key |-> {}, generation |-> 0,
                 acl |-> acl, window |-> Always, parents |-> {}, header |-> {}])
        BY <1>3 DEF Origin
    <2> PICK node : node = [kind |-> "origin", content |-> content, key |-> {}, generation |-> 0,
                            acl |-> acl, window |-> Always, parents |-> {}, header |-> {}]
        OBVIOUS
    <2>1. node \in Node /\ node.parents = {} /\ node.kind = "origin"
        BY RegistryAssumption DEF Node, Kind, Generation, Always, Window, Time
    <2>2. Add(node) /\ UNCHANGED <<revoked, heads, events, now>>
        BY <1>3 DEF Origin
    <2> QED
        BY <1>1, <2>1, <2>2, RowStep
<1>4. ASSUME NEW p \in Principal, NEW kind \in {"artifact", "answer"}, NEW content \in Content,
             Artifact(p, kind, content)
      PROVE  BInv'
    <2> PICK parents \in SUBSET ValidIds(p) :
            /\ Add(ArtifactNode(kind, content, parents))
            /\ UNCHANGED <<revoked, heads, events, now, snapshots>>
        BY <1>4 DEF Artifact
    <2> PICK node : node = ArtifactNode(kind, content, parents)
        OBVIOUS
    <2>1. parents \subseteq Ids
        BY DEF ValidIds
    <2>2. /\ node \in Node /\ node.parents = parents /\ node.kind # "knowledge"
          /\ node.header = Evidence(parents)
        BY <1>2, <2>1, ArtifactNodeOK DEF ArtifactNode
    <2> QED
        BY <1>1, <2>2, RowStep
<1>5. ASSUME NEW c \in Client, NEW p \in Principal, TakeSnapshot(c, p) PROVE BInv'
    BY <1>1, <1>2, <1>5, TablesStay DEF TakeSnapshot
<1>6. CASE Tick
    <2>1. now <= now'
        BY <1>2, <1>6 DEF Tick, TypeOK, Time
    <2> QED
        BY <1>1, <1>6, <2>1, TablesStay DEF Tick
<1>7. CASE UNCHANGED vars
    BY <1>1, <1>2, <1>7, TablesStay DEF vars
<1> QED
    BY <1>1, <1>3, <1>4, <1>5, <1>6, <1>7, PublishBarrier, CommitKeeps, RevokeKeeps DEF Next

-----------------------------------------------------------------------------
(* The theorems about evidence. *)

\* When a commit is logged, none of its evidence is withdrawn by an event before it:
\* no revocation names it, no publication has replaced it, it has not expired.
THEOREM CommitBarrierHolds == Spec => []CommitBarrier
<1>1. BInv => CommitBarrier
    BY DEF BInv
<1> QED
    BY InitBInv, NextBInv, <1>1, PTL DEF Spec

\* No artifact or answer mixes two generations of a key, and its header lists
\* exactly the origins and generations it rests on.
THEOREM EvidenceCoheres == Spec => []EvidenceIsCoherent
<1>1. BInv => EvidenceIsCoherent
    BY DEF BInv
<1> QED
    BY InitBInv, NextBInv, <1>1, PTL DEF Spec
-----------------------------------------------------------------------------
(* The log tells the state: what is revoked is what the log says was, and the *)
(* generation of a head counts the publications of its key, the last of which *)
(* it is.                                                                     *)

LEMMA PublishedIsFinite ==
    ASSUME TypeOK, NEW k
    PROVE  /\ IsFiniteSet(Published(k)) /\ Cardinality(Published(k)) \in Nat
           /\ Published(k) \subseteq 1..Len(events)
           /\ Len(events) + 1 \notin Published(k)
<1>1. Len(events) \in Nat /\ DOMAIN events = 1..Len(events)
    BY DEF TypeOK
<1>2. Published(k) \subseteq 1..Len(events) /\ Len(events) + 1 \notin 1..Len(events)
    BY <1>1 DEF Published
<1>3. IsFiniteSet(1..Len(events))
    BY <1>1, FS_Interval
<1> QED
    BY <1>2, <1>3, FS_Subset, FS_CardinalityType

\* A logged event counts for the key it publishes, and for no other.
LEMMA PublishedGrows ==
    ASSUME TypeOK, LogOK, Ids \subseteq Ids', \A i \in Ids : nodes'[i] = nodes[i],
           NEW ev, events' = Append(events, ev), NEW k
    PROVE  Published(k)' = IF ev.action = "publish" /\ nodes'[ev.node].key = {k}
                           THEN Published(k) \cup {Len(events) + 1} ELSE Published(k)
<1>1. /\ Len(events) \in Nat /\ DOMAIN events = 1..Len(events)
      /\ DOMAIN events' = 1..(Len(events) + 1)
      /\ events'[Len(events) + 1] = ev
      /\ \A e \in DOMAIN events : events'[e] = events[e] /\ events[e].node \in Ids
    BY DEF TypeOK, LogOK, EventOK
<1>2. \A e \in DOMAIN events : e \in Published(k)' <=> e \in Published(k)
    BY <1>1 DEF Published
<1>3. Len(events) + 1 \in Published(k)' <=> ev.action = "publish" /\ nodes'[ev.node].key = {k}
    BY <1>1 DEF Published
<1>4. /\ \A e \in Published(k)' : e \in DOMAIN events \/ e = Len(events) + 1
      /\ \A e \in Published(k) : e \in DOMAIN events
    BY <1>1 DEF Published
<1>5. CASE ev.action = "publish" /\ nodes'[ev.node].key = {k}
    <2>1. Published(k)' = Published(k) \cup {Len(events) + 1}
        BY <1>2, <1>3, <1>4, <1>5
    <2> QED
        BY <2>1, <1>5
<1>6. CASE ~(ev.action = "publish" /\ nodes'[ev.node].key = {k})
    <2>1. Published(k)' = Published(k)
        BY <1>2, <1>3, <1>4, <1>6
    <2> QED
        BY <2>1, <1>6
<1> QED
    BY <1>5, <1>6

\* The union of what the log revokes, one event later.
LEMMA RevokedGrows ==
    ASSUME TypeOK, LogTellsState, NEW ev, events' = Append(events, ev),
           revoked' = revoked \cup ev.affected
    PROVE  revoked' = UNION {events'[e].affected : e \in DOMAIN events'}
<1>1. /\ Len(events) \in Nat /\ DOMAIN events = 1..Len(events)
      /\ DOMAIN events' = DOMAIN events \cup {Len(events) + 1}
      /\ events'[Len(events) + 1] = ev
      /\ \A e \in DOMAIN events : events'[e] = events[e]
    BY DEF TypeOK
<1>2. \A x : (\E e \in DOMAIN events' : x \in events'[e].affected)
              <=> (\E e \in DOMAIN events : x \in events[e].affected) \/ x \in ev.affected
    BY <1>1
<1> QED
    BY <1>2 DEF LogTellsState

\* The log grows by an event that publishes nothing, the heads stay.
LEMMA OtherEventTells ==
    ASSUME TypeOK, LogOK, LogTellsState, Ids \subseteq Ids', \A i \in Ids : nodes'[i] = nodes[i],
           NEW ev, ev.action # "publish", events' = Append(events, ev),
           revoked' = revoked \cup ev.affected, heads' = heads
    PROVE  LogTellsState'
<1>1. revoked' = UNION {events'[e].affected : e \in DOMAIN events'}
    BY RevokedGrows
<1>2. ASSUME NEW k \in Key
      PROVE  /\ heads'[k].generation = Cardinality(Published(k)')
             /\ \A e \in Published(k)' : (\A f \in Published(k)' : f <= e) => heads'[k].node = events'[e].node
    <2>1. Published(k)' = Published(k)
        BY PublishedGrows
    <2>2. \A e \in Published(k) : events'[e] = events[e]
        BY PublishedIsFinite DEF TypeOK
    <2>3. /\ heads[k].generation = Cardinality(Published(k))
          /\ \A e \in Published(k) : (\A f \in Published(k) : f <= e) => heads[k].node = events[e].node
        BY DEF LogTellsState
    <2> QED
        BY <2>1, <2>2, <2>3
<1> QED
    BY <1>1, <1>2 DEF LogTellsState

\* Nothing is logged: the heads and what is revoked stay.
LEMMA NothingLoggedTells ==
    ASSUME TypeOK, LogOK, LogTellsState, Ids \subseteq Ids', \A i \in Ids : nodes'[i] = nodes[i],
           UNCHANGED <<events, revoked, heads>>
    PROVE  LogTellsState'
<1>1. \A k : Published(k)' = Published(k)
    BY DEF Published, LogOK, EventOK
<1> QED
    BY <1>1 DEF LogTellsState

LEMMA PublishTells ==
    ASSUME BInv, LogTellsState, NEW p \in Principal, NEW k \in Key, NEW content \in Content,
           NEW acl \in Acls, NEW window \in Windows,
           Publish(p, k, content, acl, window)
    PROVE  LogTellsState'
<1> PICK parents \in SUBSET ValidIds(p) :
        LET node == KnowledgeNode(content, k, acl, window, parents) IN
        /\ Add(node)
        /\ heads' = [heads EXCEPT ![k] = [node |-> IdOf(node), generation |-> node.generation]]
        /\ Record("publish", IdOf(node), {})
        /\ UNCHANGED <<revoked, snapshots>>
    BY DEF Publish
<1> PICK node : node = KnowledgeNode(content, k, acl, window, parents)
    OBVIOUS
<1> PICK n : n = IdOf(node)
    OBVIOUS
<1>1. TypeOK /\ LogOK /\ parents \subseteq Ids
    BY DEF BInv, IInv, ValidIds
<1>2. /\ heads \in [Key -> HeadRow] /\ heads[k] \in HeadRow /\ heads[k].generation \in Nat
    BY <1>1 DEF TypeOK, HeadRow, Generation
<1>3. /\ node \in Node /\ node.parents = parents /\ node.key = {k}
      /\ node.generation = heads[k].generation + 1
    <2>1. parents \in SUBSET NodeId
        BY <1>1, IdsAreNodeIds
    <2> QED
        BY <1>2, <2>1, RegistryAssumption DEF KnowledgeNode, Node, Kind, Generation
<1>4. /\ Add(node) /\ revoked' = revoked
      /\ heads' = [heads EXCEPT ![k] = [node |-> n, generation |-> node.generation]]
    OBVIOUS
<1>5. PICK t \in Time :
        events' = Append(events, [action |-> "publish", node |-> n, affected |-> {}, ts |-> t])
    BY <1>1, RecordAppends
<1> PICK ev : ev = [action |-> "publish", node |-> n, affected |-> {}, ts |-> t]
    OBVIOUS
<1>6. events' = Append(events, ev) /\ ev.action = "publish" /\ ev.node = n /\ ev.affected = {}
    BY <1>5
<1>7. /\ Ids \subseteq Ids' /\ nodes'[n] = node
      /\ \A i \in Ids : nodes'[i] = nodes[i]
    BY <1>1, <1>3, <1>4, AddGivesNode
<1>8. revoked' = UNION {events'[e].affected : e \in DOMAIN events'}
    BY <1>1, <1>4, <1>6, RevokedGrows
<1>9. ASSUME NEW q \in Key
      PROVE  /\ heads'[q].generation = Cardinality(Published(q)')
             /\ \A e \in Published(q)' : (\A f \in Published(q)' : f <= e) => heads'[q].node = events'[e].node
    <2>1. Published(q)' = IF {k} = {q} THEN Published(q) \cup {Len(events) + 1} ELSE Published(q)
        <3>1. Published(q)' = IF ev.action = "publish" /\ nodes'[ev.node].key = {q}
                              THEN Published(q) \cup {Len(events) + 1} ELSE Published(q)
            BY <1>1, <1>7, <1>6, PublishedGrows
        <3> QED
            BY <3>1, <1>3, <1>7, <1>6
    <2>2. Len(events) \in Nat /\ events'[Len(events) + 1] = ev
        BY <1>1, <1>6 DEF TypeOK
    <2>3. CASE q = k
        <3>1. heads'[q] = [node |-> n, generation |-> heads[q].generation + 1]
            BY <1>2, <1>3, <1>4, <2>3
        <3>2. Cardinality(Published(q)') = Cardinality(Published(q)) + 1
            BY <1>1, <2>1, <2>3, PublishedIsFinite, FS_AddElement
        <3>3. heads[q].generation = Cardinality(Published(q))
            BY DEF LogTellsState
        <3>4. ASSUME NEW e \in Published(q)', \A f \in Published(q)' : f <= e
              PROVE  e = Len(events) + 1
            <4>1. Len(events) + 1 <= e /\ (e \in 1..Len(events) \/ e = Len(events) + 1)
                BY <1>1, <2>1, <2>3, <3>4, PublishedIsFinite
            <4> QED
                BY <2>2, <4>1
        <3> QED
            BY <2>2, <3>1, <3>2, <3>3, <3>4
    <2>4. CASE q # k
        <3>1. Published(q)' = Published(q) /\ heads'[q] = heads[q]
            BY <1>2, <1>4, <2>1, <2>4
        <3>2. \A e \in Published(q) : events'[e] = events[e]
            BY <1>1, <1>5, PublishedIsFinite DEF TypeOK
        <3> QED
            BY <3>1, <3>2 DEF LogTellsState
    <2> QED
        BY <2>3, <2>4
<1> QED
    BY <1>8, <1>9 DEF LogTellsState

LEMMA CommitTells ==
    ASSUME BInv, LogTellsState, NEW c \in Client, NEW text \in Content, Commit(c, text)
    PROVE  LogTellsState'
<1> PICK parents : parents = snapshots[c].artifacts
    OBVIOUS
<1> PICK node : node = ArtifactNode("answer", text, parents)
    OBVIOUS
<1>1. TypeOK /\ LogOK
    BY DEF BInv, IInv
<1>2. /\ parents \subseteq ValidIds(snapshots[c].principal) /\ Add(node)
      /\ Record("commit", IdOf(node), {})
      /\ UNCHANGED <<revoked, heads>>
    BY DEF Commit
<1>3. parents \subseteq Ids
    BY <1>2 DEF ValidIds
<1>4. node \in Node /\ node.parents = parents
    BY <1>1, <1>3, ArtifactNodeOK DEF ArtifactNode
<1>5. Ids \subseteq Ids' /\ \A i \in Ids : nodes'[i] = nodes[i]
    BY <1>1, <1>2, <1>3, <1>4, AddGivesNode
<1>6. PICK t \in Time :
        events' = Append(events, [action |-> "commit", node |-> IdOf(node), affected |-> {}, ts |-> t])
    BY <1>1, <1>2, RecordAppends
<1> PICK ev : ev = [action |-> "commit", node |-> IdOf(node), affected |-> {}, ts |-> t]
    OBVIOUS
<1>7. ev.action # "publish" /\ events' = Append(events, ev) /\ revoked' = revoked \cup ev.affected
    BY <1>2, <1>6
<1> QED
    BY <1>1, <1>2, <1>5, <1>7, OtherEventTells

LEMMA RevokeTells ==
    ASSUME BInv, LogTellsState, NEW r \in Ids, Revoke(r)
    PROVE  LogTellsState'
<1>1. TypeOK /\ LogOK
    BY DEF BInv, IInv
<1>2. PICK t \in Time :
        events' = Append(events, [action |-> "revoke", node |-> r, affected |-> Descendants(r), ts |-> t])
    BY <1>1, RecordAppends DEF Revoke
<1> PICK ev : ev = [action |-> "revoke", node |-> r, affected |-> Descendants(r), ts |-> t]
    OBVIOUS
<1>3. /\ ev.action # "publish" /\ events' = Append(events, ev) /\ revoked' = revoked \cup ev.affected
      /\ heads' = heads /\ Ids \subseteq Ids' /\ \A i \in Ids : nodes'[i] = nodes[i]
    BY <1>2 DEF Revoke, Ids
<1> QED
    BY <1>1, <1>3, OtherEventTells

\* A row is added, or none, and nothing is logged.
LEMMA RowTells ==
    ASSUME BInv, LogTellsState, NEW p, NEW node \in Node, node.parents \subseteq ValidIds(p), Add(node),
           UNCHANGED <<revoked, heads, events>>
    PROVE  LogTellsState'
<1>1. TypeOK /\ LogOK /\ node.parents \subseteq Ids
    BY DEF BInv, IInv, ValidIds
<1>2. Ids \subseteq Ids' /\ \A i \in Ids : nodes'[i] = nodes[i]
    BY <1>1, AddGivesNode
<1> QED
    BY <1>1, <1>2, NothingLoggedTells

LEMMA NextTells == BInv /\ LogTellsState /\ [Next]_vars => LogTellsState'
<1> SUFFICES ASSUME BInv, LogTellsState, [Next]_vars PROVE LogTellsState'
    OBVIOUS
<1>1. TypeOK /\ LogOK
    BY DEF BInv, IInv
<1>2. CASE Origin
    <2> PICK content \in Content, acl \in Acls :
            Add([kind |-> "origin", content |-> content, key |-> {}, generation |-> 0,
                 acl |-> acl, window |-> Always, parents |-> {}, header |-> {}])
        BY <1>2 DEF Origin
    <2> PICK node : node = [kind |-> "origin", content |-> content, key |-> {}, generation |-> 0,
                            acl |-> acl, window |-> Always, parents |-> {}, header |-> {}]
        OBVIOUS
    <2>1. node \in Node /\ node.parents = {}
        BY RegistryAssumption DEF Node, Kind, Generation, Always, Window, Time
    <2>2. Add(node) /\ UNCHANGED <<revoked, heads, events>>
        BY <1>2 DEF Origin
    <2> QED
        BY <2>1, <2>2, RowTells
<1>3. ASSUME NEW p \in Principal, NEW kind \in {"artifact", "answer"}, NEW content \in Content,
             Artifact(p, kind, content)
      PROVE  LogTellsState'
    <2> PICK parents \in SUBSET ValidIds(p) :
            /\ Add(ArtifactNode(kind, content, parents))
            /\ UNCHANGED <<revoked, heads, events, now, snapshots>>
        BY <1>3 DEF Artifact
    <2> PICK node : node = ArtifactNode(kind, content, parents)
        OBVIOUS
    <2>1. parents \subseteq Ids
        BY DEF ValidIds
    <2>2. node \in Node /\ node.parents = parents
        BY <1>1, <2>1, ArtifactNodeOK DEF ArtifactNode
    <2> QED
        BY <2>2, RowTells
<1>4. ASSUME UNCHANGED <<nodes, revoked, heads, events>> PROVE LogTellsState'
    BY <1>1, <1>4, NothingLoggedTells DEF Ids
<1> QED
    BY <1>2, <1>3, <1>4, PublishTells, CommitTells, RevokeTells DEF Next, TakeSnapshot, Tick, vars

\* Whoever replays the event log has the revoked rows and the head of every key, with
\* its generation: no operation changes either without its event.
THEOREM LogTellsTheState == Spec => []LogTellsState
<1>1. Init => LogTellsState
    <2> SUFFICES ASSUME Init PROVE LogTellsState
        OBVIOUS
    <2>1. DOMAIN events = {} /\ revoked = {} /\ \A k \in Key : heads[k].generation = 0
        BY DEF Init, NoHead
    <2>2. \A k : Published(k) = {}
        BY <2>1 DEF Published
    <2> QED
        BY <2>1, <2>2, FS_EmptySet DEF LogTellsState
<1> QED
    BY InitBInv, NextBInv, <1>1, NextTells, PTL DEF Spec

-----------------------------------------------------------------------------
(* The refinement: every operation is a step of the evidence barrier or       *)
(* leaves what the barrier speaks of alone.  What BInv lacks is that no row   *)
(* is newer than the head of its key: a publication therefore never finds its *)
(* own row in the table, and no replaced generation becomes the head again.   *)

\* No row of a key is of a later generation than its head.
HeadsAreLatest ==
    \A i \in Ids, k \in Key : nodes[i].key = {k} => nodes[i].generation <= heads[k].generation

BarrierInv == BInv /\ HeadsAreLatest

\* The ancestry of an ancestor is part of the ancestry.
LEMMA AncestryIsTransitive ==
    ASSUME TypeOK, NEW i \in Ids, NEW q \in Ancestors(i)
    PROVE  Ancestors(q) \subseteq Ancestors(i)
<1>1. Ancestors(i) \subseteq Ids /\ q \in Ids
    BY WalksAreIds
<1>2. Closed(Ancestors(i), Parents)
    BY <1>1, AncestryIsClosed DEF Closed, Parents
<1> QED
    BY <1>1, <1>2, ReachIsLeast DEF Ancestors

\* What depends on a row that does not count does not count.
LEMMA RetiredTakesDependents == TypeOK => Barrier!TakesDependents(Retired, Parents)
<1> SUFFICES ASSUME TypeOK, NEW i \in Ids, NEW q \in nodes[i].parents, q \in Retired
             PROVE  i \in Retired
    BY DEF Barrier!TakesDependents, Parents
<1>1. i \in Ancestors(i)
    BY WalksAreIds
<1>2. q \in Ancestors(i)
    BY <1>1, AncestryIsClosed
<1>3. Ancestors(q) \subseteq Ancestors(i)
    BY <1>2, AncestryIsTransitive
<1> QED
    BY <1>3 DEF Retired, Dead

\* What _valid accepts counts: nothing in its ancestry is revoked or replaced.
LEMMA ValidCounts ==
    ASSUME TypeOK, NEW p
    PROVE  ValidIds(p) \subseteq Ids \ Retired
<1> SUFFICES ASSUME NEW i \in ValidIds(p), NEW a \in Ancestors(i)
             PROVE  a \notin revoked /\ (nodes[a].kind = "knowledge" => IsHead(a))
    BY DEF Retired, Dead, ValidIds
<1> QED
    BY ValidAncestry DEF Usable

\* A row that stopped counting never counts again, as long as rows and revocations stay
\* and no row that was replaced becomes the head of its key.
LEMMA RetiredStay ==
    ASSUME TypeOK, TypeOK', Growth, revoked \subseteq revoked',
           \A i \in Ids : nodes[i].kind = "knowledge" /\ IsHead(i)' => IsHead(i)
    PROVE  Retired \subseteq Retired'
<1> SUFFICES ASSUME NEW i \in Ids, NEW a \in Ancestors(i),
                    a \in revoked \/ (nodes[a].kind = "knowledge" /\ ~IsHead(a))
             PROVE  i \in Retired'
    BY DEF Retired, Dead
<1>1. i \in Ids' /\ a \in Ids /\ a \in Ancestors(i)' /\ nodes'[a] = nodes[a]
    BY WalksAreIds DEF Growth
<1>2. a \in revoked' \/ (nodes'[a].kind = "knowledge" /\ ~IsHead(a)')
    BY <1>1
<1> QED
    BY <1>1, <1>2 DEF Retired, Dead

-----------------------------------------------------------------------------
(* What a row that is added means to the barrier. *)

\* The edges of the table are a sequence, one entry for each row.
LEMMA EdgesAreASequence ==
    TypeOK => /\ Parents \in Seq(SUBSET Nat) /\ Len(Parents) = Len(nodes)
              /\ Len(nodes) \in Nat /\ Ids = 1..Len(nodes)
<1> SUFFICES ASSUME TypeOK
             PROVE  /\ Parents \in Seq(SUBSET Nat) /\ Len(Parents) = Len(nodes)
                    /\ Len(nodes) \in Nat /\ Ids = 1..Len(nodes)
    OBVIOUS
<1>1. Len(nodes) \in Nat /\ Ids = 1..Len(nodes)
    BY DEF TypeOK, Ids
<1>2. \A i \in 1..Len(nodes) : nodes[i].parents \in SUBSET Nat
    BY <1>1 DEF TypeOK
<1>3. Parents = [i \in 1..Len(nodes) |-> nodes[i].parents]
    BY <1>1 DEF Parents
<1> QED
    BY <1>1, <1>2, <1>3

\* A row that was there changes no edge; a new one adds its parents at the end.
LEMMA AddDerives ==
    ASSUME TypeOK, TypeOK', NEW node \in Node, node.parents \subseteq Ids, Add(node),
           NEW n, n = IdOf(node)
    PROVE  \/ n \in Ids /\ Parents' = Parents
           \/ n \notin Ids /\ Parents' = Append(Parents, node.parents)
<1>1. CASE Existing(node) = {}
    <2>1. /\ nodes \in Seq(Node) /\ Len(nodes) \in Nat /\ Ids = 1..Len(nodes)
          /\ nodes' = Append(nodes, node) /\ n = Len(nodes) + 1
        BY <1>1 DEF Add, IdOf, TypeOK, Ids
    <2>2. /\ Len(nodes') = Len(nodes) + 1 /\ nodes'[Len(nodes) + 1] = node
          /\ \A i \in 1..Len(nodes) : nodes'[i] = nodes[i]
        BY <2>1
    <2>3. /\ Parents \in Seq(SUBSET Nat) /\ Len(Parents) = Len(nodes)
          /\ Parents' \in Seq(SUBSET Nat) /\ Len(Parents') = Len(nodes')
          /\ Ids' = 1..Len(nodes')
        <3>1. TypeOK' => (/\ Parents \in Seq(SUBSET Nat) /\ Len(Parents) = Len(nodes)
                          /\ Len(nodes) \in Nat /\ Ids = 1..Len(nodes))'
            BY EdgesAreASequence, PTL
        <3> QED
            BY <3>1, EdgesAreASequence
    <2>4. node.parents \in SUBSET Nat
        BY <2>1
    <2>5. \A i \in 1..(Len(nodes) + 1) : Parents'[i] = Append(Parents, node.parents)[i]
        <3> SUFFICES ASSUME NEW i \in 1..(Len(nodes) + 1)
                     PROVE  Parents'[i] = Append(Parents, node.parents)[i]
            OBVIOUS
        <3>1. Parents'[i] = nodes'[i].parents
            BY <2>2, <2>3 DEF Parents
        <3>2. CASE i \in 1..Len(nodes)
            BY <3>1, <3>2, <2>1, <2>2, <2>3, <2>4 DEF Parents
        <3>3. CASE i = Len(nodes) + 1
            BY <3>1, <3>3, <2>2, <2>3, <2>4
        <3>4. i \in 1..Len(nodes) \/ i = Len(nodes) + 1
            <4>1. Len(nodes) \in Nat
                BY <2>1
            <4> QED
                BY <4>1
        <3> QED
            BY <3>2, <3>3, <3>4
    <2>6. Append(Parents, node.parents) \in Seq(SUBSET Nat)
          /\ Len(Append(Parents, node.parents)) = Len(nodes) + 1
        BY <2>3, <2>4
    <2> QED
        BY <2>1, <2>2, <2>3, <2>5, <2>6, SeqEqual
<1>2. CASE Existing(node) # {}
    BY <1>2 DEF Add, IdOf, Existing, Parents, Ids
<1> QED
    BY <1>1, <1>2

\* A row under parents that count, whoever added it, is a step of the barrier: nothing
\* that was retired returns, and nothing is acknowledged.
LEMMA RowDerives ==
    ASSUME BarrierInv, IInv', NEW p, NEW node \in Node, node.parents \subseteq ValidIds(p),
           Add(node), Retired \subseteq Retired', Receipts' = Receipts
    PROVE  [Barrier!Next]_(Barrier!vars)
<1>1. /\ TypeOK /\ TypeOK' /\ node.parents \subseteq Ids \ Retired
      /\ DOMAIN Parents = Ids
    BY ValidCounts DEF BarrierInv, BInv, IInv, Parents
<1>2. Barrier!Retiring
    <2>1. TypeOK' => Barrier!TakesDependents(Retired, Parents)'
        BY RetiredTakesDependents, PTL
    <2> QED
        BY <1>1, <2>1 DEF Barrier!Retiring
<1>3. CASE Parents' = Parents
    BY <1>2, <1>3 DEF Barrier!Next, Barrier!Retire
<1>4. CASE Parents' = Append(Parents, node.parents)
    BY <1>1, <1>2, <1>4 DEF Barrier!Next, Barrier!Derive, Barrier!Items
<1> QED
    BY <1>1, <1>3, <1>4, AddDerives

\* An event that is no commit leaves the receipts; a commit adds the latest one.
LEMMA ReceiptsGrow ==
    ASSUME TypeOK, NEW ev, events' = Append(events, ev), NEW last, last = Len(events) + 1
    PROVE  /\ ev.action # "commit" => Receipts' = Receipts
           /\ ev.action = "commit" =>
                /\ Receipts' = Receipts \cup {[number |-> last, item |-> ev.node]}
                /\ \A old \in Receipts : old.number < last
<1>1. /\ DOMAIN events = 1..Len(events) /\ Len(events) \in Nat
      /\ DOMAIN events' = DOMAIN events \cup {last} /\ last \notin DOMAIN events
      /\ events'[last] = ev /\ \A e \in DOMAIN events : events'[e] = events[e]
    BY DEF TypeOK
<1> DEFINE commits == {e \in DOMAIN events : events[e].action = "commit"}
<1>2. \A e \in DOMAIN events : e < last
    BY <1>1
<1>3. Receipts' = {[number |-> j, item |-> events'[j].node] :
                     j \in {e \in DOMAIN events' : events'[e].action = "commit"}}
    BY DEF Receipts
<1>4. CASE ev.action # "commit"
    <2>1. {e \in DOMAIN events' : events'[e].action = "commit"} = commits
        BY <1>1, <1>4
    <2> QED
        BY <1>1, <1>3, <1>4, <2>1 DEF Receipts
<1>5. CASE ev.action = "commit"
    <2>1. {e \in DOMAIN events' : events'[e].action = "commit"} = commits \cup {last}
        BY <1>1, <1>5
    <2> QED
        BY <1>1, <1>2, <1>3, <1>5, <2>1 DEF Receipts
<1> QED
    BY <1>4, <1>5

\* Adding a row that is not ahead of its head, while heads only advance.
LEMMA LatestStay ==
    ASSUME TypeOK, TypeOK', HeadsAreLatest, NEW node \in Node, node.parents \subseteq Ids, Add(node),
           \A k \in Key : heads[k].generation <= heads'[k].generation,
           \A k \in Key : node.key = {k} => node.generation <= heads'[k].generation
    PROVE  HeadsAreLatest'
<1> SUFFICES ASSUME NEW i \in Ids', NEW k \in Key, nodes'[i].key = {k}
             PROVE  nodes'[i].generation <= heads'[k].generation
    BY DEF HeadsAreLatest
<1>1. CASE i \in Ids
    <2>1. nodes[i] = nodes'[i] /\ nodes[i].generation <= heads[k].generation
        BY <1>1, AddGivesNode DEF HeadsAreLatest
    <2>2. nodes[i].generation \in Nat /\ heads[k].generation \in Nat /\ heads'[k].generation \in Nat
        <3>1. nodes[i] \in Node
            BY <1>1 DEF TypeOK, Ids
        <3>2. heads[k] \in HeadRow /\ heads'[k] \in HeadRow
            BY DEF TypeOK
        <3> QED
            BY <3>1, <3>2 DEF Node, HeadRow, Generation
    <2> QED
        BY <2>1, <2>2
<1>2. CASE i \notin Ids
    BY <1>2, AddGivesNode
<1> QED
    BY <1>1, <1>2

-----------------------------------------------------------------------------
(* One step per action. *)

LEMMA InitIsBarrierInit == Init => BarrierInv /\ Barrier!Init
<1> SUFFICES ASSUME Init PROVE BarrierInv /\ Barrier!Init
    OBVIOUS
<1>1. BInv
    BY InitBInv
<1>2. nodes = <<>> /\ events = <<>> /\ Ids = {} /\ DOMAIN events = {}
    BY DEF Init, Ids
<1>3. Parents = <<>> /\ Retired = {} /\ Receipts = {}
    BY <1>2 DEF Parents, Retired, Receipts
<1> QED
    BY <1>1, <1>2, <1>3 DEF BarrierInv, HeadsAreLatest, Barrier!Init

\* origin() and artifact() derive a row, or find it.
LEMMA RowRefines ==
    ASSUME BarrierInv, IInv', NEW p, NEW node \in Node, node.parents \subseteq ValidIds(p),
           Add(node), node.key = {}, UNCHANGED <<revoked, heads, events>>
    PROVE  HeadsAreLatest' /\ [Barrier!Next]_(Barrier!vars)
<1>1. TypeOK /\ TypeOK' /\ node.parents \subseteq Ids /\ HeadsAreLatest
    BY DEF BarrierInv, BInv, IInv, ValidIds
<1>2. Ids \subseteq Ids' /\ \A i \in Ids : nodes'[i] = nodes[i]
    BY <1>1, AddGivesNode
<1>3. Growth
    BY <1>1, <1>2, AddGrows
<1>4. Retired \subseteq Retired'
    <2>1. \A i \in Ids : IsHead(i)' => IsHead(i)
        BY <1>2 DEF IsHead
    <2> QED
        BY <1>1, <1>3, <2>1, RetiredStay
<1>5. Receipts' = Receipts
    BY DEF Receipts
<1>6. \A k \in Key : heads[k].generation <= heads'[k].generation
    BY <1>1 DEF TypeOK, HeadRow, Generation
<1>7. HeadsAreLatest'
    BY <1>1, <1>6, LatestStay
<1> QED
    BY <1>4, <1>5, <1>7, RowDerives

\* publish() derives a row that is new, and retires what rests on the generation before.
LEMMA PublishRefines ==
    ASSUME BarrierInv, IInv', NEW p \in Principal, NEW k \in Key, NEW content \in Content,
           NEW acl \in Acls, NEW window \in Windows,
           Publish(p, k, content, acl, window)
    PROVE  HeadsAreLatest' /\ [Barrier!Next]_(Barrier!vars)
<1> PICK parents \in SUBSET ValidIds(p) :
        LET node == KnowledgeNode(content, k, acl, window, parents) IN
        /\ Add(node)
        /\ heads' = [heads EXCEPT ![k] = [node |-> IdOf(node), generation |-> node.generation]]
        /\ Record("publish", IdOf(node), {})
        /\ UNCHANGED <<revoked, snapshots>>
    BY DEF Publish
<1> PICK node : node = KnowledgeNode(content, k, acl, window, parents)
    OBVIOUS
<1> PICK n : n = IdOf(node)
    OBVIOUS
<1>1. TypeOK /\ TypeOK' /\ KeysOK /\ HeadsAreLatest /\ parents \subseteq Ids
    BY DEF BarrierInv, BInv, IInv, ValidIds
<1>2. /\ heads \in [Key -> HeadRow]
      /\ \A q \in Key : heads[q].generation \in Nat
    BY <1>1 DEF TypeOK, HeadRow, Generation
<1>3. /\ node \in Node /\ node.parents = parents /\ node.kind = "knowledge" /\ node.key = {k}
      /\ node.generation = heads[k].generation + 1
    <2>1. parents \in SUBSET NodeId
        BY <1>1, IdsAreNodeIds
    <2> QED
        BY <1>2, <2>1, RegistryAssumption DEF KnowledgeNode, Node, Kind, Generation
<1>4. /\ Add(node) /\ Record("publish", n, {})
      /\ heads' = [heads EXCEPT ![k] = [node |-> n, generation |-> node.generation]]
      /\ revoked' = revoked
    OBVIOUS
<1>5. /\ Ids' = Ids \cup {n} /\ nodes'[n] = node
      /\ \A i \in Ids : nodes'[i] = nodes[i]
    BY <1>1, <1>3, <1>4, AddGivesNode
<1>6. /\ heads'[k] = [node |-> n, generation |-> node.generation]
      /\ \A q \in Key : q # k => heads'[q] = heads[q]
    BY <1>2, <1>4
<1>7. n \notin Ids
    <2> SUFFICES ASSUME n \in Ids PROVE FALSE
        OBVIOUS
    <2>1. nodes[n].key = {k} /\ nodes[n].generation = heads[k].generation + 1
        BY <1>3, <1>5
    <2>2. nodes[n].generation <= heads[k].generation
        BY <1>1, <2>1 DEF HeadsAreLatest
    <2> QED
        BY <1>2, <2>1, <2>2
<1>8. Retired \subseteq Retired'
    <2>1. ASSUME NEW i \in Ids, nodes[i].kind = "knowledge", IsHead(i)' PROVE IsHead(i)
        <3>1. PICK q \in Key : nodes[i].key = {q}
            BY <1>1, <2>1 DEF KeysOK
        <3>2. heads'[q].node = i
            BY <1>5, <2>1, <3>1 DEF IsHead
        <3>3. q # k
            BY <1>6, <1>7, <3>2
        <3> QED
            BY <1>6, <3>1, <3>2, <3>3 DEF IsHead
    <2>2. Growth
        BY <1>1, <1>5, AddGrows
    <2> QED
        BY <1>1, <1>4, <2>1, <2>2, RetiredStay
<1>9. Receipts' = Receipts
    <2>1. PICK t \in Time :
            events' = Append(events, [action |-> "publish", node |-> n, affected |-> {}, ts |-> t])
        BY <1>1, <1>4, RecordAppends
    <2> PICK ev : ev = [action |-> "publish", node |-> n, affected |-> {}, ts |-> t]
        OBVIOUS
    <2>2. events' = Append(events, ev) /\ ev.action # "commit"
        BY <2>1
    <2> QED
        BY <1>1, <2>2, ReceiptsGrow
<1>10. HeadsAreLatest'
    <2>1. \A q \in Key : heads[q].generation <= heads'[q].generation
        BY <1>2, <1>3, <1>6
    <2>2. \A q \in Key : node.key = {q} => node.generation <= heads'[q].generation
        BY <1>2, <1>3, <1>6
    <2> QED
        BY <1>1, <1>3, <1>4, <2>1, <2>2, LatestStay
<1> QED
    BY <1>3, <1>4, <1>8, <1>9, <1>10, RowDerives

\* commit() derives its answer, or finds it, and acknowledges it: what the answer rests
\* on is looked at again in the same transaction, so it counts when the receipt is written.
LEMMA CommitRefines ==
    ASSUME BarrierInv, IInv', NEW c \in Client, NEW text \in Content, Commit(c, text)
    PROVE  HeadsAreLatest' /\ [Barrier!Next]_(Barrier!vars)
<1> PICK parents : parents = snapshots[c].artifacts
    OBVIOUS
<1> PICK p : p = snapshots[c].principal
    OBVIOUS
<1> PICK node : node = ArtifactNode("answer", text, parents)
    OBVIOUS
<1> PICK n : n = IdOf(node)
    OBVIOUS
<1>1. TypeOK /\ TypeOK' /\ HeadsAreLatest
    BY DEF BarrierInv, BInv, IInv
<1>2. /\ parents \subseteq ValidIds(p) /\ Add(node)
      /\ Record("commit", n, {})
      /\ UNCHANGED <<revoked, heads, snapshots>>
    BY DEF Commit
<1>3. parents \subseteq Ids \ Retired /\ parents \subseteq Ids
    BY <1>1, <1>2, ValidCounts
<1>4. /\ node \in Node /\ node.parents = parents /\ node.kind = "answer" /\ node.key = {}
    BY <1>1, <1>3, ArtifactNodeOK DEF ArtifactNode
<1>5. /\ Ids' = Ids \cup {n} /\ nodes'[n] = node /\ n \notin revoked
      /\ \A i \in Ids : nodes'[i] = nodes[i]
    BY <1>1, <1>2, <1>3, <1>4, AddGivesNode
<1>6. Growth
    BY <1>1, <1>5, AddGrows
<1>7. n \notin Retired'
    <2> SUFFICES ASSUME NEW a \in Ancestors(n)'
                 PROVE  a \notin revoked' /\ (nodes'[a].kind = "knowledge" => IsHead(a)')
        BY DEF Retired, Dead
    <2>1. CASE a = n
        BY <2>1, <1>2, <1>4, <1>5
    <2>2. CASE a # n
        <3>1. PICK q \in parents : a \in Ancestors(q)
            BY <2>2, <1>1, <1>2, <1>3, <1>4, AncestryOfRow
        <3>2. a \in Ids /\ Usable(a, p)
            BY <3>1, <1>1, <1>2, ValidAncestry
        <3>3. nodes'[a] = nodes[a]
            BY <3>2, <1>5
        <3> QED
            BY <3>2, <3>3, <1>2 DEF Usable, IsHead
    <2> QED
        BY <2>1, <2>2
<1>8. Retired' = Retired
    <2>1. \A i \in Ids : IsHead(i)' <=> IsHead(i)
        BY <1>2, <1>5 DEF IsHead
    <2>2. Retired \subseteq Retired'
        BY <1>1, <1>2, <1>6, <2>1, RetiredStay
    <2>3. ASSUME NEW i \in Retired' PROVE i \in Retired
        <3>1. i \in Ids' /\ i \in Ids
            BY <2>3, <1>5, <1>7 DEF Retired
        <3>2. PICK a \in Ancestors(i)' :
                a \in revoked' \/ (nodes'[a].kind = "knowledge" /\ ~IsHead(a)')
            BY <2>3 DEF Retired, Dead
        <3>3. a \in Ancestors(i) /\ a \in Ids
            BY <3>1, <3>2, <1>1, <1>6, WalksAreIds DEF Growth
        <3>4. a \in revoked \/ (nodes[a].kind = "knowledge" /\ ~IsHead(a))
            BY <3>2, <3>3, <1>2, <1>5, <2>1
        <3> QED
            BY <3>1, <3>3, <3>4 DEF Retired, Dead
    <2> QED
        BY <2>2, <2>3
<1>9. PICK last : last = Len(events) + 1
    OBVIOUS
<1>10. /\ Receipts' = Receipts \cup {[number |-> last, item |-> n]}
       /\ \A old \in Receipts : old.number < last
    <2>1. PICK t \in Time :
            events' = Append(events, [action |-> "commit", node |-> n, affected |-> {}, ts |-> t])
        BY <1>1, <1>2, RecordAppends
    <2> PICK ev : ev = [action |-> "commit", node |-> n, affected |-> {}, ts |-> t]
        OBVIOUS
    <2>2. events' = Append(events, ev) /\ ev.action = "commit" /\ ev.node = n
        BY <2>1
    <2> QED
        BY <1>1, <1>9, <2>2, ReceiptsGrow
<1>11. \/ Parents' = Append(Parents, parents)
       \/ Parents' = Parents
    BY <1>1, <1>2, <1>3, <1>4, AddDerives
<1>12. Barrier!Acknowledge
    <2> PICK new : new = [number |-> last, item |-> n]
        OBVIOUS
    <2>1. /\ new \in Receipts' /\ Receipts' = Receipts \cup {new}
          /\ new.item = n /\ \A old \in Receipts : old.number < new.number
        BY <1>10
    <2>2. DOMAIN Parents = Ids /\ DOMAIN Parents' = Ids' /\ n \in Ids' /\ n \notin Retired
        BY <1>5, <1>7, <1>8 DEF Parents
    <2> QED
        BY <1>3, <1>8, <1>11, <2>1, <2>2 DEF Barrier!Acknowledge, Barrier!Items
<1>13. HeadsAreLatest'
    <2>1. \A k \in Key : heads[k].generation <= heads'[k].generation
        BY <1>1, <1>2 DEF TypeOK, HeadRow, Generation
    <2> QED
        BY <1>1, <1>2, <1>3, <1>4, <2>1, LatestStay
<1> QED
    BY <1>12, <1>13 DEF Barrier!Next

\* revoke() retires the row and what is below it.
LEMMA RevokeRefines ==
    ASSUME BarrierInv, IInv', NEW r \in Ids, Revoke(r)
    PROVE  HeadsAreLatest' /\ [Barrier!Next]_(Barrier!vars)
<1>1. TypeOK /\ TypeOK' /\ HeadsAreLatest
    BY DEF BarrierInv, BInv, IInv
<1>2. /\ nodes' = nodes /\ heads' = heads /\ revoked \subseteq revoked'
      /\ Record("revoke", r, Descendants(r))
    BY DEF Revoke
<1>3. Ids' = Ids /\ \A i \in Ids : nodes'[i] = nodes[i]
    BY <1>2 DEF Ids
<1>4. Retired \subseteq Retired'
    <2>1. Growth
        BY <1>1, <1>3, AddGrows
    <2>2. \A i \in Ids : IsHead(i)' => IsHead(i)
        BY <1>2 DEF IsHead
    <2> QED
        BY <1>1, <1>2, <2>1, <2>2, RetiredStay
<1>5. Receipts' = Receipts
    <2> PICK below : below = Descendants(r)
        OBVIOUS
    <2>1. PICK t \in Time :
            events' = Append(events, [action |-> "revoke", node |-> r, affected |-> below, ts |-> t])
        BY <1>1, <1>2, RecordAppends
    <2> PICK ev : ev = [action |-> "revoke", node |-> r, affected |-> below, ts |-> t]
        OBVIOUS
    <2>2. events' = Append(events, ev) /\ ev.action # "commit"
        BY <2>1
    <2> QED
        BY <1>1, <2>2, ReceiptsGrow
<1>6. Parents' = Parents
    BY <1>2, <1>3 DEF Parents
<1>7. Barrier!Retiring
    <2>1. TypeOK' => Barrier!TakesDependents(Retired, Parents)'
        BY RetiredTakesDependents, PTL
    <2> QED
        BY <1>1, <1>4, <2>1 DEF Barrier!Retiring
<1>8. HeadsAreLatest'
    BY <1>1, <1>2, <1>3 DEF HeadsAreLatest
<1> QED
    BY <1>5, <1>6, <1>7, <1>8 DEF Barrier!Next, Barrier!Retire

\* A snapshot, and time that passes, change nothing the barrier speaks of.
LEMMA OthersStutter ==
    ASSUME BarrierInv, UNCHANGED <<nodes, revoked, heads, events>>
    PROVE  HeadsAreLatest' /\ [Barrier!Next]_(Barrier!vars)
<1>1. Ids' = Ids /\ Parents' = Parents /\ Receipts' = Receipts
    BY DEF Ids, Parents, Receipts
<1>2. \A i \in Ids : Dead(i)' <=> Dead(i)
    BY <1>1 DEF Dead, Ancestors, IsHead
<1>3. Retired' = Retired
    BY <1>1, <1>2 DEF Retired
<1>4. HeadsAreLatest'
    BY <1>1 DEF BarrierInv, HeadsAreLatest
<1> QED
    BY <1>1, <1>3, <1>4 DEF Barrier!vars

LEMMA NextRefines == BarrierInv /\ [Next]_vars => BarrierInv' /\ [Barrier!Next]_(Barrier!vars)
<1> SUFFICES ASSUME BarrierInv, [Next]_vars
             PROVE  HeadsAreLatest' /\ [Barrier!Next]_(Barrier!vars)
    BY NextBInv DEF BarrierInv
<1>1. IInv' /\ TypeOK
    BY NextIInv DEF BarrierInv, BInv, IInv
<1>2. CASE Origin
    <2> PICK content \in Content, acl \in Acls :
            Add([kind |-> "origin", content |-> content, key |-> {}, generation |-> 0,
                 acl |-> acl, window |-> Always, parents |-> {}, header |-> {}])
        BY <1>2 DEF Origin
    <2> PICK node : node = [kind |-> "origin", content |-> content, key |-> {}, generation |-> 0,
                            acl |-> acl, window |-> Always, parents |-> {}, header |-> {}]
        OBVIOUS
    <2>1. node \in Node /\ node.parents = {} /\ node.key = {}
        BY RegistryAssumption DEF Node, Kind, Generation, Always, Window, Time
    <2>2. Add(node) /\ UNCHANGED <<revoked, heads, events>>
        BY <1>2 DEF Origin
    <2> QED
        BY <1>1, <2>1, <2>2, RowRefines
<1>3. ASSUME NEW p \in Principal, NEW kind \in {"artifact", "answer"}, NEW content \in Content,
             Artifact(p, kind, content)
      PROVE  HeadsAreLatest' /\ [Barrier!Next]_(Barrier!vars)
    <2> PICK parents \in SUBSET ValidIds(p) :
            /\ Add(ArtifactNode(kind, content, parents))
            /\ UNCHANGED <<revoked, heads, events, now, snapshots>>
        BY <1>3 DEF Artifact
    <2> PICK node : node = ArtifactNode(kind, content, parents)
        OBVIOUS
    <2>1. parents \subseteq Ids
        BY DEF ValidIds
    <2>2. node \in Node /\ node.parents = parents /\ node.key = {}
        BY <1>1, <2>1, ArtifactNodeOK DEF ArtifactNode
    <2> QED
        BY <1>1, <2>2, RowRefines
<1>4. ASSUME NEW c \in Client, NEW p \in Principal, TakeSnapshot(c, p)
      PROVE  HeadsAreLatest' /\ [Barrier!Next]_(Barrier!vars)
    BY <1>4, OthersStutter DEF TakeSnapshot
<1>5. CASE Tick
    BY <1>5, OthersStutter DEF Tick
<1>6. CASE UNCHANGED vars
    BY <1>6, OthersStutter DEF vars
<1> QED
    BY <1>1, <1>2, <1>3, <1>4, <1>5, <1>6, PublishRefines, CommitRefines, RevokeRefines DEF Next

-----------------------------------------------------------------------------
\* The registry implements the evidence barrier: whatever is published, restored or
\* committed late, an item that stopped counting never counts again, and no answer is
\* acknowledged on top of one.
THEOREM RegistryImplementsBarrier == Spec => ImplementsBarrier
BY InitIsBarrierInit, NextRefines, PTL DEF Spec, ImplementsBarrier, Barrier!Spec
=============================================================================
