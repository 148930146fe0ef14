----------------------------- MODULE LocalSearch -----------------------------
(***************************************************************************)
(* neural_pods/local_search.py: one namespace of the search backend, its   *)
(* copy-on-write branches, the pinned snapshots and the filter cache.      *)
(*                                                                         *)
(* A writer holds the lock from its commit to the end of _invalidate_pins, *)
(* but the filter cache is read and filled without the lock; an insertion  *)
(* while _invalidate_pins copies the dict makes the copy raise, with the   *)
(* rows committed and the pins left.  A search takes its snapshot, then    *)
(* the namespace's revision, then looks up or computes what its principal  *)
(* may see.  Texts, vectors and scores are left out: an item is whether it *)
(* is deleted and whether it is allowed (active, unrevoked, in the ACL,    *)
(* matching the filter); searches have one principal and one filter.  The  *)
(* postings are a second cache of the snapshot, whose result is not used.  *)
(***************************************************************************)
EXTENDS Naturals, Sequences, SequencesExt

CONSTANTS
    Branch,  \* names of branches
    Main,    \* the branch a namespace begins with
    ItemKey, \* keys of items
    Search,  \* calls of search
    MaxRev   \* bound: changes of the namespace

NoBranch == "none"

VARIABLES
    chain,     \* the branches table: each branch and its ancestors, closest first
    items,     \* the items table
    revision,  \* the namespace's revision
    read_only,
    pinned,    \* _pinned
    filters,   \* _filter_cache: the keys allowed in a branch at a revision
    clearing,  \* the branch whose _invalidate_pins runs with the lock held
    spoiled,   \* history: a reembed or an invalidation raised half way
    searches   \* where each search is, what it has read, and whether no write ended
               \* between its snapshot and its reading of the revision (quiet, history)

\* by: the branch an item was written through.
NoItem == [deleted |-> TRUE, allowed |-> FALSE, revision |-> 0, by |-> NoBranch]
Cold   == [key \in {} |-> NoItem]

Exists(b) == chain[b] # <<>>

\* _rows: the closest branch of the chain that has a row for the key.
Row(b, k) == LET with == {j \in DOMAIN chain[b] : items[chain[b][j]][k] # NoItem}
             IN  IF with = {} THEN NoItem ELSE items[chain[b][Min(with)]][k]
View(b) == [k \in ItemKey |-> Row(b, k)]

\* _snapshot
Seen(b) == IF pinned[b] # Cold THEN pinned[b] ELSE View(b)

LockFree == clearing = NoBranch

rows   == <<chain, items, revision, read_only>>
caches == <<pinned, filters>>
vars   == <<rows, caches, clearing, spoiled, searches>>

Visible(item) == ~item.deleted /\ item.allowed
Every == "*"  \* _invalidate_pins(namespace, "*"), which no branch is equal to

Init ==
    /\ chain = [b \in Branch |-> IF b = Main THEN <<Main>> ELSE <<>>]
    /\ items = [b \in Branch |-> [k \in ItemKey |-> NoItem]]
    /\ revision = 0 /\ read_only = FALSE
    /\ pinned = [b \in Branch |-> Cold]
    /\ filters = {}
    /\ clearing = NoBranch
    /\ spoiled = FALSE
    /\ searches = [s \in Search |-> [at |-> "idle"]]

-----------------------------------------------------------------------------
(* Writers. *)

\* The end of every write: the revision goes up, and the caches are to be cleared.
Commit(b) ==
    /\ revision < MaxRev
    /\ revision' = revision + 1
    /\ clearing' = b
    /\ UNCHANGED <<chain, caches, spoiled, searches>>

Write(b, k, item) ==
    /\ LockFree /\ Exists(b) /\ ~read_only
    /\ items' = [items EXCEPT ![b][k] = item]
    /\ Commit(b)
    /\ UNCHANGED read_only

\* A replaced item starts again at revision 1.
Upsert(b, k, allowed) == Write(b, k, [deleted |-> FALSE, allowed |-> allowed, revision |-> 1, by |-> b])

\* partial_update with the current revision, or with none, as expected_revision.
PartialUpdate(b, k, allowed) ==
    /\ Exists(b) /\ ~Row(b, k).deleted
    /\ Write(b, k, [deleted |-> FALSE, allowed |-> allowed, revision |-> Row(b, k).revision + 1, by |-> b])

\* A row of the branch keeps its metadata, a new one has none: revision 1, for all.
Delete(b, k) ==
    Write(b, k, IF items[b][k] = NoItem THEN [deleted |-> TRUE, allowed |-> TRUE, revision |-> 1, by |-> b]
                ELSE [items[b][k] EXCEPT !.deleted = TRUE])

Reembedded(b, K) ==
    [items EXCEPT ![b] = [k \in ItemKey |-> IF k \in K /\ ~Row(b, k).deleted
                                        THEN [Row(b, k) EXCEPT !.revision = @ + 1, !.by = b]
                                        ELSE items[b][k]]]

Reembed(b) ==
    /\ LockFree /\ Exists(b) /\ ~read_only
    /\ items' = Reembedded(b, ItemKey)
    /\ Commit(b)
    /\ UNCHANGED read_only

\* A wrong dimension raises after some rows were written: nothing rolls them back, and
\* the connection, which all readers share, shows them.  (~spoiled bounds the model.)
ReembedRaises(b) ==
    /\ ~spoiled /\ LockFree /\ Exists(b) /\ ~read_only
    /\ \E K \in SUBSET ItemKey : K # ItemKey /\ items' = Reembedded(b, K) /\ items' # items
    /\ spoiled' = TRUE
    /\ UNCHANGED <<chain, revision, read_only, caches, clearing, searches>>

\* configure_schema and update_namespace_metadata.
Configure ==
    /\ LockFree
    /\ read_only' \in BOOLEAN
    /\ Commit(Every)
    /\ UNCHANGED items

CreateBranch(source, target) ==
    /\ LockFree /\ Exists(source) /\ ~Exists(target)
    /\ chain' = [chain EXCEPT ![target] = <<target>> \o chain[source]]
    /\ UNCHANGED <<items, revision, read_only, caches, clearing, spoiled, searches>>

\* Seeded fault: only the changed branch is unpinned.
InvalidateOne ==
    /\ ~LockFree
    /\ filters' = {}
    /\ pinned' = [b \in Branch |-> IF b = clearing THEN Cold ELSE pinned[b]]
    /\ clearing' = NoBranch
    /\ UNCHANGED <<rows, spoiled, searches>>

InvalidatePins ==
    /\ ~LockFree
    /\ filters' = {}
    /\ pinned' = [b \in Branch |-> IF clearing \in ToSet(chain[b]) THEN Cold ELSE pinned[b]]
    /\ clearing' = NoBranch
    /\ UNCHANGED <<rows, spoiled, searches>>

-----------------------------------------------------------------------------
(* Readers. *)

Pin(b) ==
    /\ LockFree /\ Exists(b)
    /\ pinned' = [pinned EXCEPT ![b] = View(b)]
    /\ UNCHANGED <<rows, filters, clearing, spoiled, searches>>

Unpin(b) ==
    /\ LockFree
    /\ pinned' = [pinned EXCEPT ![b] = Cold]
    /\ UNCHANGED <<rows, filters, clearing, spoiled, searches>>

TakeSnapshot(s, b) ==
    /\ LockFree /\ Exists(b)
    /\ searches[s].at = "idle"
    /\ searches' = [searches EXCEPT ![s] = [at |-> "meta", branch |-> b, snapshot |-> Seen(b), taken |-> revision]]
    /\ UNCHANGED <<rows, caches, clearing, spoiled>>

ReadRevision(s) ==
    /\ LockFree
    /\ searches[s].at = "meta"
    /\ searches' = [searches EXCEPT ![s] = [at |-> "filter", branch |-> @.branch, snapshot |-> @.snapshot,
                                            revision |-> revision, quiet |-> @.taken = revision]]
    /\ UNCHANGED <<rows, caches, clearing, spoiled>>

\* The candidates are the rows of the search's own snapshot, deleted ones among them, whose
\* keys the filter allows.
Candidates(s, allowed) == {k \in allowed : searches[s].snapshot[k] # NoItem}

Answer(s, allowed) ==
    searches' = [searches EXCEPT ![s] = [at |-> "done", snapshot |-> @.snapshot, quiet |-> @.quiet,
                                         hits |-> Candidates(s, allowed)]]

Cached(s) == {f \in filters : f.branch = searches[s].branch /\ f.revision = searches[s].revision}

Hit(s) ==
    /\ searches[s].at = "filter"
    /\ \E f \in Cached(s) : Answer(s, f.allowed)
    /\ UNCHANGED <<rows, caches, clearing, spoiled>>

\* Computed from the snapshot, stored under the revision read after it; the store may
\* end an invalidation that copies the dict.
Fill(s) ==
    /\ searches[s].at = "filter"
    /\ Cached(s) = {}
    /\ LET allowed == {k \in ItemKey : Visible(searches[s].snapshot[k])} IN
       /\ Answer(s, allowed)
       /\ filters' = filters \cup {[branch |-> searches[s].branch, revision |-> searches[s].revision, allowed |-> allowed]}
    /\ \/ UNCHANGED <<clearing, spoiled>>
       \/ ~LockFree /\ clearing' = NoBranch /\ spoiled' = TRUE
    /\ UNCHANGED <<rows, pinned>>

Next ==
    \/ \E b \in Branch, k \in ItemKey :
         Delete(b, k) \/ \E allowed \in BOOLEAN : Upsert(b, k, allowed) \/ PartialUpdate(b, k, allowed)
    \/ \E b \in Branch : Reembed(b) \/ ReembedRaises(b) \/ Pin(b) \/ Unpin(b)
    \/ Configure \/ InvalidatePins
    \/ \E b, t \in Branch : CreateBranch(b, t)
    \/ \E s \in Search : ReadRevision(s) \/ Hit(s) \/ Fill(s) \/ \E b \in Branch : TakeSnapshot(s, b)

Spec == Init /\ [][Next]_vars
-----------------------------------------------------------------------------
(* What the backend promises. *)

TypeOK ==
    /\ \A b \in Branch : ToSet(chain[b]) \subseteq Branch
    /\ revision \in 0..MaxRev /\ read_only \in BOOLEAN /\ spoiled \in BOOLEAN
    /\ items \in [Branch -> [ItemKey -> [deleted : BOOLEAN, allowed : BOOLEAN, revision : Nat, by : Branch \cup {NoBranch}]]]
    /\ clearing \in Branch \cup {NoBranch, Every}
    /\ \A b \in Branch : pinned[b] = Cold \/ DOMAIN pinned[b] = ItemKey
    /\ \A f \in filters : f.branch \in Branch /\ f.allowed \subseteq ItemKey

\* query (lines 549-551): "Lifecycle and ACL checks still happen inside search, so a
\* query expression cannot re-authorize revoked or stale Pods."  This holds at least of a
\* search that no write overlaps before it looks into the filter cache: all it returns was
\* live and allowed when it began.
HitsAreAuthorized ==
    \A s \in Search : searches[s].at = "done" /\ searches[s].quiet =>
      \A k \in searches[s].hits : Visible(searches[s].snapshot[k])

\* Lines 64-66: a branch resolves its own rows first and then its parent's.  What is
\* written through a branch is never seen from its parent or its siblings, be it in the
\* tables or in a pinned snapshot.
BranchesAreIsolated ==
    \A b \in Branch : Exists(b) =>
        \A k \in ItemKey : {Row(b, k).by, Seen(b)[k].by} \subseteq ToSet(chain[b]) \cup {NoBranch}

\* "``pin`` only controls the local snapshot cache" (lines 66-67): outside of a write a pinned
\* branch shows what its rows say, also when a branch it inherits from was written.
\* A reembed or an invalidation that raised half way takes the promise away.
PinsAreCurrent ==
    LockFree /\ ~spoiled => \A b \in Branch : Exists(b) => Seen(b) = View(b)

\* A branch shows its own history and its ancestors', and a pin what the rows say.
BranchesHold == BranchesAreIsolated /\ PinsAreCurrent
=============================================================================
