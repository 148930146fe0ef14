---------------------------- MODULE PodCacheState ----------------------------
(* The parameters and the state of PodCache, and what the cache promises,    *)
(* apart from the steps so that a module that checks several components can  *)
(* extend them.                                                              *)
EXTENDS Naturals, FiniteSets

CONSTANTS
    Lookup,      \* the calls of search and pin_query, each made at most once
    Query,       \* everything in a CacheKey but the revision
    QueryOf,     \* the query of each call
    Pinning,     \* the calls of pin_query
    MaxEntries,  \* max_entries
    MaxRev       \* bound on the revisions of the namespace

ASSUME CacheAssumption ==
    /\ QueryOf \in [Lookup -> Query]
    /\ Pinning \subseteq Lookup
    /\ MaxEntries \in Nat \ {0} /\ MaxRev \in Nat \ {0}

VARIABLES
    redis,     \* whether there is an L2
    revision,  \* what namespace_metadata reports
    data,      \* _data: the result of each entry and whether its ttl is running
    inflight,  \* the keys of _inflight
    pinned,    \* _pinned
    shared,    \* L2: the results this process stored
    calls      \* where each call is, its key, the revision it began at, its result

Revision == 1..MaxRev
CacheKey == [query : Query, revision : Revision]

EntryKey(c) == calls[c].key

-----------------------------------------------------------------------------
\* tests/test_pod_cache.py:46, "namespace_revision_prevents_stale_cached_results": no
\* call returns what was computed before the last write it could have seen when it
\* began, whoever computed it and through whichever tier (search, 75-146).
FreshResults ==
    \A c \in Lookup : calls[c].at = "returned" => calls[c].result >= calls[c].began

Owning(k) == {c \in Lookup : EntryKey(c) = k /\ calls[c].at \in {"l2", "search", "share", "store", "release"}}

\* Concurrent misses of a key are one read of the backend, and as long as there is no
\* L2 a key is in flight exactly while somebody works on it, so nobody waits for an
\* owner that left, by a result or by an exception (88-92, 110-146).
SingleFlight ==
    \A k \in CacheKey :
      /\ Cardinality(Owning(k)) <= 1
      /\ Owning(k) # {} => k \in inflight
      /\ k \in inflight /\ ~redis => Owning(k) # {}

\* Without an L2 the cache stays within its bound: what is pinned is an entry, and an entry
\* that is new to the cache makes room, or goes itself when all others are pinned (130-140,
\* 200-206; line 25, "Bounded LRU cache").  The comment of lines 132-134 says otherwise, "If
\* all entries are pinned we temporarily allow bounded growth": it overlooks that the entry
\* just stored is not pinned and is the victim, so that nothing grows, and that a pin_query
\* into a cache full of pins, which line 177 has "warm and pin", ends with nothing to pin.
BoundedCache ==
    /\ pinned \subseteq DOMAIN data
    /\ ~redis => Cardinality(DOMAIN data) <= MaxEntries

\* No answer older than its call, one read of the backend per missing key, and
\* max_entries entries.
CacheIsSound == FreshResults /\ SingleFlight /\ BoundedCache
=============================================================================
