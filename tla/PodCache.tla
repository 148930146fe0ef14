------------------------------ MODULE PodCache ------------------------------
(***************************************************************************)
(* neural_pods/pod_cache.py: results of searches in one namespace, cached  *)
(* in the process (L1) and optionally in a Redis shared with other         *)
(* processes (L2).  The first call that misses a key owns it and asks the  *)
(* backend; the others wait for its event, at most ttl at a time, and look *)
(* again.  The lock is held for each look and each store, not in between.  *)
(*                                                                         *)
(* A result is the revision of the namespace it was computed at: that is   *)
(* what the properties tell apart, and what the JSON of L2 keeps.  Which   *)
(* unpinned entry is the least recently used one is left open.             *)
(***************************************************************************)
EXTENDS PodCacheState, FiniteSetsExt

vars == <<redis, revision, data, inflight, pinned, shared, calls>>

NoResult == 0
At == {"idle", "drop", "look", "wait", "l2", "search", "share", "store", "release", "repin", "pin",
       "returned", "raised"}

Init ==
    /\ redis \in BOOLEAN
    /\ revision = 1
    /\ data = <<>> /\ shared = <<>>
    /\ inflight = {} /\ pinned = {}
    /\ calls = [c \in Lookup |-> [at |-> "idle", key |-> [query |-> QueryOf[c], revision |-> 1],
                                began |-> 1, result |-> NoResult]]

Without(f, K) == [k \in DOMAIN f \ K |-> f[k]]
With(f, k, x) == [j \in DOMAIN f \cup {k} |-> IF j = k THEN x ELSE f[j]]
Entry(result) == [result |-> result, running |-> TRUE]
Fresh(k) == k \in DOMAIN data /\ data[k].running
Goto(c, at) == calls' = [calls EXCEPT ![c].at = at]
\* pin_query goes on after its search.
Done(c) == IF c \in Pinning THEN "repin" ELSE "returned"
Return(c, result) == calls' = [calls EXCEPT ![c].at = Done(c), ![c].result = result]

\* What the eviction loop may leave of the entries f: it stops at the bound, or when
\* only pinned ones are left.
Evicting(f, pins) ==
    LET free == DOMAIN f \ pins
        n    == Cardinality(DOMAIN f)
        out  == IF n > MaxEntries THEN Min({n - MaxEntries, Cardinality(free)}) ELSE 0
    IN  {Without(f, E) : E \in {E \in SUBSET free : Cardinality(E) = out}}

-----------------------------------------------------------------------------
(* search(), and the end of pin_query(). *)

\* The key is made of the revision the namespace has now.
Begin(c) ==
    /\ calls[c].at = "idle"
    /\ calls' = [calls EXCEPT ![c].at = "drop", ![c].key.revision = revision, ![c].began = revision]
    /\ UNCHANGED <<redis, revision, data, inflight, pinned, shared>>

\* _drop_stale_revisions, which takes every other revision for an older one.
DropStale(c) ==
    /\ calls[c].at = "drop"
    /\ LET stale == {k \in DOMAIN data : k.revision # EntryKey(c).revision} IN
       /\ data' = Without(data, stale)
       /\ pinned' = pinned \ stale
    /\ Goto(c, "look")
    /\ UNCHANGED <<redis, revision, inflight, shared>>

Hit(c) ==
    /\ calls[c].at = "look"
    /\ Fresh(EntryKey(c))
    /\ Return(c, data[EntryKey(c)].result)
    /\ UNCHANGED <<redis, revision, data, inflight, pinned, shared>>

Own(c) ==
    /\ calls[c].at = "look"
    /\ ~Fresh(EntryKey(c)) /\ EntryKey(c) \notin inflight
    /\ inflight' = inflight \cup {EntryKey(c)}
    /\ Goto(c, IF redis THEN "l2" ELSE "search")
    /\ UNCHANGED <<redis, revision, data, pinned, shared>>

Wait(c) ==
    /\ calls[c].at = "look"
    /\ ~Fresh(EntryKey(c)) /\ EntryKey(c) \in inflight
    /\ Goto(c, "wait")
    /\ UNCHANGED <<redis, revision, data, inflight, pinned, shared>>

\* The event was set, or ttl has passed.
Wake(c) ==
    /\ calls[c].at = "wait"
    /\ Goto(c, "look")
    /\ UNCHANGED <<redis, revision, data, inflight, pinned, shared>>

\* What L2 may have for key k: what this process stored, or what others did that run
\* the same code at some revision since.
InL2(k) == (IF k \in DOMAIN shared THEN {shared[k]} ELSE {}) \cup k.revision..revision

\* The owner returns what L2 has; the key stays in flight and nothing is evicted.
HitL2(c) ==
    /\ calls[c].at = "l2"
    /\ \E result \in InL2(EntryKey(c)) : data' = With(data, EntryKey(c), Entry(result)) /\ Return(c, result)
    /\ UNCHANGED <<redis, revision, inflight, pinned, shared>>

\* A miss, an expired entry, or an error of the L2.
MissL2(c) ==
    /\ calls[c].at = "l2"
    /\ Goto(c, "search")
    /\ UNCHANGED <<redis, revision, data, inflight, pinned, shared>>

\* backend.search, at whatever revision the namespace has by now.
Search(c) ==
    /\ calls[c].at = "search"
    /\ calls' = [calls EXCEPT ![c].at = IF redis THEN "share" ELSE "store", ![c].result = revision]
    /\ UNCHANGED <<redis, revision, data, inflight, pinned, shared>>

\* Seeded fault: without a result the key is not taken out of flight.
RaiseInFlight(c) ==
    /\ calls[c].at = "search"
    /\ Goto(c, "raised")
    /\ UNCHANGED <<redis, revision, data, inflight, pinned, shared>>

\* The exception passes through the finally clause.
Raise(c) ==
    /\ calls[c].at = "search"
    /\ inflight' = inflight \ {EntryKey(c)}
    /\ Goto(c, "raised")
    /\ UNCHANGED <<redis, revision, data, pinned, shared>>

\* L2 is best effort.
Share(c) ==
    /\ calls[c].at = "share"
    /\ shared' \in {shared, With(shared, EntryKey(c), calls[c].result)}
    /\ Goto(c, "store")
    /\ UNCHANGED <<redis, revision, data, inflight, pinned>>

\* Seeded fault: the result is stored under the revision of this moment.
StoreUnderCurrent(c) ==
    /\ calls[c].at = "store"
    /\ data' \in Evicting(With(data, [EntryKey(c) EXCEPT !.revision = revision], Entry(calls[c].result)), pinned)
    /\ Goto(c, "release")
    /\ UNCHANGED <<redis, revision, inflight, pinned, shared>>

Store(c) ==
    /\ calls[c].at = "store"
    /\ data' \in Evicting(With(data, EntryKey(c), Entry(calls[c].result)), pinned)
    /\ Goto(c, "release")
    /\ UNCHANGED <<redis, revision, inflight, pinned, shared>>

Release(c) ==
    /\ calls[c].at = "release"
    /\ inflight' = inflight \ {EntryKey(c)}
    /\ Goto(c, Done(c))
    /\ UNCHANGED <<redis, revision, data, pinned, shared>>

\* pin_query reads the revision once more.
Repin(c) ==
    /\ calls[c].at = "repin"
    /\ calls' = [calls EXCEPT ![c].at = "pin", ![c].key.revision = revision]
    /\ UNCHANGED <<redis, revision, data, inflight, pinned, shared>>

Pin(c) ==
    /\ calls[c].at = "pin"
    /\ pinned' = pinned \cup ({EntryKey(c)} \cap DOMAIN data)
    /\ Goto(c, "returned")
    /\ UNCHANGED <<redis, revision, data, inflight, shared>>

-----------------------------------------------------------------------------
(* The other operations, time, and writers of the namespace. *)

\* For the keys that match, here those of a set of queries.
Invalidate(Q) ==
    LET matching == {k \in DOMAIN data : k.query \in Q} IN
    /\ matching # {}
    /\ data' = Without(data, matching)
    /\ pinned' = pinned \ matching
    /\ UNCHANGED <<redis, revision, inflight, shared, calls>>

Unpin(Q) ==
    LET kept == {k \in pinned : k.query \notin Q} IN
    /\ pinned' = kept
    /\ data' \in Evicting(data, kept)
    /\ UNCHANGED <<redis, revision, inflight, shared, calls>>

Expire(k) ==
    /\ Fresh(k)
    /\ data' = [data EXCEPT ![k].running = FALSE]
    /\ UNCHANGED <<redis, revision, inflight, pinned, shared, calls>>

WriteNamespace ==
    /\ revision < MaxRev
    /\ revision' = revision + 1
    /\ UNCHANGED <<redis, data, inflight, pinned, shared, calls>>

Step(c) ==
    \/ DropStale(c) \/ Hit(c) \/ Own(c) \/ Wait(c) \/ Wake(c) \/ HitL2(c) \/ MissL2(c)
    \/ Search(c) \/ Raise(c) \/ Share(c) \/ Store(c) \/ Release(c) \/ Repin(c) \/ Pin(c)

Next ==
    \/ \E c \in Lookup : Begin(c) \/ Step(c)
    \/ \E Q \in SUBSET Query : Invalidate(Q) \/ Unpin(Q)
    \/ \E k \in CacheKey : Expire(k)
    \/ WriteNamespace

\* The calls are running threads, and the backend and L2 answer or raise.
Fairness == \A c \in Lookup : WF_vars(Step(c))

Spec == Init /\ [][Next]_vars /\ Fairness
-----------------------------------------------------------------------------
(* What the cache promises. *)

TypeOK ==
    /\ redis \in BOOLEAN /\ revision \in Revision
    /\ DOMAIN data \subseteq CacheKey /\ \A k \in DOMAIN data : data[k] \in [result : Revision, running : BOOLEAN]
    /\ DOMAIN shared \subseteq CacheKey /\ \A k \in DOMAIN shared : shared[k] \in Revision
    /\ inflight \subseteq CacheKey /\ pinned \subseteq CacheKey
    /\ calls \in [Lookup -> [at : At, key : CacheKey, began : Revision, result : 0..MaxRev]]

Ended(c) == calls[c].at \in {"returned", "raised"}

\* Every call ends, whatever its owner met, as long as there is no L2.
SearchesEnd ==
    \A c \in Lookup : (~redis /\ calls[c].at # "idle") ~> Ended(c)

\* research/GEN6-REDIS-GRPC-20260919.md:37-38, the deadlock of an owner that waits for
\* itself is fixed: every call ends, with an L2 too.
EverySearchEnds ==
    \A c \in Lookup : calls[c].at # "idle" ~> Ended(c)
=============================================================================
