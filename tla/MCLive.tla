-------------------------------- MODULE MCLive --------------------------------
(* The components whose threads owe somebody an answer, checked side by side *)
(* with their fairness: a behaviour is one of one component.                  *)
(*                                                                            *)
(* batcher: three requests on two keys, so that one key can hold the oldest   *)
(* request while the other has a full batch; the third may be cancelled.      *)
(* cache: without an L2, two calls of one query, the first of which pins it,  *)
(* and a call of another; one entry fits, and the namespace is not written.   *)
(* stream: three events, room for two, one drain().                           *)
EXTENDS AdaptiveBatcher, StreamState

CONSTANTS Lookup, Query, QueryOf, Pinning, MaxEntries, MaxRev  \* of the cache

Keys3 == <<"a", "b", "a">>

Queried == [c \in Lookup |-> IF c = "c3" THEN "q2" ELSE "q1"]

VARIABLES redis, revision, data, cache_inflight, pinned, shared, calls
cacheVars == <<redis, revision, data, cache_inflight, pinned, shared, calls>>

Cache == INSTANCE PodCache WITH inflight <- cache_inflight

ASSUME CallsAssumption ==
    /\ QueryOf \in [Lookup -> Query] /\ Pinning \subseteq Lookup
    /\ MaxEntries \in Nat \ {0} /\ MaxRev \in Nat \ {0}

streamVars == <<queue, emitted, consumer, thread, inflight, current, consumed, failed, stop, waiters>>

Stream == INSTANCE PerceptionStream

VARIABLE service

MCInit == /\ Init /\ Cache!Init /\ Stream!Init
          /\ service \in {"batcher", "cache", "stream"}
          /\ ~redis

MCNext ==
    \/ service = "batcher" /\ Next /\ UNCHANGED <<cacheVars, streamVars, service>>
    \/ service = "cache" /\ Cache!Next /\ UNCHANGED <<vars, streamVars, service>>
    \/ service = "stream" /\ Stream!Next /\ UNCHANGED <<vars, cacheVars, service>>

\* The fairness of each component, owed by the one that runs.
MCFairness ==
    /\ WF_vars(service = "batcher" /\ WorkerStep)
    /\ \A q \in Request : SF_vars(service = "batcher" /\ Ripen(q))
    /\ \A c \in Lookup : WF_cacheVars(service = "cache" /\ Cache!Step(c))
    /\ WF_streamVars(service = "stream" /\ Stream!DrainStep)

MCSpec == MCInit /\ [][MCNext]_<<vars, cacheVars, streamVars, service>> /\ MCFairness

TypesOK == TypeOK /\ Cache!TypeOK /\ Stream!TypeOK
\* Searches end, and emitted events are delivered.
EveryoneIsServed     == Cache!SearchesEnd /\ Stream!EventsAreDelivered
=============================================================================
