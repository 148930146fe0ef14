# Neural pods: verification development

TLA+ models of `neural_pods/`, the run-time of the PTR research repository: a
registry of knowledge with lineage, pods that answer from it, and the services
around them (batching, placement, replication, admission, caches). The models
are translated from the Python source; TLC checks them on small instances, and
TLAPS proves the theorems below for every value of the constants.

`PROJECT.json` is the index: it maps every definition to the source lines it
stands for, lists the runs, the mutants of each property, the findings, the
hazards with their lines, and the theorems.

## 1. The system

Everything below lives in `src/neural_pods/`. Processes are Python processes
with threads; state is in SQLite (the registry), in objects guarded by a
`threading.Lock`, `RLock` or `Condition`, and in external stores reached
through adapters.

| Component | State | Operations | What is hard | What makes it correct |
|---|---|---|---|---|
| lineage registry (`registry.py`) | tables nodes, edges, heads, events; a clock | origin, publish, artifact, snapshot, commit, revoke, recursive walks | answers are computed between snapshot and commit; revocation must reach what is derived later | nothing is acknowledged on evidence that was revoked, replaced or expired; revocation is closed under derivation; the log tells the state |
| temporal port plane (`symlink.py`) | ports, slots and aliases in the registry's database | bind, update_value, resolve | check and transaction are separate steps | slots are dense and stay; a compare-and-set loses no update |
| neural symlinks (`symlink.py`) | a row per knowledge: its identity, cluster and adapter | register, attach, active_binding, resolve | trainings are long, and a row is read more than once and written without a condition | a link resolves by a model trained for what the knowledge is now |
| adaptive batcher (`adaptive_batcher.py`) | a queue per key, a counter, futures, one worker thread | submit, cancel, close, select and run a batch | callers cancel futures without the batcher's lock | every admitted request is answered; the counter is exact |
| pod cache (`pod_cache.py`) | local entries, queries in flight, pins, shared tier | search, invalidate, pin | one owner computes, the others wait; invalidation races both | waiters are always released; nothing stale is stored |
| task graph (`taskgraph.py`) | nodes, dependencies, a thread pool | run | workers block on the results of other workers | the graph is finished, in order |
| placement driver (`placement.py`) | nodes with health and load, regions, an epoch | register, heartbeat, set_health, assign, rebalance, reconcile | nodes time out while a pass works; a pass may raise half way | placements are live, spread over zones, least loaded, distinct in epoch |
| fenced leader (`placement.py`) | one lease, a term and a fence | acquire, renew, validate | clients act on copies; names are reused after a restart | one leader at a time, and a superseded one never returns |
| quorum replicator (`replication.py`) | the replicas' rows, a revision per key in the process | write, tombstone, read | puts fail or are stored and not acknowledged; coordinators restart; reads take no lock | acknowledged writes stay on a quorum; reads are recent |
| household (`household.py`) | offers, requests, approvals, reservations, an event log in the registry | join, request, approve, start, release, restore | events are written after the lock is released; processes die in between | memory is held by consent and within the offers, and can be released; restarts lose no reservation |
| resource governor (`resource_runtime.py`, `pod_executor.py`) | bytes used per place, residencies, executors | acquire, release, activate, deactivate, pool activate and release | three kinds of client draw on one budget | nothing leaks, nothing is handed out twice |
| tiered storage (`storage.py`) | a value in Redis, a row in LanceDB's table `kv` | put, get | get writes back what it read; a put may opt out of the hot tier | a read returns nothing that was replaced before it began; what opted out stays cold |
| namespace snapshots (`snapshot_store.py`, `raft_backend.py`) | snapshot files, `LATEST`, the log | write, compact, append_wal, propose | a process dies between two files | `LATEST` names a file that is there; what was acknowledged is logged |
| local search (`local_search.py`) | branches, items, a revision per namespace; pinned snapshots, a filter cache | branch, upsert, partial_update, delete, reembed, search, pin, invalidate | branches overlay each other; searches read and fill caches without the lock | a branch sees its own history only; pins and filters say what the rows say |
| reflex channel (`reflex.py`) | counters over the port plane | invoke | resolution, dispatch and the default pod fail independently | hits, misses and failovers add up |
| perception stream (`perception.py`) | a bounded deque, counters, one drain thread | emit, set_consumer, drain, close | an event is neither queued nor delivered for a while; consumers raise | drained means delivered; every event is delivered |
| pod transport, request tracker (`pod_protocol.py`, `resource_runtime.py`) | receipts, open and closed, by request id | dispatch, start, finish, fail | ids are used twice; handlers raise or are late | one receipt per call, which says what the caller got |
| vLLM router (`vllm_router.py`) | a cursor and counters | chat, completion | calls share the cursor and fail in many ways | replicas take turns; calls are counted |
| dream cycle (`dream.py`, `research/run_dream_cycle.py`) | a quota kept in the registry's event log | check, record, main | check and record are apart; cycles abort and are killed | work is counted, whatever ends it |
| mesh (`mesh.py`) | envelopes on an MQTT broker, retained presence | publish, forward, announce, close | messages are repeated, lost and late; the heartbeat is another thread | hops and deadlines bound every copy; presence ends "offline" |
| raft peer (`research/raft_node_server.py`, `bindings/raft_binding`) | the library's term, vote and log; a log file | step, emit, load | killed between append, send and acknowledgement | what it promised to its peers survives |
| mesh cache (`mesh_cache.py`) | announced entries | announce, invalidate | late messages | see section 6 |
| pod contract, streams (`pod_contract.py`, `pod_streams.py`) | a lifecycle, sessions | start, stop, invoke, push, close | a turn is interrupted | see section 6 |
| raft transport (`raft_transport.py`) | a connection per peer, a sequence number; a thread per connection | send, close | sends are repeated over new connections while the old ones are still read | a frame is handed over whole, once, and not if its send raised |
| sockets, models, scripts | see section 6 | | | |

How they interact: the port plane, the household and the dream cycle write
through the registry's transactions; the household and the dream cycle keep their
event logs there. The reflex channel resolves over the port plane. The executor
pool draws on the governor's budget; the governor's handlers run inside the
transport; leases of the leader fence whoever writes to a store; the replicator
writes to PostgreSQL through `postgres_store.py`'s conditional upsert; the native
raft node logs through the snapshot store; caches and the mesh sit in front of the
search backend.

## 2. Modules

Names of variables and operators are those of the source where TLA+ allows it.
Every module begins with a comment on its abstractions. Definitions marked
"Seeded fault" are mutated forms of their neighbour: they are used by no
specification, and show, one property at a time, that the property notices the
mistake they make.

A module named `...State` holds what a component is seen through from outside:
its CONSTANTS with their assumption, its VARIABLES and the properties it promises
in terms of them, without the steps. The component extends it, and so does the
module of a run that checks several components at once: TLC evaluates the
assumption there, and the run and the proofs speak of the same definition. Where the
proofs extend the module of the run itself (`DataProofs`, `ClusterProofs`, `LiveProofs`
and `WorkProofs`), no such module is needed for the proofs' sake: the component's
CONSTANTS are the run's, which states the assumption and gives the component's property
a name.

A module named `...Proofs` holds theorems, several components to a module: they
share the lemmas about operators at its head. `RegistryProofs`: the registry.
`DataProofs`: port plane, reflex channel, local search, storage, symlinks.
`ClusterProofs`: leader, placement, replicator, raft peer, snapshots, raft transport.
`HouseholdProofs`: household. `TaskGraphProofs`: task graph. `CacheProofs`: cache.
`WorkProofs`: governor, transport, mesh, presence, router, dream cycle. `LiveProofs`:
batcher, stream. The four that extend a run's module end with the theorems about the
run as a whole.

### Registry (`registry.py`)

- `Registry`: the recursive SQL walks are least closed sets (`Reach`), so that no
  recursion is needed and their laws are provable. The tables are `nodes`, `revoked`, `heads`, `events`. A node id,
  the hash of its content in the code, is the position of the row: equal content
  has equal position because `_add` returns the row that exists. Each operation
  holds the lock and one transaction (91-112), so it is one action; an exception
  rolls back, hence is the absence of a step. `Record` stamps events with a later
  clock reading in the same transaction, as the code does. `TakeSnapshot` and
  `Commit` are separate: in between, everything else may happen.
- `EvidenceBarrier`: what the registry promises, without its tables: items with
  dependencies, items that no longer count, receipts. `ImplementsBarrier` is the
  refinement, with the mapping in `Registry`.

### AdaptiveBatcher (`adaptive_batcher.py`)

Callers (`Submit`, `Cancel`, `Close`), time (`Ripen`, `Expire`) and the worker
thread, step by step: `_select` holds the lock (`worker = "scan"`), filtering,
running and delivering do not. `Future.done()` and the `set_result` or
`set_exception` that follows are different moments: a cancellation in between
raises inside the worker, which the model follows to where the exception goes.
Nobody calls `set_running_or_notify_cancel`, so a started request can still be
cancelled.

### FencedLeader, Placement (`placement.py`)

`FencedLeader` keeps `_lease`, `_term`, `_fence`, and a `belief` for each client:
the lease it was last given. Clients may share a holder name. `Placement` keeps
the nodes' zone, load, health and freshness and the regions; every method is one
action except `reconcile()`, which reads the clock again for each region: its
pass is a sequence of steps that holds the lock while heartbeats go on timing
out. Sorting the candidates by load is `Sorted`, the arrangement without an inversion
that keeps the order among equals, as Python's sort does.

### QuorumReplicator (`replication.py`)

The coordinator's `write()` visits the replicas in order (`PutSucceeds`,
`PutRaises`, which may have stored the record or not), and returns or raises;
`read()` visits them in the same order without the lock. `Restart` replaces the
coordinator by one with an empty revision table. One key: keys share only the
lock. `before`, `used`, `begun` and `firsts` are history: what was acknowledged when a
read began, the newest revision this coordinator acknowledged or read, the revisions
some write was begun with, and the acknowledged records whose write was the first of its
revision. The last two are there because a failed write leaves its revision to the next
one, whose payload a replica that already has the revision does not take (finding 2): of
every acknowledged write `AckedOnQuorum` promises the revision, of the firsts the record.

### Household (`household.py`), ResourceGovernor (`resource_runtime.py`, `pod_executor.py`)

`Household`: `offers` (who holds each donor), `requests`, `approved`,
`reservations`, and the event log. `start()` and `release()` record their event
after they let go of the lock, so an event waits in `unlogged` until
`RecordEvent`, in any order, and a `Crash` loses it. `Restore` replays the log.
`owed` is a history variable: the reservations the last process had, and whether
the log could know them. `ResourceGovernor`: `used` bytes per place; handlers
walk the places one lock at a time (`TryAcquire`), residencies and the governed
executor pool take theirs in one critical section.

### PodCache (`pod_cache.py`)

One namespace, whose `revision` a writer raises at any moment. A call of `search`
or `pin_query` goes through the places the code gives up the lock: `Begin` reads
the revision into the key, `DropStale`, then one look under the lock (`Hit`, `Own`
or `Wait`), and for an owner the shared tier (`HitL2`, `MissL2`), the backend
(`Search`, `Raise`), `Share`, `Store` and `Release`; `Repin` and `Pin` are the end of
`pin_query`, which reads the revision again. `Invalidate`, `Unpin` and `Expire` come
in between. A result is the revision the backend had when it answered: that is
what staleness is about, and what survives the JSON of the shared tier. The choice
of the least recently used entry is left open, so every choice is checked.

### TaskGraph (`taskgraph.py`)

The graph and the number of workers are chosen in the initial state, nodes being
numbered in the order they were given. `Submit` is the loop of `run()`, `Take` a
worker of the executor that takes the head of its queue, `CallHandler` the return
of the last `done.wait()` and the collection of inputs, `Finish` the handler's
return, or an `Exception`, with the done event, and `Escape` a handler that raises past
the `except Exception` of line 104 (`SystemExit`, say): the worker is free again, the
node has no output, and its done event is never set.

### PortPlane (`symlink.py`, `reflex.py`)

Each query of the connection is a step and each transaction is one. `bind()` reads
the row (`BindReadsRow`) and the alias before its transaction, and writes what it
had read (`Bind`); `update_value()` compares the revision it read with the one it
expects before its transaction, whose UPDATE has no condition. So calls of two
threads interleave between any two queries. The registry is cut down to the head of
each key and to revocation, which `Registry` models in full. `invoke` of the reflex
channel resolves, is authorized, dispatches, or misses and tries the default pod,
with the counters where the code has them.

### NeuralSymlinks (`symlink.py`)

One knowledge and its row, `link`. `register`, a training with its `attach`, and
`resolve` run query by query: `register` reads the row, publishes an identity and
writes the row (`WriteLink` drops the adapter); `attach` reads the row, then the target
text, then writes its adapter into whatever row there is; `resolve` validates the row
it read in `active_binding` (`Activate`) and once more in its own snapshot. The
knowledge is described anew (`Publish`) and its origins are withdrawn at any moment. A
model is what it was trained to answer (`adapter.text`), and what is given to `resolve`
is any text. The indexed Pod `resolve` also asks for is whichever outcome.

### LocalSearch (`local_search.py`)

`chain` is the table of branches (each with its ancestors), `items` the rows written
through each branch; `View` is `_rows`, a branch over its ancestors, `Seen` is
`_snapshot`, which a pinned dictionary replaces. A writer holds the lock from its
commit to the end of `_invalidate_pins` (`clearing` says for which branch it runs);
searches insert into the same dictionaries without the lock, and an insertion while
they are copied makes the writer raise with the rows committed and the pins left
(`spoiled`). A search reads its snapshot, then the revision, then the filter cache,
in three steps; it returns the rows of its own snapshot whose key is allowed, and a
tombstone is such a row (`Candidates`). `taken` and `quiet` are history: whether a
search overlapped no write.

### PodStorage (`storage.py`)

One key over Redis and `kv`; each access of a tier is a step of its own, and puts and
gets interleave. `raced` remembers that a back-fill or a put with `l1=False` left in
Redis what another put had replaced: what the code does then is in section 4.

### SnapshotStore (`snapshot_store.py`, `raft_backend.py`)

`write` creates the snapshot file, writes `LATEST.tmp` and renames it; `compact` lists
the files it will remove and removes them one by one; the process may die between
any two of these (`Crash`), also between the rename and the return. A write or `compact`
that raises leaves what a process leaves that dies there. `returned` is history: the
revision of the last write that returned. Above the log, `DurableRaftNode.propose` takes the
node's pending Ready, appends it and acknowledges it.

### RaftPeer (`research/raft_node_server.py`, `bindings/raft_binding`)

One node among its peers. The library, raft-rs, is external: of it the model has
the term, the vote and the log, and the messages that make promises, votes and
acknowledgements. `emit()` is what this repository adds: the Ready is written to
`wal.jsonl`, its messages are sent, it is advanced, and the node may be killed at
each point, also in the middle of a line. `Restart` is `Wal.load()` and the
constructor, which drops the hard state of a log without entries. `votes` and `owed`
are history: what the node promised.

### RaftTransport (`raft_transport.py`)

The frames of one client to one server. `streams` is what was written to each
connection and not read, whole frames by their number and parts of them; a connection
breaks at any point of it. `send` holds the client's lock, so its frames follow each
other: `Connect`, and `Write` or `WriteFails`, which leaves a part of the frame or
nothing, until the attempts are used up. The server has a thread for each connection
that looks at `_stop`, reads a frame and hands it over. `handed` and `late` are history.

### PerceptionStream (`perception.py`)

Callers, the drain thread and calls of `drain()`; every block under the lock is one
step and the consumer runs outside of it. A consumer may raise, and a
`BaseException` ends the thread. `inflight` is `_inflight`: it covers the moment
between `popleft` and the counters.

### PodTransport (`pod_protocol.py`, `resource_runtime.py`)

A call of `dispatch()` step by step: validation, `tracker.start` (which refuses an id
that is in use), attempts of the handler with bounded retries, each way a handler
ends (payload, exception, `BaseException`), the answer and `finish` or `fail`. The
clock of a call is before, at or past its deadline and is read where the code reads
it. `active` and `receipts` are the tracker's two dictionaries.

### VllmRouter (`vllm_router.py`)

`Order` is the block under the lock that takes the cursor; the attempts follow
replica by replica, each answering, failing in a way that is retried, or raising
past the handlers.

### DreamCycle (`dream.py`, `research/run_dream_cycle.py`)

Processes that run `main()`: `CycleBudget.check` counts the events of the window, the
RAM lease is taken or refused, the cycle works, and `record_cycle` writes one event,
in the regular place or in the `finally` clause. A process may raise, be interrupted,
fail to write, or be killed anywhere.

### Mesh (`mesh.py`)

`Mesh` follows the copies of one publication. Endpoints keep nothing of an envelope,
so copies never meet: a behaviour follows one copy, which every forwarding replaces,
and the broker delivers it to anybody, often, late or never. `route` is history, the
pods it was forwarded by. The second part of the module (`PresenceInit`,
`PresenceNext`) is the retained record of one endpoint, its heartbeat thread and
`close()`, which messages do not touch.

### What is checked side by side

Components that share no state are checked in one run, where a behaviour is one of
either: `MCData`, `MCCluster`, `MCWork` and `MCLive` each instantiate several
components. One more variable, `service`, says which; it is chosen in the initial
state and never changes, and the others' variables keep their initial values. A
property of one component holds of a behaviour of another because its variables do
not move, so it says of the run exactly what it says of its component.

## 3. Runs

### The four runs that pass

`data` (`MCData`): what a host keeps about knowledge.

| Component | Instance | Properties |
|---|---|---|
| registry | 1 key, 4 rows, 3 events, one client | `RevocationReachesDescendants`, `CommitBarrier`, `EvidenceIsCoherent` (= `NoMixedGenerations` and `HeaderIsLineage`), `LogTellsState`, `ImplementsBarrier` (refinement) |
| registry in time | 2 principals, 2 access lists, 2 validity intervals, clock 0..1, 3 rows, 2 events | `CommitsAreInTime` (= `LogTellsState` and `CommitBarrier` of this instance) |
| port plane, reflex | 2 keys, 2 aliases, 2 calls, 1 invocation, 1 later generation | `PortsAreSound` (= `PortsAreWhole` and `MissesAreAccounted`) |
| local search | 2 branches, 2 keys, 1 search, 2 revisions | `BranchesHold` (= `BranchesAreIsolated` and `PinsAreCurrent`) |
| tiered storage | 2 puts, one with `l1=False`, 2 gets, with and without a row from before the column | `TiersAgree` (= `OptedOutStaysCold` and `GetsAreRegular`) |
| neural symlinks | 2 descriptors, 2 generations, 2 calls of `register`, one training, one `resolve` | `LinksAreCurrent` |

`cluster` (`MCCluster`): what hosts agree on and what survives one of them.

| Component | Instance | Properties |
|---|---|---|
| fenced leader | 3 clients, 2 names, lease 2, clock 0..7, 4 acquisitions | `OneClientValidates`, `FencedForGood` |
| placement | 3 nodes, 2 zones, 2 regions, 3 placements | `PlacementsAreSound`, `ReconcileHeals`, `PlacementsAreKept` (= `PlacementsSpread` and `ReconcileKeepsFactor`) |
| replicator | 3 replicas, quorum 2, 2 revisions, restarts; two payloads without a reader, one with | `AckedOnQuorum`, `QuorumReadIsRecent` |
| raft peer | 2 candidates, 2 terms, 2 entries, 4 lines of the log file, killed at any moment | `PromisesSurvive` |
| snapshots | 2 files kept, 4 revisions, 2 deaths, 2 proposals | `SnapshotsAndLogSurvive` (= `LatestIsReadable` and `AckedIsLogged`) |
| raft transport | 2 frames, 1 retry, 1 broken connection | `FramesArriveOnce` |

`work` (`MCWork`): how work is admitted, run, sent on and counted.

| Component | Instance | Properties |
|---|---|---|
| household | 2 donors, 3 requests, 4 log rows | `ReservedWithConsent`, `BusyCanBeReleased`, `RestoreIsExact` |
| governor, executors | 3 handlers, 2 Pods, 2 executors, 3 measured places | `BudgetIsKept` (= `UsedIsHeld` and `BudgetHolds`) |
| task graph | every graph of 3 nodes in every order, 1 to 3 workers | `EnoughWorkersNeverStall` |
| transport | 2 calls under one id, 1 retry | `TransportIsHonest` (= `ReceiptsTellOutcomes` and `OkIsAnswered`) |
| router | 3 calls, 2 replicas, 2 attempts | `ReplicasTakeTurns` |
| cache | 2 calls (one pins) of 1 query, 1 entry, 2 revisions, with and without a shared tier | `CacheIsSound` (= `FreshResults`, `SingleFlight` and `BoundedCache`) |
| dream cycle | 2 cycles, quota 1, window 1, clock 0..3 | `WorkIsCounted` |
| mesh, presence | 2 endpoints, a hop budget of 2, 3 or none, a deadline of 1 or none, clock 0..2; one endpoint | `HopsAreBounded`, `PresenceEndsOffline` |

`live` (`MCLive`): the components whose threads owe somebody an answer.

| Component | Instance | Properties |
|---|---|---|
| batcher | 3 requests on 2 keys, batch 2, queue 2, a deadline on one, cancellation of another | `RequestsAreAccounted` (= `QueuedIsExact` and `OpenRequestsAreHeld`), `EveryRequestAnswered`, `CloseEndsWorker` |
| cache | 3 calls of 2 queries, 1 entry, 1 revision, no shared tier | `EveryoneIsServed`, by `SearchesEnd` |
| perception stream | 3 events, room for 2, one `drain()` | `DrainedIsDelivered`; `EveryoneIsServed`, by `EventsAreDelivered` |

Each run also checks `TypesOK`, the type invariants of its components.

### Why the bounds are enough to be interesting

*Registry*: four rows hold an
origin, a knowledge, its next generation, and an
artifact or answer above them, so mixed generations, revocation before and after
derivation, and a replaced head between snapshot and commit all occur; three
events hold publish, publish, commit or publish, revoke, commit. Several keys, which
share nothing but the lock and the ancestries, are left to the proofs. The timed instance
trades rows for time and access lists: what is valid from reading 1 can be used too
early, what expires at reading 1 too late. *Ports*: two calls race for one key, one slot
or one alias, or touch both keys; a publish or a revocation can fall before the
transaction; the invocation meets every outcome. *Search*: a branch and its parent
allow a write below a pin and above it; two revisions let the search fall before,
between and after; two keys let a reembed raise half way. *Storage*: two puts and two gets let a get begin after a put
that another get's back-fill undoes. *Symlinks*: two
generations with the same or another descriptor let one call of `register` replace the
identity a training was begun for, before, during and after its `attach`. *Leader*: two of the three
clients share a name, as a restarted process does; eight clock values let two
leases of length two lapse and be followed by others. *Placement*: three nodes in
two zones make both a spread placement and a shortage of zones and of nodes; three
epochs let both regions be placed and one moved. *Replicator*: three replicas and
quorum two is the smallest instance in which a minority can miss a write; two
revisions allow a failed write, its repetition, and a coordinator that lags behind.
Two payloads, one of them a tombstone's, let a revision that a failed write left behind be taken by another record
(service `writes`); what a read promises is about revisions, for which one payload is
enough (service `reads`, with a reader beside the writer). *Raft peer*: two terms and two candidates allow a
second vote; two entries and four lines allow an entry to be logged, cut off by a
new leader, and logged again. *Snapshots*: two kept files and four revisions let
`compact` remove files before and after interrupted writes. *Raft transport*: two
frames with two attempts each use up to four connections, so that a frame is repeated
while an older connection is still read, and follows another one over a new connection.
*Household*: one request spills over two donors and tiers, the others each compete
for one donor; four log rows hold two started and two released events.
*Governor*: the clients together ask for more than any place has, and disk is
unmeasured. *Task graph*: three nodes allow two that wait for a third given after
them, with fewer workers than these, as many and more; graphs are all graphs. *Transport*: two calls
under one id race for the receipt, and the property speaks of no more than two calls;
one retry separates the first attempt from the last. *Router*: three calls over two replicas wrap the cursor.
*Cache*: two calls of
one query make an owner and a waiter; one write of the namespace can fall between any
two steps, and the entries of the two revisions compete for the only place (in `live`,
where there is no shared tier and no write, a third call's query competes for it). *Dream*: a
clock of four readings and a window of one let cycles fall inside and outside of
one window. *Mesh*: two pods forward a
copy twice at most. A budget of two is spent by the first of them, so that the budget
stops the copy; one of three outlasts both pods, so that only the list of the visited
ones stops it from coming back. *Batcher*: three requests on keys a, b, a
let one key hold the oldest request while another has a full batch; the queue of
two is smaller than the requests, so rejection occurs. *Stream*: three events and
room for two refuse one, with one queued behind the one in flight.

`MCCluster` declares the two regions symmetric: no operation orders or singles them
out, and a pass of `reconcile()` may visit them in either order. `MCData` declares the
keys of the registry, of the ports and of the search symmetric, for the same reason.

Runs switch deadlock checking off because their systems stop: bounded counters are
used up, all requests are answered, workers and processes have ended.

### Fairness

Only `live` assumes any. For the cache, weak fairness of the steps of each call: its
thread is scheduled, a wait ends after `ttl` at the latest, and the backend and the
shared tier answer or raise. `SearchesEnd` is about caches without a shared tier;
with one it does not hold, which is a finding. Nothing is assumed of writers, of
invalidations, or of calls that were not made. For the batcher, weak
fairness of the worker thread's steps (the thread is scheduled, and `run_batch`
returns; it waits without a timeout only while nothing is queued, and `submit` and
`close` notify it) and
strong fairness of `Ripen` for each request (time passes: the request is older
than `max_wait` sooner or later, although the scan holds the lock now and then).
Nothing is assumed of callers: they need not submit, cancel, or close, and
deadlines need not pass. `EveryRequestAnswered` is about runs in which the worker
lives; that it may die is a finding. For the stream, weak fairness of the drain
thread (`DrainStep`): it is scheduled, it polls and never waits, and consumers return
or raise. Nothing is assumed of those who emit, register a consumer, or close; a
thread killed by its consumer, and a closed stream, owe nothing.

## 4. Findings

Each is a run TLC ends with a counterexample.

1. `batcher_worker_dies` (`adaptive_batcher.py:188`, also 121): the worker checks
   `done()` and then calls `set_exception`. A caller that cancels in between
   makes the call raise out of the except branch; the only worker thread ends and
   whatever is queued is never answered. Line 237 says "the worker finishes safely
   without affecting the caller".
2. `replicator_latest` (`replication.py:93`): a write that misses its quorum leaves
   its record on some replicas and does not advance `_revisions`. The next write
   takes the same revision; a replica that already has it ignores the new payload
   and counts as a success. A later read of all replicas can return the payload
   whose write failed. `tests/test_replication.py:29` says "reads_latest".
3. `household_double_booking` (`household.py:110`): `join()` replaces the offer of
   a member with a fresh one that is not busy. A donor that announces itself again
   while its memory is reserved is given to a second request. Lines 7-8 say "Busy
   donors refuse new work without replacing running requests".
4. `cache_owner_left` (`pod_cache.py:109`): an owner that finds its key in Redis
   returns before the `try` whose `finally` clause (141-144) takes the key out of
   `_inflight`. Once the entry is invalidated, evicted or expired, every later call
   of the key waits for an owner that has left. `research/GEN6-REDIS-GRPC-20260919.md:37`
   says the deadlock of this tier is fixed.
5. `task_graph_stalls` (`taskgraph.py:92`): a worker waits for its node's
   dependencies while it holds its place in the pool. With one worker and the graph
   [b after a, a], b waits for a, and a for the worker; the declared `timeout_s` is
   never read. Line 80 says `run()` "returns {node_id: TaskResult} for every node",
   lines 11-12 that per-node timeouts exist. `EnoughWorkersNeverStall` says when it
   cannot happen.
6. `ports_lost_update` (`symlink.py:85`): `update_value()` compares the revision with
   `expected_revision` before its transaction begins, and the UPDATE (line 88) has no
   condition on it. Two calls that expect the same revision both succeed, and one
   handle is lost. Line 78 says "Change the value handle at the current generation
   using CAS."
7. `search_unauthorized_hit` (`local_search.py:489`): a search takes its snapshot, then
   reads the namespace's revision, and files the keys its snapshot allows under that
   revision, without the lock. When an item is deleted in between, its key is filed
   under the revision of after the delete. Until the next write, every search with that
   filter and principal finds it allowed, also one that begins later and overlaps no
   write: the item's tombstone is a row of its snapshot, line 498 asks only whether the
   key is allowed, and the deleted item, its text included, is returned. The same goes
   for an item that was revoked or taken from its access list. Lines 549-551
   say "a query expression cannot re-authorize revoked or stale Pods".
8. `raft_votes_twice` (`research/raft_node_server.py:106`): the constructor hands the
   logged hard state to the node only when the log has entries. A node that voted
   before it had any is restarted at term 0 and votes for another candidate of the
   same term. Lines 189-190 say "persist the Ready (entries + hard state) before it is
   acknowledged and before its messages are released to peers".

**A disagreement without a run of its own.** The comment at `pod_cache.py:132-134` says
of a store into a full cache "If all entries are pinned we temporarily allow bounded
growth", and line 177 describes `pin_query` as "Warm and pin". The code does neither:
the entry just stored is not pinned yet, so that when all others are, it is the one
victim there is. It is evicted at once, the cache does not grow, and `pin_query` finds
no entry to pin and returns a result that stays neither warm nor pinned. `BoundedCache`,
a part of `CacheIsSound`, states what the code does, the bound with or without pins,
which is the opposite of what the comment announces.

**Behaviours the models contain and no text of the repository forbids**, so that no
property is stated, or a property excuses them.

- Task graph: a handler that raises a `BaseException` other than an `Exception` sets no
  done event, so that the nodes that depend on its own hold their workers for ever and
  `run()` does not come back to raise it, however many workers there are.
  `EnoughWorkersNeverStall` excuses a stand in which a waiting node depends on such a one.
- Batcher: an expired request behind a live head of its key is run; a cancellation
  during delivery gives batch mates `InvalidStateError`.
- Registry: a knowledge published with its own predecessor as parent is stale at once.
- Placement and leases: a node taken out with `set_health(False)` returns with its next
  heartbeat; a late `renew()` revives a lapsed lease nobody took.
- Replicator: a read that hears from too few replicas may bring back a deleted record;
  two coordinators over the same replicas use the same revisions for different payloads.
- Household and governor: requests that were pending or approved are forgotten by a
  restart; `choose()` can reject a call although a place it had passed became free.
- Cache: a hit in the shared tier adds an entry and evicts none, so that the cache
  outgrows `max_entries` until the next result of the backend is stored; a reader that
  is slow between reading the revision and dropping stale entries drops the entries
  and pins of the newer revision.
- Port plane: of two binds that race for one alias the later one takes it (INSERT OR
  REPLACE), although each had seen it free.
- Local search: `upsert` begins an item's revision at 1 again, so an `expected_revision`
  may match an item that was replaced since; `reembed_namespace()` that
  meets a wrong dimension leaves the rows it had written; an invalidation that raises
  leaves pins of what was there before.
- Storage: a `get` may put back what a put replaced between its two reads, until the
  entry expires; a put with `l1=False` leaves an older value in Redis (`raced`).
- Snapshots: after as many interrupted writes as files are kept, `compact()` may remove
  the file `LATEST` names; the same can follow when a write repeats its revision.
  A Ready whose append failed stays pending and blocks the proposals after it.
- Raft peer: `load()` keeps entries a new leader cut off behind the shorter log; a torn
  last line makes it raise, so that the node does not come back; an `OSError` of the
  append ends the tick thread. Outside of the model: `--bootstrap-from` is not atomic,
  and `lib.rs` drops `light.committed_entries()`.
- Transport: a call whose clock stands at its deadline from the loop's check to the
  answer gets an ok without a payload; a handler runs on past the deadline.
- Router: exceptions that are not retried are counted nowhere.
- Dream cycle: cycles that overlap exceed the quota; a refused lease leaves no event.
- Raft transport: frames of one client overtake each other over two connections; a
  connection that is being read when `close()` is called hands over one more frame; a
  frame that was sent may be lost with its connection, and nobody is told.
- Neural symlinks: `attach` may write an adapter of an older identity into a newer row,
  so that a valid adapter there is lost, and the link does not resolve until the next
  training.
- Mesh presence: a heartbeat between its check of the event and its announcement may
  speak after `close()`.

## 5. Theorems

Proved for every value of the constants that meets the module's named assumption.

**Registry** (`RegistryProofs`; `RegistryAssumption`).
The walks are least closed sets: a walk contains its start, is closed under its
edges, and is inside every closed set that contains its start.
`RegistryTypeOK`, and `RevocationIsTransitive`: `Spec => []RevocationReachesDescendants`.
The property speaks of whole ancestries and is not inductive by itself in a form
the provers can use; the invariant is `TypeOK` and `RevokedEdges`: a child of a
revoked row is revoked. New rows keep it because publish, artifact and commit only
accept parents whose whole ancestry is usable, and a walk contains its start;
revoke keeps it because the set of descendants is closed. From edges to
ancestries: the rows with a revoked ancestor are inside the closed set of revoked
rows, by leastness.
`CommitBarrierHolds` and `EvidenceCoheres`: `Spec => []CommitBarrier` and
`Spec => []EvidenceIsCoherent`. Both speak of what stood above a row when it was
written, so the proof rests on ancestries never changing once a row exists
(`Growth`). The invariant, `BInv`, adds that a knowledge which is its key's head has
the head's generation (`KeysOK`), and that the log lies in the past: no time stamp is
ahead of the clock, what it says was revoked still is, and no publication in it is
newer than the head of its key (`LogOK`). A commit is only made of parents whose
ancestry is usable, hence unrevoked, in time and at the heads, so no event of the log
so far has withdrawn any of it. Two usable knowledge of one key are the same row, so
a new artifact cannot mix generations.
`LogTellsTheState`: `Spec => []LogTellsState`. Revoked rows come out of the log as the
union of closures it names, and generations and heads by its last publication of each
key. The log only grows at its end, so every part of the property splits into the event
a step appends and the log before it; the invariant of the barrier is all that is needed
besides.
`RegistryImplementsBarrier`: `Spec => ImplementsBarrier`, the refinement. The mapping
takes a row's parents for an item's dependencies, the rows with a revoked or replaced
row in their ancestry for the items that no longer count, and the commits of the log
for the receipts. Origin, publish and artifact map to `Derive`, or to a stutter when
the row exists; commit to `Acknowledge`; revoke to `Retire`; snapshots and time to a
stutter. The one case that needs a new invariant is publish, which moves a head: an
old row that became the head again would make what rests on it count again. No row is
of a later generation than its head (`HeadsAreLatest`), and the generation is part of
what is hashed, so the row that publish adds is new.

**Leader** (`ClusterProofs`; `LeaderAssumption`). `LeaderTypeOK`, `LeasesExclude`,
`FencesExclude`, `LeasesAreKept`, `FencingIsFinal`. The invariant,
`LeaderInv`, adds that the lease is never longer than `LeaseLen`, that no client's
copy is newer than the lease in fence or expiry (`CopiesAreOlder`), that a client
who may still trust its copy has its name on the lease (`TrustedIsHolder`), and
that no two clients were given the same fence (`FencesDiffer`).

**Replicator** (`ClusterProofs`; `ReplicatorAssumption`). `ReplicatorTypeOK`,
`AcksAreDurable`, `ReadsAreRecent`, `RevisionsAreMonotonic`. The invariant adds
that each successful put has landed (`PutsLanded`) and that a read has met, among
the replicas it heard from, the ones of every quorum that acknowledged before it
began (`ReadMeetsQuorum`); rows only grow in revision, so a quorum that once held
a revision holds it or a newer one. That it holds the record as well, if the record's
write was the first of its revision, needs two facts more: the replicas have only
revisions that some write was begun with (`RowsWereBegun`), so that a new one is on none
of them, and until the write ends, the rows of that revision can only be its own
(`FirstIsAlone`); later writes of it change no row. Quorums meet by counting (`QuorumsMeet`,
over the library's facts on finite sets).

**Household** (`HouseholdProofs`; `HouseholdAssumption`). `HouseholdTypeOK`,
`BusyDonorsAreReleasable`, `RestartsLoseNoReservation`, which is `Spec => RestoreIsExact`,
and `MemoryIsHeldWithConsent`: `Spec => []ReservedWithConsent`. The first rests on
`HouseholdInv`: events, logged or not, are of requests that were started and name
their plan, and consent is complete from "approved" on. The second adds
`RestoreInv`: the reservations are those of the started events, logged or waiting,
that no released event follows (`LogTells`), what waits is of this process
(`UnloggedAreCurrent`), and what is owed after a crash is what the log tells
(`OwedIsLogged`). Consent has two halves. That a donor of a plan had agreed follows
from where plans come from: they are made of the donors of an approved request, in
`start()` or in the log. That a plan takes no more than was offered is about sums, and
both the planning of the segments and the sum over a plan are folds of a sequence. The
installed provers cannot apply an induction theorem to a predicate, but they can find
a least number: `TablesExist` builds, for a fold, the table of its intermediate
results up to a position, by contradiction at the least position that has none, and
`UsedIsRun` and `PlanFits` read sum and plan off such tables. `PlansFit` says of
everything that may bring a plan into force, reservations, events and what waits to be
logged, that it fits the offers.

**Placement** (`ClusterProofs`; `PlacementAssumption`: finitely many nodes, numbered,
whose loads are numbers). `DriverTypeOK`, `RegionsArePlacedSoundly`, `PassesHeal`,
`RegionsStayPlaced`, which is `Spec => PlacementsAreKept`. Most of it is about one
operator: `ChosenIsSound` says of `Choose` that it returns as many different candidates
as it is asked for, the first of which is least loaded, in as many zones as they and
the number allow. It rests on the sorted order being there at all (`OrderExists`, by
the least size of a set that has none), and on counting the zones of the first of each
zone and of the rest. The invariant, `DriverInv`, adds
that what a pass takes for live includes all that is live now: the pass holds the lock,
so while it works nodes only time out, and they stay known.

**Governor, executors** (`WorkProofs`; `GovernorAssumption`: no client is of two
kinds, and amounts and budgets are natural numbers). `GovernorTypeOK`, and `BudgetsAreKept`:
`Spec => []BudgetIsKept`. `used` is a number the code adds to and takes from at seven
places, and the property says it is the sum over what is held. A sum over a finite set
changes by the amount of the one client that comes or goes, and by nothing if none
does; the invariant says besides that finitely many clients hold anything, and each
one place, so that nothing is given back twice.

**Task graph** (`TaskGraphProofs`; `TaskGraphAssumption`). `GraphTypeOK`,
`HandlersSeeFinalInputs` and `PoolsDoNotStall`. The invariant, `GraphInv`, adds
that the graph stays acyclic, that nodes are taken in the order given
(`TakenInOrder`) and that a handler is only called, and a node only done, when the
dependencies are done (`StartedIsReady`). Suppose the pool stands still before
the graph is done. A node in the queue means that every worker is busy, so in any
case some node is held. The graph being acyclic, some held node waits for no held
node; unless it waits for one whose handler escaped, which the property excuses, it
waits for one in the queue. That one comes after all held nodes: it is given
too late, hence among the first `max_parallel`; but then fewer than `max_parallel`
nodes come before it, and they cannot keep every worker busy.

**Transport** (`WorkProofs`; `TransportAssumption`). `TransportTellsTheTruth`,
which is `Spec => []TransportIsHonest`, for every set of calls and every assignment of
ids. That receipts tell outcomes is inductive with the types: a call in flight holds its
id, so no other call in flight has it, and closing one receipt touches no other. That
an ok was answered also needs how a call comes to answer (`AnswersAreEarned`: with a
payload, or past the first reading of its deadline) and that one whose outcome is
decided no longer looks at the clock (`OutcomesAreLate`).

**Mesh** (`WorkProofs`; `MeshAssumption`). `MeshHopsAreBounded`, which is
`Spec => []HopsAreBounded`, for every set of endpoints, any budget and deadline and
whatever the broker does. An endpoint sees only the envelope, and the property is about
the route, which is history: the invariant says what the envelope remembers of the
route (`IsCopyOf`): the budget it was published with less one for each pod on the
route, these pods among the visited ones, and the time and deadline unchanged.
`OfflineIsTheLastWord`: `PresenceSpec => []PresenceEndsOffline`, by an invariant over the
places of `close()` and of the heartbeat thread: once the last word is said, the event
is set, so that only a heartbeat that was past its check, which the property excuses,
can speak after it.

**Batcher** (`LiveProofs`; `BatcherAssumption`). `BatcherTypeOK`, and
`BatcherAccounts`: `Spec => []RequestsAreAccounted`. The counter is the number of queued
requests only as long as no request is queued twice and none outside of its key's
queue; that is what the invariant, `BatcherInv`, says of the queues (`Filed`). It also
says how far the worker is: a batch exists only between `_select` and the end of its
delivery, and the futures before the place of delivery are closed (`WorkerInv`), so that
the worker can drop the batch without dropping an open request. That a caller cancels
at any moment costs nothing: no step but `submit` opens a future (`Closes`).

**Stream** (`LiveProofs`; `StreamAssumption`). `StreamTypeOK`, and
`DrainsTellTheTruth`: `Spec => []DrainedIsDelivered`. A `drain()` looks at an empty
deque and a counter, and the property is about events. The invariant, `StreamInv`,
connects them: the queue holds the events accepted last, in order (`QueueIsLast`), and
one that left it was handled or is in flight (`PoppedIsHandled`).

**Pod cache** (`CacheProofs`; `CacheAssumption`). `CacheTypeOK`, and
`CacheKeepsItsPromises`: `Spec => []CacheIsSound`. A call's result may come from an entry
or from the shared tier, written by another call, so `FreshInv` says of both that a result
is no older than the revision of its key, and of a call that its key is no older than its
beginning. `SingleFlight` needs that an owner's key is
in flight as long as it works, and that without a shared tier nothing else is in flight
(`FlightInv`); the bound on the entries needs that they are finitely many.

**Port plane, reflex channel** (`DataProofs`; `PortAssumption`: finitely many keys and
invocations, since slots and calls are counted). `PlaneTypeOK`, and `PortsStaySound`:
`Spec => []PortsAreSound`. A new port takes the slot after the last one, and the
decision to make one was taken in an earlier query; slots stay dense because a row that
was read never disappears (`RowsStay`) and a second INSERT of a key raises. The counters
are the invocations beyond the step that counts them (`CountersCount`), which is
stronger than the property: that one only bounds their difference.

**Local search** (`DataProofs`; `SearchAssumption`: the name that means "no branch" is
none). `SearchTypeOK`, and `BranchesStayApart`: `Spec => []BranchesHold`. A branch's row
is the one of its closest level, a minimum over its chain, so that the proof needs no
induction over branches. Isolation follows from every row naming the branch it was
written through (`ItemsOwn`), and from pins having been views (`PinsIsolated`). That pins
are current is not inductive, because a write commits before it clears them: `PinsFollow`
says that a pin is what the rows say or the write that made it old, which holds the lock,
is about to clear it. A new branch is no exception: it is not pinned, as only branches
that exist are.

**Storage** (`DataProofs`; `StorageAssumption`: what opts out is among the puts, and a
put is neither of the two values that stand for none and for a row from before the
column). `StorageTypeOK`, and `TiersStayInAgreement`: `Spec => []TiersAgree`. A put first
decides about Redis and then writes the row, and a get may carry what it found in the
row back to Redis much later. The invariant, `StorageInv`, says of each place a value can
be in (Redis, the row, a get on its way to warm Redis) that it did not opt out
(`ColdIsKept`), and that it was not replaced by a put that was done before the reader began
(`RowIsLatest`, `L1IsLatest`, `ReadsAreRegular`), the latter only as long as Redis was not
left or given an older value (the history variable `raced`).

**Symlinks** (`DataProofs`; no assumption). `LinkTypeOK`, and `LinksStayCurrent`:
`Spec => LinksAreCurrent`, an action property. The trouble is `attach`: the text it checks
and the row it takes the identity from are read in different queries, and another call
of `register` may replace the entry in between. The invariant, `LinkInv`, shows why that is
harmless: identities are numbered, a number is written into the entry once, by the call
that published it (`RegistersKnow`, `Settled`), so that an entry with the identity a
training read has that identity's cluster, and an entry with another will never have it
again (`TrainingsFit`). Hence an adapter that fits the entry's identity was trained on its
cluster (`Answers`); and what `resolve` compared in its first step still holds in its last
if the generation is the latest (`ResolvesCompared`).

**Router** (`WorkProofs`; `RouterAssumption`: at least one replica and one attempt, as
the constructor demands, and finitely many calls). `RouterSharesTheLoad`:
`Spec => []ReplicasTakeTurns`. That no two replicas differ by more than one is not
inductive: it does not say who comes next. `TakenInTurn` does: every replica was asked
first in the same number of rounds, and those before the cursor once more. For
`RouterTypeOK` the invariant adds that a call in progress works its way through the
replicas in turn and asks each once (`TriesInTurn`), and that no more calls were served,
failed or left open than a replica was asked (`AnswersAreAsked`).

**Dream cycle** (`WorkProofs`; `DreamAssumption`: finitely many cycles, and a quota, a
window and a horizon that are natural numbers). `DreamTypeOK`, with the lease and the
clock (`LeaseAndClock`), and `QuotaBoundsWork`: `Spec => []WorkIsCounted`. The quota
bounds work by the time it began, and what is counted are records by the time they were
written, after it. So the invariant, `CycleInv`, says that a cycle's record is never older
than its work (`RecordsFollow`); that, as long as cycles did not overlap, were not killed
and could write, one is under way at most, and the room it found when it was admitted is
still there (`OneByOne`); and bounds the cycles at work for every reading of the clock
(`QuotaIsKept`). Beginning to work adds one to all windows that reach into the future,
and the others in them have left their records in the present one (`RoomForOne`).

**Raft peer** (`ClusterProofs`; `RaftAssumption`). `RaftTypeOK`, and
`RaftKeepsPromises`: `Spec => []PromisesSurvive`. The promises were made by the node that
was killed, and what comes back is what `load()` folds out of the log file. The
invariant, `RaftInv`, compares the two at each place of `emit()`: what was already
written of the log and of the hard state (`LogIsLogged`, `HardIsLogged`), that the folding
never leaves a gap (`LoadFindsALog`), that what is owed lies before the entries that wait
to be written (`OwedIsLogged`), and that the hard state binds every vote sent with
entries in the log (`VotesBind`). The votes sent without any are finding 8.

**Snapshots** (`ClusterProofs`; `SnapshotAssumption`: at least one file is kept, as
`compact` demands). `SnapshotTypeOK`, and `CrashesLoseNothing`:
`Spec => []SnapshotsAndLogSurvive`. `compact` keeps the newest files and never reads
`LATEST`, so the proof counts: only a write in progress and those that were interrupted
leave a file ahead of the one `LATEST` names, one each (`FewAreAhead`). With fewer of
these than files kept, the named file is among the newest (`LatestIsKept`). That `LATEST`
is no older than what returned holds after any number of deaths: revisions go up, and a
rename only ever puts the revision last begun (`WritesReturnNamed`).

**Raft transport** (`ClusterProofs`; `FrameAssumption`). `FrameTypeOK`, and
`FramesAreHandedOnce`: `Spec => []FramesArriveOnce`. The sender repeats a frame only if
no write of it was completed; so no two streams hold the same whole frame
(`StreamsApart`), a stream's frames are in the order of sending (`StreamsInOrder`), what is
in a stream was sent, but for a part of a frame at its end (`StreamsHoldSent`), and what
was handed over is in no stream any more (`HandedFirst`). A thread that handed over a
frame after `close()` looks at `_stop` next (`LateIsLast`).

**The runs** (`DataProofs`, `ClusterProofs`, `WorkProofs`, `LiveProofs`). `DataTypeOK`,
`ClusterTypeOK`, `WorkTypeOK` and `LiveTypeOK` are `MCSpec => []TypesOK`, and
`CommitsStayInTime` is `MCSpec => []CommitsAreInTime`, for every value of the run's
constants. A behaviour of the run is one of each of its components: a step of another
component leaves this one's variables alone, hence is a stutter of it (`EachService`,
`EachPart`, `EachComponent`). The registry in time and the caches are instances of
modules whose theorems are proved elsewhere (`RegistryProofs`, `CacheProofs`): the
constants of these instances are parameters of the run, which assumes of them what these
modules do (`TimedAssumption`, `CallsAssumption`), and the run's instance of the component
means the same as the one the theorems are about (the lemmas named `Same...`). Of the
mesh, a behaviour is either one of a copy or one of the presence record, and each half
keeps the types of the other.

**Only model-checked.** Liveness (batcher, cache, stream), which is beyond the prover;
every other property of the passing runs is stated by a theorem. The provers take the standard
library's `SortSeq` and `SelectSeq` for unknowns, so that `Placement` defines its order
itself.

## 6. Not modelled, and why

- `mesh_cache.py`: a local dictionary filled by announcements over the mesh; what can
  go wrong between pods is in `Mesh`.
- `pod_contract.py`, `pod_streams.py`: `LifecycleGate` and `DuplexSession` are objects
  of one caller without a protocol between threads. Two things are worth knowing:
  `interrupt()` and `commit_turn()` change the session before the event they emit may
  raise; and `PodLink.next_hop` takes one from the hop budget and adds one to `visited`,
  which `validate()` compares, so that a link goes half as far as its budget says.
- `pod_protocol.py` beyond the transport, `pod_socket.py`, `native_comm.py`: parsing,
  validation and socket I/O. A DIAL that fails keeps the old socket, and
  `record_event` is outside of a transaction.
- Of the raft peer, whose consensus algorithm is a library, elections, commit indices, the control port and
  `--bootstrap-from` are left out.
- `storage.py`: documents, traces and the evolution of the schema are single calls of
  LanceDB; `SessionAffinity` is one dictionary.
- `model_pod.py`, `pod_types.py`, `pod_builder.py`, `pod_taxonomy.py`,
  `pod_profiles.py`, `execution_manifest.py`: immutable records, hashes, validation.
- Models, routing and semantics (`model.py`, `routing.py`, `semantics.py`,
  `dragonfly.py`, ...): embeddings, classifiers and numerical mechanisms.
- Search agents and memory: sequential episodes driven by scores.
  `discovery_tree` of the recursive memory follows parents without a check for cycles.
- `postgres_store.py`: SQL over a connection; its conditional upsert is in
  `QuorumReplicator`.
- `architecture.py`, `fault_injection.py`: tools that inspect or disturb a deployment.
- `research/` and `experiments/`: most of the repository's lines are benchmark,
  training and verification scripts that drive the components above from one thread,
  and compute numbers. There is no state machine in them beyond what is modelled.
- Within the modelled components: statistics, telemetry, calibrations, the token
  cache, artifact file hashes, digests and latencies.

## 7. What is left

1. Larger compositions: the dream cycle over `Registry`'s log, the transport in front of
   `ResourceGovernor`'s handlers.
2. `SessionAffinity` of the storage and the sessions of `pod_streams.py`, once callers
   share them between threads.
