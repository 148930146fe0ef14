-------------------------- MODULE ResourceGovernor --------------------------
(***************************************************************************)
(* neural_pods/resource_runtime.py and pod_executor.py: one budget of      *)
(* vram, ram and disk, and everybody who draws on it: handlers bound to a  *)
(* lease per call, resident Pod generations, and the executors of a        *)
(* governed pool.  A handler walks the tiers place by place, taking the    *)
(* governor's lock for each; every other operation is one critical section.*)
(*                                                                         *)
(* A place whose capacity was not measured has no entry in PlaceBudget and *)
(* is never granted.  Telemetry and the request tracker are left out.      *)
(***************************************************************************)
EXTENDS GovernorState

vars == <<used, residencies, trying, held, pooled, used_bytes, started>>

Idle   == 0
Nobody == [generation |-> Nowhere, place |-> Nowhere]
Residency == [generation : Generation, place : Place]

\* The fallback order of each preferred tier ends with disk.
First(who) == CASE Preferred[who] = "vram" -> 1
                [] Preferred[who] = "ram"  -> Len(Places) - 1
                [] Preferred[who] = "disk" -> Len(Places)

\* Seeded fault: the request itself is not counted.
NotFull(p, n) == p \in DOMAIN PlaceBudget /\ used[p] <= PlaceBudget[p]

HasRoom(p, n) == p \in DOMAIN PlaceBudget /\ used[p] + n <= PlaceBudget[p]

Init ==
    /\ used = [p \in Place |-> 0]
    /\ residencies = [q \in Resident |-> Nobody]
    /\ trying = [h \in Handler |-> Idle]
    /\ held = [h \in Handler |-> Nowhere]
    /\ pooled = {} /\ used_bytes = 0 /\ started = {}

-----------------------------------------------------------------------------
(* ResourceBoundHandler: choose, call, release. *)

CallHandler(h) ==
    /\ trying[h] = Idle /\ held[h] = Nowhere
    /\ trying' = [trying EXCEPT ![h] = First(h)]
    /\ UNCHANGED <<used, residencies, held, pooled, used_bytes, started>>

\* One try_acquire() of choose(); after the last place the call is rejected.
TryAcquire(h) ==
    /\ trying[h] # Idle
    /\ LET p == Places[trying[h]] IN
       IF HasRoom(p, Amount[h])
       THEN /\ used' = [used EXCEPT ![p] = @ + Amount[h]]
            /\ held' = [held EXCEPT ![h] = p]
            /\ trying' = [trying EXCEPT ![h] = Idle]
       ELSE /\ trying' = [trying EXCEPT ![h] = IF @ = Len(Places) THEN Idle ELSE @ + 1]
            /\ UNCHANGED <<used, held>>
    /\ UNCHANGED <<residencies, pooled, used_bytes, started>>

\* The handler returned or raised.
Finish(h) ==
    /\ held[h] # Nowhere
    /\ used' = [used EXCEPT ![held[h]] = @ - Amount[h]]
    /\ held' = [held EXCEPT ![h] = Nowhere]
    /\ UNCHANGED <<residencies, trying, pooled, used_bytes, started>>

-----------------------------------------------------------------------------
(* Residencies. *)

\* A resident Pod is returned as it is, another generation refused.
Activate(q, g) ==
    /\ residencies[q] = Nobody
    /\ \E i \in First(q)..Len(Places) :
         /\ HasRoom(Places[i], Amount[q])
         /\ \A j \in First(q)..i - 1 : ~HasRoom(Places[j], Amount[q])
         /\ used' = [used EXCEPT ![Places[i]] = @ + Amount[q]]
         /\ residencies' = [residencies EXCEPT ![q] = [generation |-> g, place |-> Places[i]]]
    /\ UNCHANGED <<trying, held, pooled, used_bytes, started>>

\* By the resident generation, or by a caller that names none.
Deactivate(q) ==
    /\ residencies[q] # Nobody
    /\ used' = [used EXCEPT ![residencies[q].place] = @ - Amount[q]]
    /\ residencies' = [residencies EXCEPT ![q] = Nobody]
    /\ UNCHANGED <<trying, held, pooled, used_bytes, started>>

-----------------------------------------------------------------------------
(* GovernedExecutorPool over the governor. *)

PoolActivate(x) ==
    /\ x \notin pooled
    /\ HasRoom("ram", Amount[x])
    /\ used' = [used EXCEPT !["ram"] = @ + Amount[x]]
    /\ used_bytes' = used_bytes + Amount[x]
    /\ pooled' = pooled \cup {x}
    /\ started' = started \cup {x}
    /\ UNCHANGED <<residencies, trying, held>>

\* PodExecutor.release(), called past the pool.
StopExecutor(x) ==
    /\ x \in started
    /\ started' = started \ {x}
    /\ UNCHANGED <<used, residencies, trying, held, pooled, used_bytes>>

PoolRelease(x) ==
    /\ x \in pooled
    /\ used' = [used EXCEPT !["ram"] = @ - Amount[x]]
    /\ used_bytes' = used_bytes - Amount[x]
    /\ pooled' = pooled \ {x}
    /\ started' = started \ {x}
    /\ UNCHANGED <<residencies, trying, held>>

Next ==
    \/ \E h \in Handler : CallHandler(h) \/ TryAcquire(h) \/ Finish(h)
    \/ \E q \in Resident : Deactivate(q) \/ \E g \in Generation : Activate(q, g)
    \/ \E x \in Executor : PoolActivate(x) \/ StopExecutor(x) \/ PoolRelease(x)

Spec == Init /\ [][Next]_vars
-----------------------------------------------------------------------------
TypeOK ==
    /\ \A p \in Place : used[p] \in Nat
    /\ residencies \in [Resident -> Residency \cup {Nobody}]
    /\ trying \in [Handler -> 0..Len(Places)]
    /\ held \in [Handler -> Place \cup {Nowhere}]
    /\ pooled \subseteq Executor /\ started \subseteq pooled
    /\ used_bytes \in Nat
=============================================================================
