------------------------------ MODULE PortPlane ------------------------------
(***************************************************************************)
(* neural_pods/symlink.py, TemporalPortPlane, and neural_pods/reflex.py:   *)
(* ports carry a value handle for a knowledge key, aliases name ports, and *)
(* the reflex channel dispatches to the handle an alias resolves to.       *)
(*                                                                         *)
(* Every query of the registry's connection is one step; a transaction is  *)
(* one step.  bind() and update_value() read the row, the revision and the *)
(* alias before their transaction begins.  head() and the snapshot() that  *)
(* validates it are one step: a head replaced in between makes snapshot()  *)
(* raise.  A call that raises changes nothing.  The registry is cut down   *)
(* to one head per key and to revocation (see Registry).                   *)
(***************************************************************************)
EXTENDS PortState, FiniteSetsExt

VARIABLE revoked  \* the heads that were revoked

registry == <<head, revoked>>
plane    == <<ports, aliases>>
channel  == <<arms, misses, hits, failovers>>
vars == <<registry, plane, calls, channel>>

Idle  == [at |-> "idle", key |-> None, alias |-> None, expected |-> 0, generation |-> 0, row |-> NoRow]
AtRest == [at |-> "idle", key |-> None, handle |-> None]

Authorized(k) == head[k] > 0 /\ <<k, head[k]>> \notin revoked

Init ==
    /\ head = [k \in Knowledge |-> 0]
    /\ revoked = {}
    /\ ports = [k \in Knowledge |-> NoRow]
    /\ aliases = [a \in Alias |-> None]
    /\ calls = [c \in Call |-> Idle]
    /\ arms = [i \in Invocation |-> AtRest]
    /\ misses = 0 /\ hits = 0 /\ failovers = 0

-----------------------------------------------------------------------------
(* The registry. *)

Publish(k) ==
    /\ head[k] < MaxGen
    /\ head' = [head EXCEPT ![k] = @ + 1]
    /\ UNCHANGED <<revoked, plane, calls, channel>>

Revoke(k) ==
    /\ Authorized(k)
    /\ revoked' = revoked \cup {<<k, head[k]>>}
    /\ UNCHANGED <<head, plane, calls, channel>>

-----------------------------------------------------------------------------
(* bind and update_value: the handle a call writes is its own name. *)

Moves(c, at) == calls' = [calls EXCEPT ![c].at = at]

BeginBind(c) ==
    /\ calls[c].at = "idle"
    /\ \E k \in Knowledge, a \in Alias :
         /\ Authorized(k)
         /\ calls' = [calls EXCEPT ![c] = [Idle EXCEPT !.at = "row", !.key = k, !.alias = a, !.generation = head[k]]]
    /\ UNCHANGED <<registry, plane, channel>>

\* expected = 0 stands for expected_revision=None; a caller knows a revision the
\* port has or had.
BeginUpdate(c) ==
    /\ calls[c].at = "idle"
    /\ \E k \in Knowledge : \E e \in 0..ports[k].revision :
         /\ Authorized(k)
         /\ calls' = [calls EXCEPT ![c] = [Idle EXCEPT !.at = "row", !.key = k, !.expected = e, !.generation = head[k]]]
    /\ UNCHANGED <<registry, plane, channel>>

ReadRow(c) ==
    /\ calls[c].at = "row"
    /\ LET row == ports[calls[c].key] IN
       IF calls[c].alias # None THEN calls' = [calls EXCEPT ![c].at = "alias", ![c].row = row]
       ELSE IF row = NoRow \/ calls[c].expected \notin {0, row.revision} THEN Moves(c, "raised")
       ELSE calls' = [calls EXCEPT ![c].at = "update", ![c].row = row]
    /\ UNCHANGED <<registry, plane, channel>>

CheckAlias(c) ==
    /\ calls[c].at = "alias"
    /\ Moves(c, IF aliases[calls[c].alias] \in {None, calls[c].key} THEN "bind" ELSE "raised")
    /\ UNCHANGED <<registry, plane, channel>>

\* The UPDATE of both: the slot is the table's, the revision the one that was read.
Overwrite(c, handle) ==
    [ports EXCEPT ![calls[c].key] = [slot       |-> @.slot,
                                     generation |-> calls[c].generation,
                                     handle     |-> handle,
                                     revision   |-> calls[c].row.revision + 1]]

NextSlot == Max({ports[k].slot : k \in Knowledge}) + 1

\* Seeded fault: the slot is computed from the row that was read.
BindStaleSlot(c) ==
    /\ calls[c].at = "bind"
    /\ ports' = [ports EXCEPT ![calls[c].key] = [slot |-> calls[c].row.slot + 1, generation |-> calls[c].generation,
                                                 handle |-> c, revision |-> 1]]
    /\ aliases' = [aliases EXCEPT ![calls[c].alias] = calls[c].key]
    /\ Moves(c, "done")
    /\ UNCHANGED <<registry, channel>>

\* With a handle of its own or without one, which keeps the handle that was read.  An
\* INSERT of a key that has a row by now violates the primary key and is rolled back.
Bind(c) ==
    /\ calls[c].at = "bind"
    /\ IF calls[c].row = NoRow /\ ports[calls[c].key] # NoRow
       THEN Moves(c, "raised") /\ UNCHANGED plane
       ELSE /\ \E handle \in {c, calls[c].row.handle} :
                 ports' = IF calls[c].row # NoRow THEN Overwrite(c, handle)
                          ELSE [ports EXCEPT ![calls[c].key] = [slot |-> NextSlot, generation |-> calls[c].generation,
                                                                handle |-> handle, revision |-> 1]]
            /\ aliases' = [aliases EXCEPT ![calls[c].alias] = calls[c].key]
            /\ Moves(c, "done")
    /\ UNCHANGED <<registry, channel>>

Update(c) ==
    /\ calls[c].at = "update"
    /\ ports' = Overwrite(c, c)
    /\ Moves(c, "done")
    /\ UNCHANGED <<registry, aliases, channel>>

-----------------------------------------------------------------------------
(* ReflexChannel.invoke over resolve(). *)

Arm(i, at) == arms' = [arms EXCEPT ![i].at = at]

Invoke(i) ==
    /\ arms[i].at = "idle"
    /\ \E a \in Alias :
         IF aliases[a] = None
         THEN Arm(i, "miss")
         ELSE arms' = [arms EXCEPT ![i] = [at |-> "authorize", key |-> aliases[a], handle |-> ports[aliases[a]].handle]]
    /\ UNCHANGED <<registry, plane, calls, misses, hits, failovers>>

\* Without an authorized head, without a handle, or over max_latency_s: a miss.
Authorize(i) ==
    /\ arms[i].at = "authorize"
    /\ \/ Authorized(arms[i].key) /\ arms[i].handle # None /\ Arm(i, "dispatch")
       \/ Arm(i, "miss")
    /\ UNCHANGED <<registry, plane, calls, misses, hits, failovers>>

Dispatch(i) ==
    /\ arms[i].at = "dispatch"
    /\ \/ Arm(i, "hit") /\ hits' = hits + 1
       \/ Arm(i, "miss") /\ UNCHANGED hits
    /\ UNCHANGED <<registry, plane, calls, misses, failovers>>

Miss(i) ==
    /\ arms[i].at = "miss"
    /\ Arm(i, "default")
    /\ misses' = misses + 1
    /\ UNCHANGED <<registry, plane, calls, hits, failovers>>

\* The default pod answers, or raises (or there is none).
Failover(i) ==
    /\ arms[i].at = "default"
    /\ \/ Arm(i, "failover") /\ failovers' = failovers + 1
       \/ Arm(i, "raised") /\ UNCHANGED failovers
    /\ UNCHANGED <<registry, plane, calls, misses, hits>>

Next ==
    \/ \E k \in Knowledge : Publish(k) \/ Revoke(k)
    \/ \E c \in Call : BeginBind(c) \/ BeginUpdate(c) \/ ReadRow(c) \/ CheckAlias(c) \/ Bind(c) \/ Update(c)
    \/ \E i \in Invocation : Invoke(i) \/ Authorize(i) \/ Dispatch(i) \/ Miss(i) \/ Failover(i)

Spec == Init /\ [][Next]_vars
-----------------------------------------------------------------------------
(* What ports and channel promise. *)

TypeOK ==
    /\ head \in [Knowledge -> 0..MaxGen]
    /\ revoked \subseteq Knowledge \X (1..MaxGen)
    /\ \A k \in Knowledge : ports[k].generation \in 0..head[k] /\ ports[k].handle \in Call \cup {None}
    /\ \A a \in Alias : aliases[a] \in Knowledge \cup {None}
    /\ \A c \in Call : calls[c].at \in {"idle", "row", "alias", "bind", "update", "done", "raised"}
    /\ \A i \in Invocation : arms[i].at \in {"idle", "authorize", "dispatch", "hit", "miss", "default", "failover", "raised"}
    /\ {misses, hits, failovers} \subseteq 0..Cardinality(Invocation)

\* update_value (line 78): "Change the value handle at the current generation using
\* CAS": of the calls that expect the same revision of a port, one succeeds.
CasLosesNoUpdate ==
    \A c, d \in Call :
        /\ c # d /\ calls[c].key = calls[d].key
        /\ calls[c].at = "done" /\ calls[d].at = "done"
        /\ calls[c].expected # 0
        => calls[c].expected # calls[d].expected

=============================================================================
