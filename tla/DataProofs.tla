------------------------------ MODULE DataProofs ------------------------------
(***************************************************************************)
(* What MCData checks beside the registry, for every value of the          *)
(* constants.                                                              *)
(*                                                                         *)
(* ports: slots, aliases and counters.  A call decides by a row it read    *)
(* before its transaction began.  That is harmless for slots because no    *)
(* row is ever deleted: a call that read one overwrites one, whatever it   *)
(* has become (RowsStay), and a call that read none inserts only if there  *)
(* is still none, with a slot computed then.  The counters are the         *)
(* invocations that got to each place, one by one (CountersCount).         *)
(*                                                                         *)
(* search: branches and pins.  A row names the branch it was written       *)
(* through (ItemsOwn), and a pin says what the rows say, unless a write of *)
(* its chain is about to clear it (PinsFollow).                            *)
(*                                                                         *)
(* storage: the two tiers.  What a get found is no older than what was     *)
(* there when it began, and what opted out never gets into the hot tier    *)
(* (ReadsAreRegular, ColdIsKept).                                          *)
(*                                                                         *)
(* links: register, attach and resolve.  An identity is written into the   *)
(* entry once, so a training that checked its text checked it for the      *)
(* identity it read, unless the entry has another by now (LinkIsCompiled,  *)
(* TrainingsFit).                                                          *)
(***************************************************************************)
EXTENDS MCData, RegistryProofs, SequencesExt, FiniteSetTheorems, NaturalsInduction, WellFoundedInduction, TLAPS

-----------------------------------------------------------------------------
(* ports *)

PortRow  == [slot : Nat, generation : Nat, handle : Call \cup {None}, revision : Nat]
Places   == {"idle", "row", "alias", "bind", "update", "done", "raised"}
Stations == {"idle", "authorize", "dispatch", "hit", "miss", "default", "failover", "raised"}

\* The rows, and what each call has read; an unused key or alias is None.
PlaneTypes ==
    /\ head \in [Knowledge -> 0..MaxGen]
    /\ withdrawn \subseteq Knowledge \X (1..MaxGen)
    /\ ports \in [Knowledge -> PortRow]
    /\ aliases \in [Alias -> Knowledge \cup {None}]
    /\ calls \in [Call -> [at : Places, key : Knowledge \cup {None}, alias : Alias \cup {None}, expected : Nat,
                           generation : Nat, row : PortRow]]

\* A port's generation was published.
GenerationsExist == \A k \in Knowledge : ports[k].generation <= head[k]

\* A call under way has a key and a generation of it; one that binds has an alias.
CallsKnowWhat ==
    \A c \in Call :
        /\ calls[c].at \in {"row", "alias", "bind", "update"} =>
             calls[c].key \in Knowledge /\ calls[c].generation <= head[calls[c].key]
        /\ calls[c].at \in {"alias", "bind"} => calls[c].alias \in Alias

\* The row a call read is still there, if not as it was.
RowsStay ==
    \A c \in Call :
        /\ calls[c].at \in {"alias", "bind", "update"} /\ calls[c].row # NoRow => ports[calls[c].key] # NoRow
        /\ calls[c].at = "update" => calls[c].row # NoRow

Bound     == {k \in Knowledge : ports[k] # NoRow}
At(where) == {i \in Invocation : arms[i].at \in where}

\* Each counter is the number of invocations beyond the step that counts.
CountersCount ==
    /\ arms \in [Invocation -> [at : Stations, key : Knowledge \cup {None}, handle : Call \cup {None}]]
    /\ hits = Cardinality(At({"hit"}))
    /\ misses = Cardinality(At({"default", "raised", "failover"}))
    /\ failovers = Cardinality(At({"failover"}))

PlaneInv == PlaneTypes /\ GenerationsExist /\ CallsKnowWhat /\ RowsStay /\ PortsAreWhole

PortInv == PlaneInv /\ CountersCount

-----------------------------------------------------------------------------
(* The counters. *)

LEMMA SomeInvocations ==
    ASSUME NEW where
    PROVE  /\ IsFiniteSet(At(where)) /\ Cardinality(At(where)) \in Nat
           /\ Cardinality(At(where)) <= Cardinality(Invocation) /\ Cardinality(Invocation) \in Nat
BY PortAssumption, FS_Subset, FS_CardinalityType DEF At

\* One invocation moves: a count changes when it enters the places counted.
LEMMA ArmMoves ==
    ASSUME NEW where, NEW i \in Invocation,
           \A j \in Invocation \ {i} : arms'[j] = arms[j]
    PROVE  /\ arms[i].at \notin where /\ arms'[i].at \in where => Cardinality(At(where)') = Cardinality(At(where)) + 1
           /\ (arms[i].at \in where <=> arms'[i].at \in where) => Cardinality(At(where)') = Cardinality(At(where))
<1>1. ASSUME arms[i].at \notin where, arms'[i].at \in where
      PROVE  Cardinality(At(where)') = Cardinality(At(where)) + 1
    <2>1. At(where)' = At(where) \cup {i} /\ i \notin At(where)
        BY <1>1 DEF At
    <2> QED
        BY <2>1, SomeInvocations, FS_AddElement
<1>2. ASSUME arms[i].at \in where <=> arms'[i].at \in where
      PROVE  At(where)' = At(where)
    BY <1>2 DEF At
<1> QED
    BY <1>1, <1>2

\* What the counters are made of is what they promise.
LEMMA CountersTell == CountersCount => MissesAreAccounted
<1> SUFFICES ASSUME CountersCount PROVE MissesAreAccounted
    OBVIOUS
<1> DEFINE open == At({"default", "raised"})
           over == At({"failover"})
<1>1. open \cup over = At({"default", "raised", "failover"}) /\ open \cap over = {}
    BY DEF At
<1>2. Cardinality(open \cup over) = Cardinality(open) + Cardinality(over) - Cardinality(open \cap over)
    BY SomeInvocations, FS_Union
<1>3. Cardinality(open \cap over) = 0
    BY <1>1, FS_EmptySet
<1>4. misses - failovers = Cardinality(open)
    BY <1>1, <1>2, <1>3, SomeInvocations DEF CountersCount
<1> QED
    BY <1>4 DEF CountersCount, MissesAreAccounted, At

LEMMA ChannelSteps ==
    ASSUME CountersCount, NEW i \in Invocation,
           PlaneTypes,
           Ports!Invoke(i) \/ Ports!Authorize(i) \/ Ports!Dispatch(i) \/ Ports!Miss(i) \/ Ports!Failover(i)
    PROVE  CountersCount' /\ UNCHANGED <<Ports!registry, Ports!plane, calls>>
<1>1. PICK at \in Stations, key \in Knowledge \cup {None}, handle \in Call \cup {None} :
           arms' = [arms EXCEPT ![i] = [at |-> at, key |-> key, handle |-> handle]]
    <2>1. arms[i] = [at |-> arms[i].at, key |-> arms[i].key, handle |-> arms[i].handle]
          /\ arms[i].key \in Knowledge \cup {None} /\ arms[i].handle \in Call \cup {None}
        BY DEF CountersCount
    <2>2. ASSUME NEW at \in Stations, Ports!Arm(i, at)
          PROVE  arms' = [arms EXCEPT ![i] = [at |-> at, key |-> arms[i].key, handle |-> arms[i].handle]]
        <3>1. [arms[i] EXCEPT !.at = at] = [at |-> at, key |-> arms[i].key, handle |-> arms[i].handle]
            BY <2>1
        <3>2. arms' = [arms EXCEPT ![i] = [arms[i] EXCEPT !.at = at]]
            BY <2>2 DEF Ports!Arm
        <3> QED
            BY <3>1, <3>2
    <2>3. CASE Ports!Invoke(i)
        <3>1. PICK a \in Alias :
                IF aliases[a] = None
                THEN Ports!Arm(i, "miss")
                ELSE arms' = [arms EXCEPT ![i] = [at |-> "authorize", key |-> aliases[a], handle |-> ports[aliases[a]].handle]]
            BY <2>3 DEF Ports!Invoke, NoRow, None, Ports!NoRow, Ports!None
        <3>2. CASE aliases[a] = None
            BY <3>1, <3>2, <2>1, <2>2 DEF Stations
        <3>3. CASE aliases[a] # None
            <4>1. aliases[a] \in Knowledge /\ ports[aliases[a]].handle \in Call \cup {None}
                BY <3>3 DEF PlaneTypes, PortRow
            <4> QED
                BY <3>1, <3>3, <4>1 DEF Stations
        <3> QED
            BY <3>2, <3>3
    <2>4. CASE Ports!Authorize(i) \/ Ports!Dispatch(i) \/ Ports!Miss(i) \/ Ports!Failover(i)
        <3>1. PICK at \in Stations : Ports!Arm(i, at)
            BY <2>4 DEF Ports!Authorize, Ports!Dispatch, Ports!Miss, Ports!Failover, Stations
        <3> QED
            BY <3>1, <2>1, <2>2
    <2> QED
        BY <2>3, <2>4
<1>2. /\ \A j \in Invocation \ {i} : arms'[j] = arms[j]
      /\ arms' \in [Invocation -> [at : Stations, key : Knowledge \cup {None}, handle : Call \cup {None}]]
      /\ arms'[i].at = at
    BY <1>1 DEF CountersCount
<1>3. ASSUME NEW where
      PROVE  /\ arms[i].at \notin where /\ at \in where => Cardinality(At(where)') = Cardinality(At(where)) + 1
             /\ (arms[i].at \in where <=> at \in where) => Cardinality(At(where)') = Cardinality(At(where))
    BY <1>2, ArmMoves
<1>4. /\ \/ arms[i].at # "hit" /\ at # "hit" /\ UNCHANGED hits
         \/ arms[i].at # "hit" /\ at = "hit" /\ hits' = hits + 1
      /\ \/ arms[i].at \notin {"default", "raised", "failover"} /\ at \notin {"default", "raised", "failover"} /\ UNCHANGED misses
         \/ arms[i].at \in {"default", "raised", "failover"} /\ at \in {"default", "raised", "failover"} /\ UNCHANGED misses
         \/ arms[i].at \notin {"default", "raised", "failover"} /\ at \in {"default", "raised", "failover"} /\ misses' = misses + 1
      /\ \/ arms[i].at # "failover" /\ at # "failover" /\ UNCHANGED failovers
         \/ arms[i].at # "failover" /\ at = "failover" /\ failovers' = failovers + 1
    <2>1. CASE Ports!Invoke(i)
        BY <2>1, <1>2 DEF Ports!Invoke, Ports!Arm, CountersCount
    <2>2. CASE Ports!Authorize(i)
        BY <2>2, <1>2 DEF Ports!Authorize, Ports!Arm, CountersCount
    <2>3. CASE Ports!Dispatch(i)
        BY <2>3, <1>2 DEF Ports!Dispatch, Ports!Arm, CountersCount
    <2>4. CASE Ports!Miss(i)
        BY <2>4, <1>2 DEF Ports!Miss, Ports!Arm, CountersCount
    <2>5. CASE Ports!Failover(i)
        BY <2>5, <1>2 DEF Ports!Failover, Ports!Arm, CountersCount
    <2> QED
        BY <2>1, <2>2, <2>3, <2>4, <2>5
<1>5. hits' = Cardinality(At({"hit"})') /\ failovers' = Cardinality(At({"failover"})')
    BY <1>3, <1>4 DEF CountersCount
<1>6. misses' = Cardinality(At({"default", "raised", "failover"})')
    BY <1>3, <1>4 DEF CountersCount
<1>7. UNCHANGED <<Ports!registry, Ports!plane, calls>>
    BY DEF Ports!Invoke, Ports!Authorize, Ports!Dispatch, Ports!Miss, Ports!Failover
<1> QED
    BY <1>2, <1>5, <1>6, <1>7 DEF CountersCount

-----------------------------------------------------------------------------
(* The ports. *)

LEMMA GreatestNumber ==
    ASSUME NEW n \in Nat, NEW S, S = 1..n \/ S = 0..n, S # {}
    PROVE  Max(S) = n
<1>1. n \in S /\ \A x \in S : x <= n
    BY DEF Max
<1>2. \A y \in S : (\A x \in S : y >= x) => y = n
    BY <1>1
<1> QED
    BY <1>1, <1>2 DEF Max

\* The next slot is one more than there are ports, as long as a key is without one.
LEMMA NextSlotIsNew ==
    ASSUME PlaneTypes, PortsAreWhole, NEW k \in Knowledge, ports[k] = NoRow
    PROVE  Ports!NextSlot = Cardinality(Bound) + 1 /\ Cardinality(Bound) \in Nat
<1> DEFINE slots == {ports[l].slot : l \in Knowledge}
<1>1. IsFiniteSet(Bound) /\ Cardinality(Bound) \in Nat
    BY PortAssumption, FS_Subset, FS_CardinalityType DEF Bound
<1>2. {ports[l].slot : l \in Bound} = 1..Cardinality(Bound)
    BY DEF PortsAreWhole, Bound
<1>3. slots = {ports[l].slot : l \in Bound} \cup {0}
    BY DEF Bound, NoRow
<1>4. slots = 0..Cardinality(Bound)
    BY <1>1, <1>2, <1>3
<1>5. Max(slots) = Cardinality(Bound)
    <2> HIDE DEF slots
    <2>1. slots # {}
        BY <1>1, <1>4
    <2> QED
        BY <1>1, <1>4, <2>1, GreatestNumber
<1> QED
    BY <1>1, <1>5 DEF Ports!NextSlot, Max, Ports!Max

\* An overwritten row keeps its slot.
LEMMA RowOverwritten ==
    ASSUME PlaneTypes, PortsAreWhole, NEW k \in Knowledge, ports[k] # NoRow, NEW new \in PortRow,
           new.slot = ports[k].slot, new.revision # 0,
           ports' = [ports EXCEPT ![k] = new],
           \A a \in Alias : aliases'[a] \in {aliases[a], k}
    PROVE  PortsAreWhole'
<1>1. new # NoRow
    BY DEF NoRow
<1>2. ports' \in [Knowledge -> PortRow] /\ Bound' = Bound
    BY <1>1 DEF PlaneTypes, Bound
<1>3. \A l \in Knowledge : ports'[l].slot = ports[l].slot
    BY DEF PlaneTypes
<1>4. {ports'[l].slot : l \in Bound'} = {ports[l].slot : l \in Bound}
    BY <1>2, <1>3 DEF Bound
<1>5. \A a \in Alias : aliases'[a] # None => aliases'[a] \in Bound'
    BY <1>2 DEF PortsAreWhole, Bound
<1> QED
    BY <1>2, <1>4, <1>5 DEF PortsAreWhole, Bound

\* A new row takes the next slot.
LEMMA RowInserted ==
    ASSUME PlaneTypes, PortsAreWhole, NEW k \in Knowledge, ports[k] = NoRow, NEW new \in PortRow,
           new.slot = Ports!NextSlot,
           ports' = [ports EXCEPT ![k] = new],
           \A a \in Alias : aliases'[a] \in {aliases[a], k}
    PROVE  PortsAreWhole'
<1> DEFINE n == Cardinality(Bound)
<1>1. new.slot = n + 1 /\ n \in Nat /\ new # NoRow
    BY NextSlotIsNew DEF NoRow
<1>2. /\ ports' \in [Knowledge -> PortRow] /\ Bound' = Bound \cup {k} /\ k \notin Bound
      /\ \A l \in Bound : ports'[l].slot = ports[l].slot
      /\ ports'[k] = new
    BY <1>1 DEF PlaneTypes, Bound
<1>3. IsFiniteSet(Bound)
    BY PortAssumption, FS_Subset DEF Bound
<1>4. Cardinality(Bound') = n + 1
    BY <1>2, <1>3, FS_AddElement
<1>5. {ports[l].slot : l \in Bound} = 1..n
    BY DEF PortsAreWhole, Bound
<1>6. {ports'[l].slot : l \in Bound'} = {ports[l].slot : l \in Bound} \cup {n + 1}
    <2>1. PICK B : B = Bound'
        OBVIOUS
    <2>2. B = Bound \cup {k} /\ ports'[k].slot = n + 1
        BY <1>1, <1>2, <2>1
    <2>3. {ports'[l].slot : l \in B} = {ports[l].slot : l \in Bound} \cup {n + 1}
        BY <1>2, <2>2
    <2> QED
        BY <2>1, <2>3
<1>7. {ports'[l].slot : l \in Bound'} = 1..Cardinality(Bound')
    <2>1. 1..(n + 1) = 1..n \cup {n + 1}
        BY <1>1
    <2> QED
        BY <1>4, <1>5, <1>6, <2>1
<1>8. \A a \in Alias : aliases'[a] # None => aliases'[a] \in Bound'
    BY <1>2 DEF PortsAreWhole, Bound
<1> QED
    BY <1>7, <1>8 DEF PortsAreWhole, Bound

LEMMA InitPortInv == Ports!Init => PortInv
<1> SUFFICES ASSUME Ports!Init PROVE PortInv
    OBVIOUS
<1>1. PlaneTypes
    BY PortAssumption DEF Ports!Init, PlaneTypes, PortRow, NoRow, Ports!Idle, Places, None, Ports!NoRow, Ports!None
<1>2. GenerationsExist /\ CallsKnowWhat /\ RowsStay
    BY DEF Ports!Init, GenerationsExist, CallsKnowWhat, RowsStay, NoRow, Ports!Idle, Ports!NoRow, Ports!None, None
<1>3. PortsAreWhole
    <2>1. Bound = {}
        BY DEF Ports!Init, Bound, NoRow, None, Ports!NoRow, Ports!None
    <2>2. {ports[k].slot : k \in Bound} = 1..Cardinality(Bound)
        BY <2>1, FS_EmptySet
    <2> QED
        BY <2>2 DEF PortsAreWhole, Bound, Ports!Init, NoRow, None, Ports!NoRow, Ports!None
<1>4. CountersCount
    <2>1. At({"hit"}) = {} /\ At({"default", "raised", "failover"}) = {} /\ At({"failover"}) = {}
        BY DEF Ports!Init, At, Ports!AtRest
    <2> QED
        BY <2>1, FS_EmptySet DEF Ports!Init, CountersCount, Ports!AtRest, Stations, NoRow, None, Ports!NoRow, Ports!None
<1> QED
    BY <1>1, <1>2, <1>3, <1>4 DEF PortInv, PlaneInv

\* A step of the registry only raises heads and revokes the newest.
LEMMA RegistryStep ==
    ASSUME PlaneInv, NEW k \in Knowledge, Ports!Publish(k) \/ Ports!Revoke(k)
    PROVE  PlaneInv' /\ UNCHANGED Ports!channel
<1> USE PortAssumption
<1>1. /\ head' \in [Knowledge -> 0..MaxGen] /\ \A l \in Knowledge : head[l] <= head'[l]
      /\ withdrawn' \subseteq Knowledge \X (1..MaxGen)
      /\ UNCHANGED <<ports, aliases, calls, Ports!channel>>
    <2>1. CASE Ports!Publish(k)
        BY <2>1 DEF Ports!Publish, PlaneInv, PlaneTypes, Ports!plane
    <2>2. CASE Ports!Revoke(k)
        <3>1. head[k] \in 1..MaxGen
            BY <2>2 DEF Ports!Revoke, Ports!Authorized, PlaneInv, PlaneTypes
        <3> QED
            BY <2>2, <3>1 DEF Ports!Revoke, PlaneInv, PlaneTypes, Ports!plane
    <2> QED
        BY <2>1, <2>2
<1>2. PlaneTypes'
    BY <1>1 DEF PlaneInv, PlaneTypes
<1>3. GenerationsExist'
    <2>1. \A l \in Knowledge : ports[l].generation \in Nat /\ head[l] \in Nat /\ head'[l] \in Nat
        BY <1>1 DEF PlaneInv, PlaneTypes, PortRow
    <2> QED
        BY <1>1, <2>1 DEF PlaneInv, GenerationsExist
<1>4. CallsKnowWhat'
    <2>1. \A c \in Call : calls[c].generation \in Nat
        BY DEF PlaneInv, PlaneTypes
    <2>2. \A l \in Knowledge : head[l] \in Nat /\ head'[l] \in Nat
        BY <1>1 DEF PlaneInv, PlaneTypes
    <2> QED
        BY <1>1, <2>1, <2>2 DEF PlaneInv, CallsKnowWhat
<1>5. RowsStay' /\ PortsAreWhole'
    BY <1>1 DEF PlaneInv, RowsStay, PortsAreWhole
<1> QED
    BY <1>1, <1>2, <1>3, <1>4, <1>5 DEF PlaneInv

\* A step of one call that leaves the tables alone.
LEMMA CallMoves ==
    ASSUME PlaneInv, NEW c \in Call, UNCHANGED <<Ports!registry, Ports!plane>>,
           NEW call \in [at : Places, key : Knowledge \cup {None}, alias : Alias \cup {None}, expected : Nat,
                         generation : Nat, row : PortRow],
           calls' = [calls EXCEPT ![c] = call],
           call.at \in {"row", "alias", "bind", "update"} => call.key \in Knowledge /\ call.generation <= head[call.key],
           call.at \in {"alias", "bind"} => call.alias \in Alias,
           call.at \in {"alias", "bind", "update"} /\ call.row # NoRow => ports[call.key] # NoRow,
           call.at = "update" => call.row # NoRow
    PROVE  PlaneInv'
<1>1. UNCHANGED <<head, withdrawn, ports, aliases>>
    BY DEF Ports!registry, Ports!plane
<1>2. calls'[c] = call /\ \A d \in Call : d # c => calls'[d] = calls[d]
    BY DEF PlaneInv, PlaneTypes
<1>3. PlaneTypes'
    BY <1>1 DEF PlaneInv, PlaneTypes
<1>4. CallsKnowWhat'
    BY <1>1, <1>2 DEF PlaneInv, CallsKnowWhat
<1>5. RowsStay'
    BY <1>1, <1>2 DEF PlaneInv, RowsStay
<1>6. GenerationsExist' /\ PortsAreWhole'
    BY <1>1 DEF PlaneInv, GenerationsExist, PortsAreWhole
<1> QED
    BY <1>3, <1>4, <1>5, <1>6 DEF PlaneInv

\* Where a call is changes and nothing else of it.
LEMMA CallGoesOn ==
    ASSUME PlaneInv, NEW c \in Call, UNCHANGED <<Ports!registry, Ports!plane>>, NEW at \in Places, Ports!Moves(c, at),
           calls[c].at \in {"row", "alias", "bind", "update"},
           at \in {"alias", "bind"} => calls[c].at = "alias",
           at \notin {"row", "update"}
    PROVE  PlaneInv'
<1> DEFINE call == [calls[c] EXCEPT !.at = at]
<1>1. calls' = [calls EXCEPT ![c] = call]
    BY DEF Ports!Moves
<1>2. /\ call \in [at : Places, key : Knowledge \cup {None}, alias : Alias \cup {None}, expected : Nat,
                   generation : Nat, row : PortRow]
      /\ call.at = at /\ call.key = calls[c].key /\ call.generation = calls[c].generation
      /\ call.row = calls[c].row /\ call.alias = calls[c].alias
    BY DEF PlaneInv, PlaneTypes
<1> HIDE DEF call
<1>3. /\ call.at \in {"row", "alias", "bind", "update"} => call.key \in Knowledge /\ call.generation <= head[call.key]
      /\ call.at \in {"alias", "bind"} => call.alias \in Alias
      /\ call.at \in {"alias", "bind", "update"} /\ call.row # NoRow => ports[call.key] # NoRow
      /\ call.at = "update" => call.row # NoRow
    BY <1>2 DEF PlaneInv, CallsKnowWhat, RowsStay
<1> QED
    BY <1>1, <1>2, <1>3, CallMoves

LEMMA BeginSteps ==
    ASSUME PlaneInv, NEW c \in Call, Ports!BeginBind(c) \/ Ports!BeginUpdate(c)
    PROVE  PlaneInv' /\ UNCHANGED Ports!channel
<1> DEFINE States == [at : Places, key : Knowledge \cup {None}, alias : Alias \cup {None}, expected : Nat,
                      generation : Nat, row : PortRow]
<1>1. UNCHANGED <<Ports!registry, Ports!plane>> /\ UNCHANGED Ports!channel
    BY DEF Ports!BeginBind, Ports!BeginUpdate
<1>2. Ports!Idle \in States
    BY DEF Ports!Idle, NoRow, PortRow, Places, Ports!NoRow, Ports!None, None
<1>3. PICK call \in States : /\ calls' = [calls EXCEPT ![c] = call]
                             /\ call.at = "row" /\ call.key \in Knowledge /\ call.generation <= head[call.key]
    <2>1. CASE Ports!BeginBind(c)
        <3>1. PICK k \in Knowledge, a \in Alias :
                calls' = [calls EXCEPT ![c] = [Ports!Idle EXCEPT !.at = "row", !.key = k, !.alias = a, !.generation = head[k]]]
            BY <2>1 DEF Ports!BeginBind
        <3> DEFINE call == [Ports!Idle EXCEPT !.at = "row", !.key = k, !.alias = a, !.generation = head[k]]
        <3>2. head[k] \in Nat
            BY PortAssumption DEF PlaneInv, PlaneTypes
        <3>3. call \in States /\ call.at = "row" /\ call.key = k /\ call.generation = head[k]
            BY <1>2, <3>2 DEF Places
        <3>5. calls' = [calls EXCEPT ![c] = call]
            BY <3>1
        <3>6. head[k] <= head[k]
            BY <3>2
        <3> HIDE DEF call, States
        <3> QED
            BY <3>2, <3>3, <3>5, <3>6
    <2>2. CASE Ports!BeginUpdate(c)
        <3>1. PICK k \in Knowledge : \E e \in 0..ports[k].revision :
                calls' = [calls EXCEPT ![c] = [Ports!Idle EXCEPT !.at = "row", !.key = k, !.expected = e, !.generation = head[k]]]
            BY <2>2 DEF Ports!BeginUpdate
        <3>2. PICK e \in 0..ports[k].revision :
                calls' = [calls EXCEPT ![c] = [Ports!Idle EXCEPT !.at = "row", !.key = k, !.expected = e, !.generation = head[k]]]
            BY <3>1
        <3> DEFINE call == [Ports!Idle EXCEPT !.at = "row", !.key = k, !.expected = e, !.generation = head[k]]
        <3>3. head[k] \in Nat /\ e \in Nat
            BY PortAssumption DEF PlaneInv, PlaneTypes, PortRow
        <3>4. call \in States /\ call.at = "row" /\ call.key = k /\ call.generation = head[k]
            BY <1>2, <3>3 DEF Places
        <3>5. calls' = [calls EXCEPT ![c] = call]
            BY <3>2
        <3>6. head[k] <= head[k]
            BY <3>3
        <3> HIDE DEF call, States
        <3> QED
            BY <3>3, <3>4, <3>5, <3>6
    <2> QED
        BY <2>1, <2>2
<1> QED
    BY <1>1, <1>3, CallMoves

LEMMA ReadSteps ==
    ASSUME PlaneInv, NEW c \in Call, Ports!ReadRow(c) \/ Ports!CheckAlias(c)
    PROVE  PlaneInv' /\ UNCHANGED Ports!channel
<1>1. UNCHANGED <<Ports!registry, Ports!plane>> /\ UNCHANGED Ports!channel
    BY DEF Ports!ReadRow, Ports!CheckAlias
<1>2. CASE Ports!ReadRow(c)
    <2> DEFINE new     == ports[calls[c].key]
               call(at) == [calls[c] EXCEPT !.at = at, !.row = new]
    <2>1. calls[c].at = "row" /\ calls[c].key \in Knowledge /\ new \in PortRow
        BY <1>2 DEF Ports!ReadRow, PlaneInv, CallsKnowWhat, PlaneTypes
    <2>2. \/ Ports!Moves(c, "raised")
          \/ calls[c].alias # None /\ calls' = [calls EXCEPT ![c] = call("alias")]
          \/ new # NoRow /\ calls' = [calls EXCEPT ![c] = call("update")]
        BY <1>2 DEF Ports!ReadRow, NoRow, None, Ports!NoRow, Ports!None
    <2>3. ASSUME NEW at \in {"alias", "update"}, calls' = [calls EXCEPT ![c] = call(at)],
                 at = "alias" => calls[c].alias # None, at = "update" => new # NoRow
          PROVE  PlaneInv'
        <3> DEFINE it == call(at)
        <3>1. /\ it \in [at : Places, key : Knowledge \cup {None}, alias : Alias \cup {None}, expected : Nat,
                         generation : Nat, row : PortRow]
              /\ it.at = at /\ it.key = calls[c].key /\ it.generation = calls[c].generation
              /\ it.row = new /\ it.alias = calls[c].alias
            BY <2>1 DEF PlaneInv, PlaneTypes, Places
        <3>2. calls' = [calls EXCEPT ![c] = it]
            BY <2>3
        <3> HIDE DEF it
        <3>3. /\ it.at \in {"row", "alias", "bind", "update"} => it.key \in Knowledge /\ it.generation <= head[it.key]
              /\ it.at \in {"alias", "bind"} => it.alias \in Alias
              /\ it.at \in {"alias", "bind", "update"} /\ it.row # NoRow => ports[it.key] # NoRow
              /\ it.at = "update" => it.row # NoRow
            BY <2>1, <2>3, <3>1 DEF PlaneInv, CallsKnowWhat
        <3> QED
            BY <1>1, <3>1, <3>2, <3>3, CallMoves
    <2>4. CASE Ports!Moves(c, "raised")
        BY <2>1, <2>4, <1>1, CallGoesOn DEF Places
    <2> QED
        BY <2>2, <2>3, <2>4, <1>1
<1>3. CASE Ports!CheckAlias(c)
    <2>1. PICK at \in {"bind", "raised"} : Ports!Moves(c, at)
        BY <1>3 DEF Ports!CheckAlias
    <2> QED
        BY <1>3, <2>1, <1>1, CallGoesOn DEF Ports!CheckAlias, Places
<1> QED
    BY <1>2, <1>3

\* A transaction overwrites a row that is there, or inserts one that is not.
LEMMA TransactionSteps ==
    ASSUME PlaneInv, NEW c \in Call, Ports!Bind(c) \/ Ports!Update(c)
    PROVE  PlaneInv' /\ UNCHANGED Ports!channel
<1> DEFINE k == calls[c].key
           read == calls[c].row
<1>1. /\ calls[c].at \in {"bind", "update"} /\ k \in Knowledge /\ read \in PortRow /\ calls[c].generation \in Nat
      /\ calls[c].generation <= head[k] /\ ports[k] \in PortRow /\ read.handle \in Call \cup {None}
      /\ calls[c].at = "bind" => calls[c].alias \in Alias
      /\ read # NoRow => ports[k] # NoRow
      /\ UNCHANGED Ports!registry /\ UNCHANGED Ports!channel
    BY DEF Ports!Bind, Ports!Update, PlaneInv, PlaneTypes, CallsKnowWhat, RowsStay, PortRow
<1>2. CASE Ports!Moves(c, "raised") /\ UNCHANGED Ports!plane
    BY <1>1, <1>2, CallGoesOn DEF Places
<1>3. ASSUME NEW new \in PortRow, new.generation = calls[c].generation, new # NoRow,
             ports' = [ports EXCEPT ![k] = new], PortsAreWhole',
             aliases' = aliases \/ (calls[c].at = "bind" /\ aliases' = [aliases EXCEPT ![calls[c].alias] = k]),
             Ports!Moves(c, "done")
      PROVE  PlaneInv'
    <2>1. /\ ports' \in [Knowledge -> PortRow] /\ ports'[k] = new
          /\ \A l \in Knowledge : l # k => ports'[l] = ports[l]
        BY <1>1, <1>3 DEF PlaneInv, PlaneTypes
    <2>2. aliases' \in [Alias -> Knowledge \cup {None}]
        BY <1>1, <1>3 DEF PlaneInv, PlaneTypes
    <2>3. calls' \in [Call -> [at : Places, key : Knowledge \cup {None}, alias : Alias \cup {None}, expected : Nat,
                               generation : Nat, row : PortRow]]
        BY <1>3 DEF PlaneInv, PlaneTypes, Ports!Moves, Places
    <2>4. /\ calls'[c].at = "done"
          /\ \A d \in Call : d # c => calls'[d] = calls[d]
        BY <1>3 DEF PlaneInv, PlaneTypes, Ports!Moves
    <2>5. UNCHANGED <<head, withdrawn>>
        BY <1>1 DEF Ports!registry
    <2>6. PlaneTypes'
        BY <2>1, <2>2, <2>3, <2>5 DEF PlaneInv, PlaneTypes
    <2>7. GenerationsExist'
        BY <1>1, <1>3, <2>1, <2>5 DEF PlaneInv, GenerationsExist
    <2>8. CallsKnowWhat'
        BY <2>4, <2>5 DEF PlaneInv, CallsKnowWhat
    <2>9. RowsStay'
        BY <1>3, <2>1, <2>4 DEF PlaneInv, RowsStay
    <2> QED
        BY <1>3, <2>6, <2>7, <2>8, <2>9 DEF PlaneInv
<1>4. ASSUME NEW handle \in Call \cup {None}, read # NoRow, ports' = Ports!Overwrite(c, handle),
             aliases' = aliases \/ (calls[c].at = "bind" /\ aliases' = [aliases EXCEPT ![calls[c].alias] = k]),
             Ports!Moves(c, "done")
      PROVE  PlaneInv'
    <2> DEFINE new == [slot |-> ports[k].slot, generation |-> calls[c].generation, handle |-> handle,
                       revision |-> read.revision + 1]
    <2>1. new \in PortRow /\ new.slot = ports[k].slot /\ new.revision # 0 /\ new.generation = calls[c].generation
        BY <1>1 DEF PortRow
    <2>2. ports' = [ports EXCEPT ![k] = new]
        BY <1>4, <1>1 DEF Ports!Overwrite, PlaneInv, PlaneTypes
    <2> HIDE DEF new
    <2>3. new # NoRow
        BY <2>1 DEF NoRow
    <2>4. \A a \in Alias : aliases'[a] \in {aliases[a], k}
        BY <1>1, <1>4 DEF PlaneInv, PlaneTypes
    <2>5. PortsAreWhole'
        BY <1>1, <1>4, <2>1, <2>2, <2>4, RowOverwritten DEF PlaneInv
    <2> QED
        BY <1>3, <1>4, <2>1, <2>2, <2>3, <2>5
<1>5. ASSUME NEW handle \in Call \cup {None}, ports[k] = NoRow, calls[c].at = "bind",
             ports' = [ports EXCEPT ![k] = [slot |-> Ports!NextSlot, generation |-> calls[c].generation,
                                            handle |-> handle, revision |-> 1]],
             aliases' = [aliases EXCEPT ![calls[c].alias] = k],
             Ports!Moves(c, "done")
      PROVE  PlaneInv'
    <2> DEFINE new == [slot |-> Ports!NextSlot, generation |-> calls[c].generation, handle |-> handle, revision |-> 1]
    <2>1. Ports!NextSlot \in Nat
        BY <1>1, <1>5, NextSlotIsNew DEF PlaneInv
    <2>2. new \in PortRow /\ new.slot = Ports!NextSlot /\ new.revision = 1 /\ new.generation = calls[c].generation
        BY <1>1, <2>1 DEF PortRow
    <2>3. ports' = [ports EXCEPT ![k] = new]
        BY <1>5
    <2> HIDE DEF new
    <2>4. new # NoRow
        BY <2>2 DEF NoRow
    <2>5. \A a \in Alias : aliases'[a] \in {aliases[a], k}
        BY <1>1, <1>5 DEF PlaneInv, PlaneTypes
    <2>6. PortsAreWhole'
        BY <1>1, <1>5, <2>2, <2>3, <2>5, RowInserted DEF PlaneInv
    <2> QED
        BY <1>3, <1>5, <2>2, <2>3, <2>4, <2>6
<1>6. CASE Ports!Update(c)
    <2>1. read # NoRow /\ ports' = Ports!Overwrite(c, c) /\ Ports!Moves(c, "done") /\ aliases' = aliases
        BY <1>6 DEF Ports!Update, PlaneInv, RowsStay
    <2> HIDE DEF k, read
    <2>2. c \in Call \cup {None}
        OBVIOUS
    <2> QED
        BY <2>1, <2>2, <1>4, <1>1
<1>7. CASE Ports!Bind(c)
    <2>1. \/ Ports!Moves(c, "raised") /\ UNCHANGED Ports!plane
          \/ /\ ~ (read = NoRow /\ ports[k] # NoRow)
             /\ aliases' = [aliases EXCEPT ![calls[c].alias] = k] /\ Ports!Moves(c, "done")
             /\ \E handle \in {c, read.handle} :
                  ports' = IF read # NoRow THEN Ports!Overwrite(c, handle)
                           ELSE [ports EXCEPT ![k] = [slot |-> Ports!NextSlot, generation |-> calls[c].generation,
                                                      handle |-> handle, revision |-> 1]]
        BY <1>7 DEF Ports!Bind, NoRow, None, Ports!NoRow, Ports!None
    <2>2. calls[c].at = "bind" /\ {c, read.handle} \subseteq Call \cup {None}
        BY <1>7, <1>1 DEF Ports!Bind
    <2> HIDE DEF k, read
    <2>3. CASE Ports!Moves(c, "raised") /\ UNCHANGED Ports!plane
        BY <2>3, <1>2, <1>1
    <2>4. ASSUME NEW handle \in Call \cup {None}, ~ (read = NoRow /\ ports[k] # NoRow),
                 aliases' = [aliases EXCEPT ![calls[c].alias] = k], Ports!Moves(c, "done"),
                 ports' = IF read # NoRow THEN Ports!Overwrite(c, handle)
                          ELSE [ports EXCEPT ![k] = [slot |-> Ports!NextSlot, generation |-> calls[c].generation,
                                                     handle |-> handle, revision |-> 1]]
          PROVE  PlaneInv'
        <3>1. CASE read # NoRow
            BY <2>2, <2>4, <3>1, <1>4
        <3>2. CASE read = NoRow
            BY <2>2, <2>4, <3>2, <1>5
        <3> QED
            BY <3>1, <3>2
    <2> QED
        BY <2>1, <2>2, <2>3, <2>4, <1>1
<1> QED
    BY <1>1, <1>6, <1>7

LEMMA NextPortInv == PortInv /\ [Ports!Next]_(Ports!vars) => PortInv'
<1> SUFFICES ASSUME PortInv, [Ports!Next]_(Ports!vars) PROVE PortInv'
    OBVIOUS
<1>1. PlaneInv /\ PlaneTypes /\ CountersCount
    BY DEF PortInv, PlaneInv
<1>2. ASSUME UNCHANGED Ports!channel PROVE CountersCount'
    BY <1>1, <1>2 DEF Ports!channel, CountersCount, At
<1>3. ASSUME UNCHANGED <<Ports!registry, Ports!plane, calls>> PROVE PlaneInv'
    BY <1>1, <1>3 DEF Ports!registry, Ports!plane, PlaneInv, PlaneTypes, GenerationsExist, CallsKnowWhat, RowsStay, PortsAreWhole
<1>4. CASE \E k \in Knowledge : Ports!Publish(k) \/ Ports!Revoke(k)
    BY <1>1, <1>2, <1>4, RegistryStep DEF PortInv
<1>5. CASE \E c \in Call : Ports!BeginBind(c) \/ Ports!BeginUpdate(c)
    BY <1>1, <1>2, <1>5, BeginSteps DEF PortInv
<1>6. CASE \E c \in Call : Ports!ReadRow(c) \/ Ports!CheckAlias(c)
    BY <1>1, <1>2, <1>6, ReadSteps DEF PortInv
<1>7. CASE \E c \in Call : Ports!Bind(c) \/ Ports!Update(c)
    BY <1>1, <1>2, <1>7, TransactionSteps DEF PortInv
<1>8. CASE \E i \in Invocation : Ports!Invoke(i) \/ Ports!Authorize(i) \/ Ports!Dispatch(i) \/ Ports!Miss(i) \/ Ports!Failover(i)
    BY <1>1, <1>3, <1>8, ChannelSteps DEF PortInv
<1>9. CASE UNCHANGED Ports!vars
    BY <1>2, <1>3, <1>9 DEF Ports!vars, PortInv
<1> QED
    BY <1>4, <1>5, <1>6, <1>7, <1>8, <1>9 DEF Ports!Next

\* Rows, calls and counters are well typed, and a port's generation was published.
THEOREM PlaneTypeOK == Ports!Spec => []Ports!TypeOK
<1>1. PortInv => Ports!TypeOK
    <2> SUFFICES ASSUME PortInv PROVE Ports!TypeOK
        OBVIOUS
    <2>1. PlaneTypes /\ GenerationsExist /\ CountersCount
        BY DEF PortInv, PlaneInv
    <2>2. \A k \in Knowledge : ports[k].generation \in 0..head[k] /\ ports[k].handle \in Call \cup {None}
        BY <2>1, PortAssumption DEF PlaneTypes, GenerationsExist, PortRow
    <2>3. {misses, hits, failovers} \subseteq 0..Cardinality(Invocation)
        BY <2>1, SomeInvocations DEF CountersCount
    <2> QED
        BY <2>1, <2>2, <2>3 DEF Ports!TypeOK, PlaneTypes, CountersCount, Places, Stations, None, Ports!None, Cardinality, Ports!Cardinality
<1> QED
    BY <1>1, InitPortInv, NextPortInv, PTL DEF Ports!Spec

\* However binds, updates and invocations race, and wherever a call fails: the slots in use are
\* 1..n, one for each port, aliases name ports, and hits, misses and failovers are the
\* invocations that got there (bind, 52-76; invoke).
THEOREM PortsStaySound == Ports!Spec => []PortsAreSound
<1>1. PortInv => PortsAreSound
    BY CountersTell DEF PortInv, PlaneInv, PortsAreSound
<1> QED
    BY <1>1, InitPortInv, NextPortInv, PTL DEF Ports!Spec

-----------------------------------------------------------------------------
(* search *)

USE SearchAssumption DEF SearchAssumption, Backend!NoBranch, Backend!NoBranch

Item == [deleted : BOOLEAN, allowed : BOOLEAN, revision : Nat, by : Branch \cup {Backend!NoBranch}]

\* The tables and the caches; a search that has its snapshot knows its branch.
SearchTypes ==
    /\ chain \in [Branch -> Seq(Branch)]
    /\ items \in [Branch -> [ItemKey -> Item]]
    /\ revision \in 0..MaxRev /\ read_only \in BOOLEAN /\ spoiled \in BOOLEAN
    /\ pinned = [b \in Branch |-> pinned[b]]
    /\ \A b \in Branch : pinned[b] = Backend!Cold \/ pinned[b] \in [ItemKey -> Item]
    /\ clearing \in Branch \cup {Backend!NoBranch, Backend!Every}
    /\ \A f \in filters : f.branch \in Branch /\ f.allowed \subseteq ItemKey
    /\ searches = [s \in Search |-> searches[s]]
    /\ \A s \in Search : searches[s].at \in {"meta", "filter"} => searches[s].branch \in Branch

\* A row names the branch it was written through.
ItemsOwn == \A b \in Branch, k \in ItemKey : items[b][k] # Backend!NoItem => items[b][k].by = b

\* Only a branch is pinned, and what its pin shows was written through its chain.
PinsIsolated ==
    \A b \in Branch : pinned[b] # Backend!Cold =>
        Backend!Exists(b) /\ \A k \in ItemKey : pinned[b][k].by \in ToSet(chain[b]) \cup {Backend!NoBranch}

\* A pin says what the rows say, unless a write of its chain is about to clear it.
PinsFollow ==
    ~spoiled => \A b \in Branch : pinned[b] # Backend!Cold => clearing \in ToSet(chain[b]) \/ pinned[b] = Backend!View(b)

SearchInv == SearchTypes /\ ItemsOwn /\ PinsIsolated /\ PinsFollow

-----------------------------------------------------------------------------
(* What a branch shows. *)

LEMMA LeastNumber ==
    ASSUME NEW T, T \subseteq Nat, T # {}
    PROVE  Min(T) \in T
<1>1. PICK x \in T : \A y \in T : ~ (<<y, x>> \in OpToRel(<, Nat))
    BY WFMin, NatLessThanWellFounded
<1>2. \A y \in T : ~ (y < x)
    BY <1>1 DEF OpToRel
<1>3. \A y \in T : x <= y
    BY <1>2
<1> QED
    BY <1>3 DEF Min

\* The levels of a branch that have a row for a key, the closest first.
Levels(b, k) == {n \in DOMAIN chain[b] : items[chain[b][n]][k] # Backend!NoItem}

LEMMA RowIsTheClosest ==
    ASSUME SearchTypes, NEW b \in Branch, NEW k \in ItemKey
    PROVE  IF Levels(b, k) = {} THEN Backend!Row(b, k) = Backend!NoItem
           ELSE Min(Levels(b, k)) \in Levels(b, k) /\ Backend!Row(b, k) = items[chain[b][Min(Levels(b, k))]][k]
<1>1. Levels(b, k) \subseteq Nat
    BY DEF Levels, SearchTypes
<1>2. Levels(b, k) # {} => Min(Levels(b, k)) \in Levels(b, k)
    BY <1>1, LeastNumber
<1> QED
    BY <1>2 DEF Backend!Row, Levels, Min, Backend!Min

\* A key's row in a branch is the one of a level of its chain, or none.
LEMMA RowIsOfALevel ==
    ASSUME SearchTypes, NEW b \in Branch, NEW k \in ItemKey
    PROVE  \/ Backend!Row(b, k) = Backend!NoItem
           \/ \E level \in ToSet(chain[b]) : items[level][k] # Backend!NoItem /\ Backend!Row(b, k) = items[level][k]
<1>1. CASE Levels(b, k) = {}
    BY <1>1, RowIsTheClosest
<1>2. ASSUME NEW n \in Levels(b, k), Backend!Row(b, k) = items[chain[b][n]][k]
      PROVE  \E level \in ToSet(chain[b]) : items[level][k] # Backend!NoItem /\ Backend!Row(b, k) = items[level][k]
    BY <1>2 DEF Levels, ToSet
<1> QED
    BY <1>1, <1>2, RowIsTheClosest

LEMMA ChainsAreBranches ==
    ASSUME SearchTypes, NEW b \in Branch
    PROVE  ToSet(chain[b]) \subseteq Branch
  BY DEF SearchTypes, ToSet

LEMMA RowsAreItems ==
    ASSUME SearchTypes, NEW b \in Branch, NEW k \in ItemKey
    PROVE  Backend!Row(b, k) \in Item
<1>1. Backend!NoItem \in Item
    BY DEF Backend!NoItem, Item
<1>2. \A level \in ToSet(chain[b]) : items[level][k] \in Item
    BY ChainsAreBranches DEF SearchTypes
<1> QED
    BY <1>1, <1>2, RowIsOfALevel

\* A branch shows only what was written through its chain.
LEMMA RowsAreIsolated ==
    ASSUME SearchTypes, ItemsOwn, NEW b \in Branch, NEW k \in ItemKey
    PROVE  Backend!Row(b, k).by \in ToSet(chain[b]) \cup {Backend!NoBranch}
<1>1. Backend!NoItem.by = Backend!NoBranch
    BY DEF Backend!NoItem
<1>2. \A level \in ToSet(chain[b]) : items[level][k] # Backend!NoItem => items[level][k].by = level
    BY ChainsAreBranches DEF ItemsOwn
<1> QED
    BY <1>1, <1>2, RowIsOfALevel

LEMMA ViewsAreItems == SearchTypes => \A b \in Branch : Backend!View(b) \in [ItemKey -> Item]
  BY RowsAreItems DEF Backend!View

\* A branch whose chain nobody wrote shows what it showed.
LEMMA ViewsStay ==
    ASSUME SearchTypes, NEW b \in Branch, chain'[b] = chain[b],
           \A level \in ToSet(chain[b]) : items'[level] = items[level]
    PROVE  Backend!View(b)' = Backend!View(b)
<1> SUFFICES ASSUME NEW k \in ItemKey PROVE Backend!Row(b, k)' = Backend!Row(b, k)
    BY DEF Backend!View
<1>1. \A n \in DOMAIN chain[b] : items'[chain[b][n]] = items[chain[b][n]]
    BY DEF ToSet
<1>2. Levels(b, k)' = Levels(b, k)
    BY <1>1 DEF Levels
<1>3. \A n \in Levels(b, k) : items'[chain'[b][n]][k] = items[chain[b][n]][k]
    BY <1>1 DEF Levels
<1>4. Backend!Row(b, k)' = IF Levels(b, k)' = {} THEN Backend!NoItem ELSE items'[chain'[b][Min(Levels(b, k)')]][k]
    BY DEF Backend!Row, Levels, Min, Backend!Min
<1> QED
    BY <1>2, <1>3, <1>4, RowIsTheClosest

-----------------------------------------------------------------------------
(* Steps. *)

\* Rows are written through a branch: pins that follow it are cleared next, or the
\* write raised.
LEMMA WritesKeepPins ==
    ASSUME SearchInv, Backend!LockFree, NEW b \in Branch, NEW R \in [ItemKey -> Item],
           \A k \in ItemKey : R[k] # Backend!NoItem => R[k].by = b,
           items' = [items EXCEPT ![b] = R], UNCHANGED <<chain, pinned>>,
           clearing' = b \/ spoiled', spoiled => spoiled'
    PROVE  ItemsOwn' /\ PinsIsolated' /\ PinsFollow'
<1> USE DEF SearchInv
<1>1. ItemsOwn'
    BY DEF ItemsOwn, SearchTypes
<1>2. PinsIsolated'
    BY DEF PinsIsolated, Backend!Exists
<1>3. PinsFollow'
  <2> SUFFICES ASSUME ~spoiled', NEW c \in Branch, pinned[c] # Backend!Cold, b \notin ToSet(chain[c])
               PROVE  pinned[c] = Backend!View(c)'
      BY DEF PinsFollow
  <2>1. \A level \in ToSet(chain[c]) : items'[level] = items[level]
      BY ChainsAreBranches DEF SearchTypes
  <2>2. Backend!View(c)' = Backend!View(c)
      BY <2>1, ViewsStay
  <2>3. clearing \notin ToSet(chain[c])
      BY ChainsAreBranches DEF Backend!LockFree
  <2> QED
      BY <2>2, <2>3 DEF PinsFollow
<1> QED
    BY <1>1, <1>2, <1>3

\* Neither chains nor rows change.
LEMMA RowsUnwritten ==
    ASSUME SearchInv, UNCHANGED <<chain, items>>
    PROVE  ItemsOwn' /\ \A b \in Branch : Backend!View(b)' = Backend!View(b)
<1>1. ItemsOwn'
    BY DEF ItemsOwn, SearchInv
<1>2. \A b \in Branch : Backend!View(b)' = Backend!View(b)
    BY ViewsStay DEF SearchInv
<1> QED
    BY <1>1, <1>2

\* Chains, rows and pins stay, and a clearing ends only by raising.
LEMMA OthersKeepPins ==
    ASSUME SearchInv, UNCHANGED <<chain, items, pinned>>,
           UNCHANGED <<clearing, spoiled>> \/ spoiled'
    PROVE  ItemsOwn' /\ PinsIsolated' /\ PinsFollow'
<1>1. PinsIsolated'
    BY DEF PinsIsolated, Backend!Exists, SearchInv
<1>2. PinsFollow'
    BY RowsUnwritten DEF PinsFollow, SearchInv
<1> QED
    BY RowsUnwritten, <1>1, <1>2

-----------------------------------------------------------------------------
\* The initial state.
LEMMA SearchInit == Backend!Init => SearchInv
<1> SUFFICES ASSUME Backend!Init PROVE SearchInv
    OBVIOUS
<1> USE DEF Backend!Init, Backend!NoItem, Backend!Cold
<1>1. SearchTypes
  <2>1. Backend!NoItem \in Item
      BY DEF Backend!NoItem, Item
  <2>2. chain \in [Branch -> Seq(Branch)]
      OBVIOUS
  <2>3. items = [b \in Branch |-> [k \in ItemKey |-> Backend!NoItem]]
      BY DEF Backend!NoItem
  <2>4. items \in [Branch -> [ItemKey -> Item]]
      BY <2>1, <2>3
  <2>5. pinned = [b \in Branch |-> Backend!Cold]
      BY DEF Backend!NoItem, Backend!Cold
  <2>6. searches = [s \in Search |-> searches[s]] /\ \A s \in Search : searches[s].at = "idle"
      OBVIOUS
  <2>7. pinned = [b \in Branch |-> pinned[b]] /\ \A b \in Branch : pinned[b] = Backend!Cold
      BY <2>5
  <2>8. revision \in 0..MaxRev /\ clearing = Backend!NoBranch /\ filters = {}
      OBVIOUS
  <2>9. read_only \in BOOLEAN /\ spoiled \in BOOLEAN
      BY Zenon
  <2> HIDE DEF Backend!Init
  <2> QED
      BY <2>2, <2>4, <2>6, <2>7, <2>8, <2>9 DEF SearchTypes
<1>2. ItemsOwn
    BY DEF ItemsOwn, Backend!NoItem
<1>3. PinsIsolated /\ PinsFollow
    BY DEF PinsIsolated, PinsFollow, Backend!Cold, Backend!NoItem
<1> QED
    BY <1>1, <1>2, <1>3 DEF SearchInv

\* The steps speak of the instance's own operators, which are these.
LEMMA SameOperators ==
    /\ Backend!NoItem = Backend!NoItem /\ Backend!Cold = Backend!Cold
    /\ \A b, k : Backend!Row(b, k) = Backend!Row(b, k)
    /\ \A b : Backend!View(b) = Backend!View(b) /\ Backend!Exists(b) = Backend!Exists(b)
    /\ Backend!LockFree = Backend!LockFree
<1>1. Backend!NoItem = Backend!NoItem
    BY DEF Backend!NoItem, Backend!NoItem
<1>2. Backend!Cold = Backend!Cold
    BY <1>1 DEF Backend!Cold, Backend!Cold
<1>3. \A b, k : Backend!Row(b, k) = Backend!Row(b, k)
    BY <1>1 DEF Backend!Row, Backend!Row, Min, Backend!Min
<1>4. \A b : Backend!View(b) = Backend!View(b) /\ Backend!Exists(b) = Backend!Exists(b)
    BY <1>3 DEF Backend!View, Backend!View, Backend!Exists, Backend!Exists
<1> QED
    BY <1>1, <1>2, <1>3, <1>4 DEF Backend!LockFree, Backend!LockFree

LEMMA SameSeen == \A b : Backend!Seen(b) = Backend!Seen(b)
  BY SameOperators DEF Backend!Seen, Backend!Seen

\* What is pinned is a view or a view no more.
LEMMA PinsAreViews ==
    ASSUME SearchTypes, NEW b \in Branch, NEW f, f = Backend!Cold \/ f = Backend!View(b), pinned' = [pinned EXCEPT ![b] = f]
    PROVE  /\ pinned' = [c \in Branch |-> pinned'[c]]
           /\ \A c \in Branch : pinned'[c] = Backend!Cold \/ pinned'[c] \in [ItemKey -> Item]
  BY ViewsAreItems DEF SearchTypes

\* One row of a branch is written, with its name on it.
LEMMA RowWritten ==
    ASSUME SearchInv, NEW b \in Branch, NEW k \in ItemKey, NEW item \in Item, item.by = b, Backend!Write(b, k, item)
    PROVE  SearchInv'
<1> USE SameOperators DEF SearchInv
<1> DEFINE R == [items[b] EXCEPT ![k] = item]
<1>0. /\ Backend!LockFree /\ items' = [items EXCEPT ![b] = R] /\ UNCHANGED <<chain, pinned, filters, spoiled, searches, read_only>>
      /\ clearing' = b /\ revision' = revision + 1 /\ revision < MaxRev
    BY DEF Backend!Write, Backend!Commit, Backend!caches
<1>1. R \in [ItemKey -> Item] /\ \A j \in ItemKey : R[j] # Backend!NoItem => R[j].by = b
    BY DEF SearchTypes, ItemsOwn
<1> HIDE DEF R
<1>2. ItemsOwn' /\ PinsIsolated' /\ PinsFollow'
    BY <1>0, <1>1, WritesKeepPins
<1>3. SearchTypes'
    BY <1>0, <1>1 DEF SearchTypes
<1> QED
    BY <1>2, <1>3

\* Rows of a branch are written anew.
LEMMA RowsReembedded ==
    ASSUME SearchInv, Backend!LockFree, NEW b \in Branch, NEW K \in SUBSET ItemKey, items' = Backend!Reembedded(b, K),
           UNCHANGED <<chain, pinned>>, clearing' = b \/ spoiled', spoiled => spoiled'
    PROVE  items' \in [Branch -> [ItemKey -> Item]] /\ ItemsOwn' /\ PinsIsolated' /\ PinsFollow'
<1> USE SameOperators DEF SearchInv
<1> DEFINE R == [k \in ItemKey |-> IF k \in K /\ ~Backend!Row(b, k).deleted
                                   THEN [Backend!Row(b, k) EXCEPT !.revision = @ + 1, !.by = b] ELSE items[b][k]]
<1>1. items' = [items EXCEPT ![b] = R]
    BY DEF Backend!Reembedded
<1>2. ASSUME NEW k \in ItemKey PROVE R[k] \in Item /\ (R[k] # Backend!NoItem => R[k].by = b)
  <2>1. Backend!Row(b, k) \in Item
      BY RowsAreItems
  <2>2. [Backend!Row(b, k) EXCEPT !.revision = @ + 1, !.by = b] \in Item /\ [Backend!Row(b, k) EXCEPT !.revision = @ + 1, !.by = b].by = b
    <3>1. PICK r \in Item : r = Backend!Row(b, k)
        BY <2>1
    <3>2. r.revision + 1 \in Nat
        BY DEF Item
    <3>3. [r EXCEPT !.revision = r.revision + 1, !.by = b] \in Item /\ [r EXCEPT !.revision = r.revision + 1, !.by = b].by = b
        BY <3>2 DEF Item
    <3> QED
        BY <3>1, <3>3
  <2>3. items[b][k] \in Item /\ (items[b][k] # Backend!NoItem => items[b][k].by = b)
      BY DEF SearchTypes, ItemsOwn
  <2> QED
      BY <2>2, <2>3
<1>3. R \in [ItemKey -> Item]
    BY <1>2
<1> HIDE DEF R
<1>4. items' \in [Branch -> [ItemKey -> Item]]
    BY <1>1, <1>3 DEF SearchTypes
<1>5. ItemsOwn' /\ PinsIsolated' /\ PinsFollow'
    BY <1>1, <1>2, <1>3, WritesKeepPins
<1> QED
    BY <1>4, <1>5

\* An item is written, updated or deleted.
LEMMA ItemsKeepSearch ==
    ASSUME SearchInv, NEW b \in Branch, NEW k \in ItemKey,
           Backend!Delete(b, k) \/ \E allowed \in BOOLEAN : Backend!Upsert(b, k, allowed) \/ Backend!PartialUpdate(b, k, allowed)
    PROVE  SearchInv'
<1> USE SameOperators DEF Item
<1>1. ASSUME NEW allowed \in BOOLEAN, Backend!Upsert(b, k, allowed) PROVE SearchInv'
    BY <1>1, RowWritten DEF Backend!Upsert
<1>2. ASSUME NEW allowed \in BOOLEAN, Backend!PartialUpdate(b, k, allowed) PROVE SearchInv'
  <2>1. Backend!Row(b, k).revision + 1 \in Nat
      BY RowsAreItems DEF SearchInv
  <2> QED
      BY <1>2, <2>1, RowWritten DEF Backend!PartialUpdate
<1>3. CASE Backend!Delete(b, k)
  <2>1. items[b][k] \in Item /\ (items[b][k] # Backend!NoItem => items[b][k].by = b)
      BY DEF SearchInv, SearchTypes, ItemsOwn
  <2>2. items[b][k] # Backend!NoItem => [items[b][k] EXCEPT !.deleted = TRUE] \in Item /\ [items[b][k] EXCEPT !.deleted = TRUE].by = b
      BY <2>1
  <2>3. CASE items[b][k] = Backend!NoItem
      BY <1>3, <2>3, RowWritten DEF Backend!Delete
  <2>4. CASE items[b][k] # Backend!NoItem
      BY <1>3, <2>2, <2>4, RowWritten DEF Backend!Delete
  <2> QED
      BY <2>3, <2>4
<1> QED
    BY <1>1, <1>2, <1>3

\* A branch is made: it is not pinned, and shows what its source shows.
LEMMA BranchMade ==
    ASSUME SearchInv, NEW source \in Branch, NEW target \in Branch, Backend!CreateBranch(source, target)
    PROVE  SearchInv'
<1> USE SameOperators DEF SearchInv
<1>0. /\ Backend!Exists(source) /\ ~Backend!Exists(target) /\ Backend!LockFree /\ chain' = [chain EXCEPT ![target] = <<target>> \o chain[source]]
      /\ UNCHANGED <<items, revision, read_only, pinned, filters, clearing, spoiled, searches>>
    BY DEF Backend!CreateBranch, Backend!caches
<1>1. SearchTypes'
  <2>1. <<target>> \o chain[source] \in Seq(Branch)
      BY DEF SearchTypes
  <2>2. chain' \in [Branch -> Seq(Branch)]
      BY <1>0, <2>1 DEF SearchTypes
  <2> QED
      BY <1>0, <2>2 DEF SearchTypes
<1>2. ItemsOwn'
    BY <1>0 DEF ItemsOwn
<1>3. \A b \in Branch : pinned[b] # Backend!Cold => b # target /\ chain'[b] = chain[b]
    BY <1>0 DEF PinsIsolated, SearchTypes
<1>4. PinsIsolated'
    BY <1>0, <1>3 DEF PinsIsolated, Backend!Exists
<1>5. PinsFollow'
  <2>1. ASSUME NEW b \in Branch, pinned[b] # Backend!Cold PROVE Backend!View(b)' = Backend!View(b)
      BY <1>0, <1>3, <2>1, ViewsStay
  <2> QED
      BY <1>0, <1>3, <2>1 DEF PinsFollow
<1> QED
    BY <1>1, <1>2, <1>4, <1>5

\* Pins are made, taken away, or cleared after a write.
LEMMA PinsMove ==
    ASSUME SearchInv,
           \/ Backend!InvalidatePins
           \/ \E b \in Branch : Backend!Pin(b) \/ Backend!Unpin(b)
    PROVE  SearchInv'
<1> USE SameOperators DEF SearchInv
<1>0. UNCHANGED <<chain, items, revision, read_only, spoiled, searches>>
    BY DEF Backend!InvalidatePins, Backend!Pin, Backend!Unpin, Backend!rows
<1>1. ItemsOwn' /\ \A b \in Branch : Backend!View(b)' = Backend!View(b)
    BY <1>0, RowsUnwritten
<1>2. CASE Backend!InvalidatePins
  <2>1. /\ filters' = {} /\ clearing' = Backend!NoBranch
        /\ pinned' = [b \in Branch |-> IF clearing \in ToSet(chain[b]) THEN Backend!Cold ELSE pinned[b]]
      BY <1>2 DEF Backend!InvalidatePins, ToSet, Backend!ToSet
  <2>2. \A b \in Branch : pinned'[b] = Backend!Cold \/ (pinned'[b] = pinned[b] /\ clearing \notin ToSet(chain[b]))
      BY <2>1
  <2>3. SearchTypes'
    <3>1. pinned' = [b \in Branch |-> pinned'[b]] /\ \A b \in Branch : pinned'[b] = Backend!Cold \/ pinned'[b] \in [ItemKey -> Item]
        BY <2>1, <2>2 DEF SearchTypes
    <3> QED
        BY <1>0, <2>1, <3>1 DEF SearchTypes
  <2>4. PinsIsolated'
      BY <1>0, <2>2 DEF PinsIsolated, Backend!Exists
  <2>5. PinsFollow'
      BY <1>0, <1>1, <2>2 DEF PinsFollow
  <2> QED
      BY <1>1, <2>3, <2>4, <2>5
<1>3. ASSUME NEW b \in Branch, Backend!Pin(b) \/ Backend!Unpin(b) PROVE SearchInv'
  <2>1. PICK f : (f = Backend!Cold \/ (Backend!Exists(b) /\ f = Backend!View(b))) /\ pinned' = [pinned EXCEPT ![b] = f]
      BY <1>3 DEF Backend!Pin, Backend!Unpin
  <2>2. Backend!LockFree /\ UNCHANGED <<filters, clearing>>
      BY <1>3 DEF Backend!Pin, Backend!Unpin
  <2>3. SearchTypes'
    <3>1. pinned' = [c \in Branch |-> pinned'[c]] /\ \A c \in Branch : pinned'[c] = Backend!Cold \/ pinned'[c] \in [ItemKey -> Item]
        BY <2>1, PinsAreViews
    <3> QED
        BY <1>0, <2>2, <3>1 DEF SearchTypes
  <2>4. \A c \in Branch : pinned'[c] = pinned[c] \/ pinned'[c] = Backend!Cold \/ (c = b /\ Backend!Exists(b) /\ pinned'[c] = Backend!View(b))
      BY <2>1 DEF SearchTypes
  <2>5. Backend!Exists(b) => \A k \in ItemKey : Backend!View(b)[k].by \in ToSet(chain[b]) \cup {Backend!NoBranch}
      BY RowsAreIsolated DEF Backend!View
  <2>6. PinsIsolated'
      BY <1>0, <2>4, <2>5 DEF PinsIsolated, Backend!Exists
  <2>7. PinsFollow'
      BY <1>0, <1>1, <2>2, <2>4 DEF PinsFollow
  <2> QED
      BY <1>1, <2>3, <2>6, <2>7
<1> QED
    BY <1>2, <1>3

\* A search goes on.
LEMMA SearchesKeepSearch ==
    ASSUME SearchInv, NEW s \in Search,
           \/ Backend!ReadRevision(s) \/ Backend!Hit(s) \/ Backend!Fill(s)
           \/ \E b \in Branch : Backend!TakeSnapshot(s, b)
    PROVE  SearchInv'
<1> USE SameOperators DEF SearchInv
<1>0. UNCHANGED <<chain, items, revision, read_only, pinned>>
    BY DEF Backend!ReadRevision, Backend!Hit, Backend!Fill, Backend!TakeSnapshot, Backend!rows, Backend!caches
<1>1. UNCHANGED <<clearing, spoiled>> \/ (clearing' = Backend!NoBranch /\ spoiled' = TRUE)
    BY DEF Backend!ReadRevision, Backend!Hit, Backend!Fill, Backend!TakeSnapshot
<1>2. ItemsOwn' /\ PinsIsolated' /\ PinsFollow'
    BY <1>0, <1>1, OthersKeepPins
<1>3. PICK new : searches' = [searches EXCEPT ![s] = new] /\ (new.at \in {"meta", "filter"} => new.branch \in Branch)
  <2>1. ASSUME NEW b \in Branch, Backend!TakeSnapshot(s, b)
        PROVE  \E new : searches' = [searches EXCEPT ![s] = new] /\ (new.at \in {"meta", "filter"} => new.branch \in Branch)
    <3> DEFINE new == [at |-> "meta", branch |-> b, snapshot |-> Backend!Seen(b), taken |-> revision]
    <3>1. searches' = [searches EXCEPT ![s] = new]
        BY <2>1, SameSeen DEF Backend!TakeSnapshot
    <3>2. new.branch \in Branch
        OBVIOUS
    <3> QED
        BY <3>1, <3>2
  <2>2. CASE Backend!ReadRevision(s)
    <3>1. searches[s].branch \in Branch
        BY <2>2 DEF Backend!ReadRevision, SearchTypes
    <3> DEFINE new == [at |-> "filter", branch |-> searches[s].branch, snapshot |-> searches[s].snapshot, revision |-> revision,
                        quiet |-> searches[s].taken = revision]
    <3>2. searches' = [searches EXCEPT ![s] = new]
        BY <2>2 DEF Backend!ReadRevision
    <3>3. new.branch \in Branch
        BY <3>1
    <3> QED
        BY <3>2, <3>3
  <2>3. ASSUME NEW allowed, Backend!Answer(s, allowed)
        PROVE  \E new : searches' = [searches EXCEPT ![s] = new] /\ (new.at \in {"meta", "filter"} => new.branch \in Branch)
    <3> DEFINE new == [at |-> "done", snapshot |-> searches[s].snapshot, quiet |-> searches[s].quiet,
                        hits |-> Backend!Candidates(s, allowed)]
    <3>1. searches' = [searches EXCEPT ![s] = new]
        BY <2>3 DEF Backend!Answer
    <3>2. new.at = "done"
        OBVIOUS
    <3> QED
        BY <3>1, <3>2
  <2>4. Backend!Hit(s) \/ Backend!Fill(s) => \E allowed : Backend!Answer(s, allowed)
      BY DEF Backend!Hit, Backend!Fill
  <2> QED
      BY <2>1, <2>2, <2>3, <2>4
<1>4. searches' = [t \in Search |-> searches'[t]] /\ \A t \in Search : searches'[t].at \in {"meta", "filter"} => searches'[t].branch \in Branch
    BY <1>3 DEF SearchTypes
<1>5. \A f \in filters' : f.branch \in Branch /\ f.allowed \subseteq ItemKey
  <2>1. CASE Backend!Fill(s)
    <3>1. searches[s].branch \in Branch
        BY <2>1 DEF Backend!Fill, SearchTypes
    <3>2. \A f \in filters' : f \in filters \/ (f.branch = searches[s].branch /\ f.allowed \subseteq ItemKey)
        BY <2>1 DEF Backend!Fill
    <3> QED
        BY <3>1, <3>2 DEF SearchTypes
  <2>2. CASE ~Backend!Fill(s)
      BY <2>2 DEF SearchTypes, Backend!ReadRevision, Backend!Hit, Backend!TakeSnapshot, Backend!caches
  <2> QED
      BY <2>1, <2>2
<1>6. spoiled' \in BOOLEAN /\ clearing' \in Branch \cup {Backend!NoBranch, Backend!Every}
    BY <1>1, Zenon DEF SearchTypes
<1>7. SearchTypes'
    BY <1>0, <1>4, <1>5, <1>6 DEF SearchTypes
<1> QED
    BY <1>2, <1>7

LEMMA NextSearchInv == SearchInv /\ [Backend!Next]_(Backend!vars) => SearchInv'
<1> SUFFICES ASSUME SearchInv, [Backend!Next]_(Backend!vars) PROVE SearchInv'
    OBVIOUS
<1> USE SameOperators
<1>1. ASSUME NEW b \in Branch, Backend!Reembed(b) \/ Backend!ReembedRaises(b) PROVE SearchInv'
  <2>1. PICK K \in SUBSET ItemKey : items' = Backend!Reembedded(b, K)
      BY <1>1 DEF Backend!Reembed, Backend!ReembedRaises
  <2>2. /\ Backend!LockFree /\ UNCHANGED <<chain, pinned, filters, searches, read_only>>
        /\ revision' \in 0..MaxRev
        /\ (clearing' = b /\ spoiled' = spoiled) \/ (clearing' = clearing /\ spoiled' = TRUE)
      BY <1>1 DEF Backend!Reembed, Backend!ReembedRaises, Backend!Commit, Backend!caches, SearchInv, SearchTypes
  <2>3. items' \in [Branch -> [ItemKey -> Item]] /\ ItemsOwn' /\ PinsIsolated' /\ PinsFollow'
      BY <2>1, <2>2, RowsReembedded
  <2>4. spoiled' \in BOOLEAN
      BY <2>2, Zenon DEF SearchInv, SearchTypes
  <2>5. SearchTypes'
      BY <2>2, <2>3, <2>4 DEF SearchInv, SearchTypes
  <2> QED
      BY <2>3, <2>5 DEF SearchInv
<1>2. CASE Backend!Configure
  <2>1. /\ Backend!LockFree /\ UNCHANGED <<chain, items, pinned, filters, searches, spoiled>>
        /\ revision' \in 0..MaxRev /\ read_only' \in BOOLEAN /\ clearing' = Backend!Every
      BY <1>2 DEF Backend!Configure, Backend!Commit, Backend!caches, SearchInv, SearchTypes
  <2>2. SearchTypes'
      BY <2>1 DEF SearchInv, SearchTypes
  <2>3. ItemsOwn' /\ \A b \in Branch : Backend!View(b)' = Backend!View(b)
      BY <2>1, RowsUnwritten
  <2>4. PinsIsolated'
      BY <2>1 DEF PinsIsolated, Backend!Exists, SearchInv
  <2>5. PinsFollow'
    <3>1. \A b \in Branch : clearing \notin ToSet(chain[b])
        BY <2>1, ChainsAreBranches DEF Backend!LockFree, SearchInv
    <3> QED
        BY <2>1, <2>3, <3>1 DEF PinsFollow, SearchInv
  <2> QED
      BY <2>2, <2>3, <2>4, <2>5 DEF SearchInv
<1>3. CASE UNCHANGED Backend!vars
  <2>1. UNCHANGED <<chain, items, revision, read_only, pinned, filters, clearing, spoiled, searches>>
      BY <1>3 DEF Backend!vars, Backend!rows, Backend!caches
  <2>2. ItemsOwn' /\ PinsIsolated' /\ PinsFollow'
      BY <2>1, OthersKeepPins
  <2>3. SearchTypes'
      BY <2>1 DEF SearchInv, SearchTypes
  <2> QED
      BY <2>2, <2>3 DEF SearchInv
<1>4. CASE Backend!Next
  <2>1. ASSUME NEW b \in Branch, NEW k \in ItemKey,
               Backend!Delete(b, k) \/ \E allowed \in BOOLEAN : Backend!Upsert(b, k, allowed) \/ Backend!PartialUpdate(b, k, allowed)
        PROVE  SearchInv'
      BY <2>1, ItemsKeepSearch
  <2>2. ASSUME NEW b \in Branch, NEW t \in Branch, Backend!CreateBranch(b, t) PROVE SearchInv'
      BY <2>2, BranchMade
  <2>3. ASSUME NEW s \in Search,
               \/ Backend!ReadRevision(s) \/ Backend!Hit(s) \/ Backend!Fill(s)
               \/ \E b \in Branch : Backend!TakeSnapshot(s, b)
        PROVE  SearchInv'
      BY <2>3, SearchesKeepSearch
  <2> QED
      BY <1>1, <1>2, <1>4, <2>1, <2>2, <2>3, PinsMove DEF Backend!Next
<1> QED
    BY <1>3, <1>4

-----------------------------------------------------------------------------
\* Outside of a write every pin is current, and rows and pins alike come from the chain.
LEMMA InvBranchesHold == SearchInv => BranchesHold
<1> SUFFICES ASSUME SearchInv PROVE BranchesHold
    OBVIOUS
<1>1. Backend!BranchesAreIsolated
  <2> SUFFICES ASSUME NEW b \in Branch, NEW k \in ItemKey
               PROVE  Backend!Row(b, k).by \in ToSet(chain[b]) \cup {Backend!NoBranch} /\ Backend!Seen(b)[k].by \in ToSet(chain[b]) \cup {Backend!NoBranch}
      BY DEF Backend!BranchesAreIsolated, ToSet, Backend!ToSet
  <2>1. Backend!Row(b, k).by \in ToSet(chain[b]) \cup {Backend!NoBranch} /\ Backend!View(b)[k] = Backend!Row(b, k)
      BY RowsAreIsolated DEF SearchInv, Backend!View
  <2>2. pinned[b] # Backend!Cold => pinned[b][k].by \in ToSet(chain[b]) \cup {Backend!NoBranch}
      BY DEF SearchInv, PinsIsolated
  <2> QED
      BY <2>1, <2>2 DEF Backend!Seen
<1>2. Backend!PinsAreCurrent
  <2>1. Backend!LockFree => \A b \in Branch : clearing \notin ToSet(chain[b])
      BY ChainsAreBranches DEF Backend!LockFree, SearchInv
  <2> QED
      BY <2>1 DEF Backend!PinsAreCurrent, Backend!Seen, SearchInv, PinsFollow
<1> QED
    BY <1>1, <1>2 DEF BranchesHold, Backend!BranchesHold

\* Whatever is written, branched, pinned and searched, by whatever calls: the state of
\* the backend is well typed.
THEOREM SearchTypeOK == Backend!Spec => []Backend!TypeOK
<1>1. SearchInv => Backend!TypeOK
  <2> SUFFICES ASSUME SearchInv PROVE Backend!TypeOK
      OBVIOUS
  <2>1. \A b \in Branch : Backend!ToSet(chain[b]) \subseteq Branch
      BY ChainsAreBranches DEF SearchInv, ToSet, Backend!ToSet
  <2>2. \A b \in Branch : pinned[b] = Backend!Cold \/ DOMAIN pinned[b] = ItemKey
      BY SameOperators DEF SearchInv, SearchTypes
  <2> QED
      BY <2>1, <2>2 DEF SearchInv, SearchTypes, Item, Backend!TypeOK
<1> QED
    BY <1>1, SearchInit, NextSearchInv, PTL DEF Backend!Spec

\* A branch shows only what was written through it and its ancestors, and outside of a
\* write a pinned branch shows what its rows say, unless a reembed or an invalidation
\* raised half way (local_search.py:64-67, 276-293).
THEOREM BranchesStayApart == Backend!Spec => []BranchesHold
  BY SearchInit, NextSearchInv, InvBranchesHold, PTL DEF Backend!Spec

-----------------------------------------------------------------------------
(* storage *)

Value == Put \cup {Storage!None, Storage!Migrated}

StorageTypes ==
    /\ l1 \in Value /\ raced \in BOOLEAN
    /\ row \in [value : Value, eligible : BOOLEAN]
    /\ puts \in [Put -> [at : {"idle", "table", "done"}, after : SUBSET Value]]
    /\ gets \in [Get -> [at : {"idle", "table", "warm", "done"}, after : SUBSET Value,
                         value : Value]]

\* What a call knows to be written is written.
AfterIsDone ==
    /\ \A p \in Put : p \notin puts[p].after /\ \A v \in Put \cap puts[p].after : puts[v].at = "done"
    /\ \A g \in Get : \A v \in Put \cap gets[g].after : puts[v].at = "done"

\* Nothing that opted out is eligible, nor on its way to Redis.
ColdIsKept ==
    /\ l1 \notin OptOut
    /\ row.eligible => row.value \notin OptOut
    /\ \A g \in Get : gets[g].at = "warm" => gets[g].value \notin OptOut

\* The row is of no put that one which is done has replaced; neither is Redis, which puts
\* reach first, and what has been read by now is of none that was replaced then.
RowIsLatest == \A p \in Put : puts[p].at = "done" => row.value \notin puts[p].after

L1IsLatest == ~raced /\ l1 # Storage!None => \A p \in Put : puts[p].at # "idle" => l1 \notin puts[p].after

ReadsAreRegular ==
    ~raced => \A g \in Get : gets[g].at \in {"warm", "done"} => gets[g].value \notin Storage!Replaced(gets[g].after)

StorageInv == StorageTypes /\ AfterIsDone /\ ColdIsKept /\ RowIsLatest /\ L1IsLatest /\ ReadsAreRegular

LEMMA InitStorageInv == Storage!Init => StorageInv
<1> SUFFICES ASSUME Storage!Init PROVE StorageInv
    OBVIOUS
<1> USE StorageAssumption DEF Storage!Init
<1>1. StorageTypes
    <2>1. row \in [value : Value, eligible : BOOLEAN]
        <3>1. \A v \in Value, e \in BOOLEAN : [value |-> v, eligible |-> e] \in [value : Value, eligible : BOOLEAN]
            OBVIOUS
        <3>2. Storage!None \in Value /\ Storage!Migrated \in Value
            BY DEF Value
        <3> QED
            BY <3>1, <3>2, Zenon DEF Storage!NoRow
    <2>2. l1 \in Value /\ raced \in BOOLEAN
        BY DEF Value
    <2>3. puts \in [Put -> [at : {"idle", "table", "done"}, after : SUBSET Value]]
        OBVIOUS
    <2>4. gets \in [Get -> [at : {"idle", "table", "warm", "done"}, after : SUBSET Value,
                           value : Value]]
        BY DEF Value
    <2> QED
        BY <2>1, <2>2, <2>3, <2>4 DEF StorageTypes
<1>2. AfterIsDone /\ RowIsLatest /\ L1IsLatest /\ ReadsAreRegular
    BY DEF AfterIsDone, RowIsLatest, L1IsLatest, ReadsAreRegular
<1>3. ColdIsKept
    BY DEF ColdIsKept, Storage!NoRow
<1> QED
    BY <1>1, <1>2, <1>3 DEF StorageInv

\* What a call that began had before it is settled.
LEMMA ReplacedStays ==
    ASSUME AfterIsDone, NEW g \in Get, gets'[g].after = gets[g].after,
           \A p \in Put : puts[p].at = "done" => puts'[p].after = puts[p].after
    PROVE  Storage!Replaced(gets[g].after)' = Storage!Replaced(gets[g].after)
BY DEF AfterIsDone, Storage!Replaced

\* _l1_put comes first, so that from here on an older value is only in Redis if a
\* back-fill brings it there, or if the put opted out (put, 170-181).
LEMMA BeginPutKeeps ==
    ASSUME StorageInv, NEW p \in Put, Storage!BeginPut(p)
    PROVE  StorageInv'
<1> USE StorageAssumption DEF StorageInv
<1>1. /\ puts[p].at = "idle" /\ row' = row /\ gets' = gets
      /\ puts' = [puts EXCEPT ![p] = [at |-> "table", after |-> Storage!Written]]
    BY DEF Storage!BeginPut
<1>2. /\ Storage!Written \subseteq Value
      /\ \A v \in Put \cap Storage!Written : puts[v].at = "done"
    BY DEF Storage!Written, Value
<1>3. /\ puts' \in [Put -> [at : {"idle", "table", "done"}, after : SUBSET Value]]
      /\ puts'[p].at = "table" /\ puts'[p].after = Storage!Written
      /\ \A q \in Put \ {p} : puts'[q] = puts[q]
    BY <1>1, <1>2 DEF StorageTypes
<1>4. CASE p \in OptOut
    <2>1. l1' = l1 /\ raced' = (raced \/ l1 # Storage!None)
        BY <1>4 DEF Storage!BeginPut
    <2>2. StorageTypes'
        BY <1>1, <1>3, <2>1 DEF StorageTypes
    <2>3. AfterIsDone' /\ ColdIsKept' /\ RowIsLatest'
        BY <1>1, <1>2, <1>3, <2>1 DEF AfterIsDone, ColdIsKept, RowIsLatest
    <2>4. L1IsLatest'
        BY <2>1 DEF L1IsLatest
    <2>5. ReadsAreRegular'
        <3>1. \A q \in Put : puts[q].at = "done" => puts'[q].after = puts[q].after
            BY <1>1, <1>3
        <3>2. \A g \in Get : Storage!Replaced(gets[g].after)' = Storage!Replaced(gets[g].after)
            BY <1>1, <3>1, ReplacedStays
        <3> QED
            BY <1>1, <2>1, <3>2 DEF ReadsAreRegular
    <2> QED
        BY <2>2, <2>3, <2>4, <2>5
<1>5. CASE p \notin OptOut
    <2>1. l1' = p /\ raced' = raced
        BY <1>5 DEF Storage!BeginPut
    <2>2. StorageTypes'
        BY <1>1, <1>3, <2>1 DEF StorageTypes, Value
    <2>3. AfterIsDone' /\ ColdIsKept' /\ RowIsLatest'
        BY <1>1, <1>2, <1>3, <1>5, <2>1 DEF AfterIsDone, ColdIsKept, RowIsLatest
    <2>4. \A q \in Put : p \notin puts'[q].after
        BY <1>1, <1>2, <1>3 DEF AfterIsDone
    <2>5. L1IsLatest'
        BY <2>1, <2>4 DEF L1IsLatest
    <2>6. ReadsAreRegular'
        BY <1>1, <1>3, <2>1, ReplacedStays DEF ReadsAreRegular
    <2> QED
        BY <2>2, <2>3, <2>5, <2>6
<1> QED
    BY <1>4, <1>5

\* The upsert makes the put known to those that follow (put, 182-190).
LEMMA WriteRowKeeps ==
    ASSUME StorageInv, NEW p \in Put, Storage!WriteRow(p)
    PROVE  StorageInv'
<1> USE StorageAssumption DEF StorageInv
<1>1. /\ puts[p].at = "table" /\ l1' = l1 /\ gets' = gets /\ raced' = raced
      /\ row' = [value |-> p, eligible |-> p \notin OptOut]
      /\ puts' = [puts EXCEPT ![p].at = "done"]
    BY DEF Storage!WriteRow
<1>2. /\ puts' \in [Put -> [at : {"idle", "table", "done"}, after : SUBSET Value]]
      /\ puts'[p].at = "done" /\ \A q \in Put : puts'[q].after = puts[q].after
      /\ \A q \in Put \ {p} : puts'[q] = puts[q]
    BY <1>1 DEF StorageTypes
<1>3. StorageTypes'
    BY <1>1, <1>2 DEF StorageTypes, Value
<1>4. \A q \in Put : p \notin puts[q].after
    BY <1>1 DEF AfterIsDone
<1>5. AfterIsDone' /\ ColdIsKept' /\ RowIsLatest'
    BY <1>1, <1>2, <1>4 DEF AfterIsDone, ColdIsKept, RowIsLatest
<1>6. L1IsLatest'
    BY <1>1, <1>2 DEF L1IsLatest
<1>7. ReadsAreRegular'
    BY <1>1, <1>2, ReplacedStays DEF ReadsAreRegular
<1> QED
    BY <1>3, <1>5, <1>6, <1>7

LEMMA ExpireKeeps == ASSUME StorageInv, Storage!Expire PROVE StorageInv'
<1> USE StorageAssumption DEF StorageInv
<1>1. l1' = Storage!None /\ UNCHANGED <<row, puts, gets, raced>>
    BY DEF Storage!Expire
<1>2. StorageTypes' /\ AfterIsDone' /\ ColdIsKept' /\ RowIsLatest' /\ L1IsLatest'
    BY <1>1 DEF StorageTypes, Value, AfterIsDone, ColdIsKept, RowIsLatest, L1IsLatest
<1>3. ReadsAreRegular'
    BY <1>1, ReplacedStays DEF ReadsAreRegular
<1> QED
    BY <1>2, <1>3

\* get() reads Redis, then the row, and writes an eligible one back (get, 192-222).
LEMMA GetKeeps ==
    ASSUME StorageInv, NEW g \in Get, Storage!BeginGet(g) \/ Storage!ReadRow(g) \/ Storage!Warm(g)
    PROVE  StorageInv'
<1> USE StorageAssumption DEF StorageInv
<1>1. puts' = puts /\ row' = row
    BY DEF Storage!BeginGet, Storage!ReadRow, Storage!Warm
<1>2. \A other \in Get : gets'[other].after = gets[other].after
                         => Storage!Replaced(gets[other].after)' = Storage!Replaced(gets[other].after)
    BY <1>1, ReplacedStays
<1>3. ASSUME Storage!BeginGet(g) PROVE StorageInv'
    <2>1. /\ l1' = l1 /\ raced' = raced
          /\ gets' = [gets EXCEPT ![g] = [at |-> IF l1 = Storage!None THEN "table" ELSE "done",
                                          after |-> Storage!Written, value |-> l1]]
        BY <1>3 DEF Storage!BeginGet
    <2>2. /\ Storage!Written \subseteq Value
          /\ \A v \in Put \cap Storage!Written : puts[v].at = "done"
        BY DEF Storage!Written, Value
    <2>3. /\ gets'[g] = [at |-> IF l1 = Storage!None THEN "table" ELSE "done",
                         after |-> Storage!Written, value |-> l1]
          /\ \A other \in Get \ {g} : gets'[other] = gets[other]
        BY <2>1 DEF StorageTypes
    <2>4. StorageTypes'
        BY <1>1, <2>1, <2>2 DEF StorageTypes
    <2>5. AfterIsDone' /\ ColdIsKept' /\ RowIsLatest' /\ L1IsLatest'
        BY <1>1, <2>1, <2>2, <2>3 DEF AfterIsDone, ColdIsKept, RowIsLatest, L1IsLatest
    <2>6. ASSUME ~raced, l1 # Storage!None PROVE l1 \notin Storage!Replaced(Storage!Written)'
        BY <1>1, <2>2, <2>6 DEF L1IsLatest, Storage!Replaced, Storage!Written
    <2>7. Storage!Written' = Storage!Written
        BY <1>1 DEF Storage!Written
    <2>8. Storage!Replaced(gets[g].after)' = Storage!Replaced(Storage!Written)'
        BY <2>3, <2>7 DEF Storage!Replaced
    <2>9. ReadsAreRegular'
        BY <1>2, <2>1, <2>3, <2>6, <2>8 DEF ReadsAreRegular
    <2> QED
        BY <2>4, <2>5, <2>9
<1>4. ASSUME Storage!ReadRow(g) PROVE StorageInv'
    <2>1. /\ l1' = l1 /\ raced' = raced /\ gets[g].at = "table"
          /\ gets' = [gets EXCEPT ![g].at = IF row.eligible THEN "warm" ELSE "done",
                                  ![g].value = row.value]
        BY <1>4 DEF Storage!ReadRow
    <2> DEFINE place == IF row.eligible THEN "warm" ELSE "done"
    <2>2. gets' = [gets EXCEPT ![g].at = place, ![g].value = row.value]
        BY <2>1
    <2>3. place \in {"warm", "done"} /\ (place = "warm" => row.eligible)
        BY Zenon
    <2> HIDE DEF place
    <2>4. /\ gets'[g].at = place /\ gets'[g].value = row.value /\ gets'[g].after = gets[g].after
          /\ \A other \in Get \ {g} : gets'[other] = gets[other]
        BY <2>2 DEF StorageTypes
    <2>5. StorageTypes'
        <3>1. row.value \in Value
            BY DEF StorageTypes
        <3>2. gets[g] \in [at : {"idle", "table", "warm", "done"}, after : SUBSET Value, value : Value]
            BY DEF StorageTypes
        <3>3. [gets[g] EXCEPT !.at = place, !.value = row.value]
                  \in [at : {"idle", "table", "warm", "done"}, after : SUBSET Value, value : Value]
            BY <2>3, <3>1, <3>2
        <3>4. gets' \in [Get -> [at : {"idle", "table", "warm", "done"}, after : SUBSET Value, value : Value]]
            BY <2>2, <3>3 DEF StorageTypes
        <3> QED
            BY <1>1, <2>1, <3>4 DEF StorageTypes
    <2>6. AfterIsDone'
        BY <1>1, <2>4 DEF AfterIsDone
    <2>7. RowIsLatest' /\ L1IsLatest'
        BY <1>1, <2>1 DEF RowIsLatest, L1IsLatest
    <2>8. ColdIsKept'
        BY <1>1, <2>1, <2>3, <2>4 DEF ColdIsKept
    <2>9. row.value \notin Storage!Replaced(gets[g].after)
        BY DEF RowIsLatest, AfterIsDone, Storage!Replaced
    <2>10. ReadsAreRegular'
        BY <1>2, <2>1, <2>4, <2>9 DEF ReadsAreRegular
    <2> QED
        BY <2>5, <2>6, <2>7, <2>8, <2>10
<1>5. ASSUME Storage!Warm(g) PROVE StorageInv'
    <2>1. /\ gets[g].at = "warm" /\ l1' = gets[g].value
          /\ raced' = (raced \/ \E p \in Put : puts[p].at # "idle" /\ gets[g].value # p
                                               /\ gets[g].value \in puts[p].after)
          /\ gets' = [gets EXCEPT ![g].at = "done"]
        BY <1>5 DEF Storage!Warm
    <2>2. /\ gets'[g].at = "done" /\ gets'[g].value = gets[g].value /\ gets'[g].after = gets[g].after
          /\ \A other \in Get \ {g} : gets'[other] = gets[other]
        BY <2>1 DEF StorageTypes
    <2>3. raced' \in BOOLEAN
        BY <2>1
    <2>4. StorageTypes'
        BY <1>1, <2>1, <2>3 DEF StorageTypes
    <2>5. AfterIsDone' /\ ColdIsKept' /\ RowIsLatest'
        BY <1>1, <2>1, <2>2 DEF AfterIsDone, ColdIsKept, RowIsLatest
    <2>7. L1IsLatest'
        <3> SUFFICES ASSUME ~raced', NEW p \in Put, puts[p].at # "idle", gets[g].value \in puts[p].after
                     PROVE  FALSE
            BY <1>1, <2>1 DEF L1IsLatest
        <3>1. gets[g].value = p
            BY <2>1
        <3> QED
            BY <3>1 DEF AfterIsDone
    <2>8. ReadsAreRegular'
        BY <1>2, <2>1, <2>2 DEF ReadsAreRegular
    <2> QED
        BY <2>4, <2>5, <2>7, <2>8
<1> QED
    BY <1>3, <1>4, <1>5

LEMMA NextStorageInv == StorageInv /\ [Storage!Next]_(Storage!vars) => StorageInv'
<1> SUFFICES ASSUME StorageInv, [Storage!Next]_(Storage!vars) PROVE StorageInv'
    OBVIOUS
<1>1. CASE UNCHANGED Storage!vars
    <2>1. UNCHANGED <<l1, row, puts, gets, raced>>
        BY <1>1 DEF Storage!vars
    <2>2. (StorageTypes /\ AfterIsDone /\ ColdIsKept /\ RowIsLatest /\ L1IsLatest)'
        BY <2>1 DEF StorageInv, StorageTypes, AfterIsDone, ColdIsKept, RowIsLatest, L1IsLatest
    <2>3. ReadsAreRegular'
        BY <2>1, ReplacedStays DEF StorageInv, ReadsAreRegular
    <2> QED
        BY <2>2, <2>3 DEF StorageInv
<1>2. ASSUME NEW p \in Put, Storage!BeginPut(p) \/ Storage!WriteRow(p) PROVE StorageInv'
    BY <1>2, BeginPutKeeps, WriteRowKeeps
<1>3. ASSUME NEW g \in Get, Storage!BeginGet(g) \/ Storage!ReadRow(g) \/ Storage!Warm(g) PROVE StorageInv'
    BY <1>3, GetKeeps
<1> QED
    BY <1>1, <1>2, <1>3, ExpireKeeps DEF Storage!Next

\* Tiers, rows and calls are well typed.
THEOREM StorageTypeOK == Storage!Spec => []Storage!TypeOK
<1>1. StorageInv => Storage!TypeOK
    BY DEF StorageInv, StorageTypes, Storage!TypeOK, Value
<1> QED
    BY <1>1, InitStorageInv, NextStorageInv, PTL DEF Storage!Spec

\* However puts and gets interleave and entries expire: what opted out of the hot tier never
\* gets there, and a get returns nothing that was replaced before it began, unless Redis
\* was left, or given back, an older value (put, get).
THEOREM TiersStayInAgreement == Storage!Spec => []TiersAgree
<1>1. StorageInv => TiersAgree
    BY DEF StorageInv, ColdIsKept, ReadsAreRegular, TiersAgree, Storage!OptedOutStaysCold, Storage!GetsAreRegular
<1> QED
    BY <1>1, InitStorageInv, NextStorageInv, PTL DEF Storage!Spec

-----------------------------------------------------------------------------
(* links *)

Cluster == {ClusterOf[d] : d \in Descriptor} \cup {Links!None}
Adapter == [identity : Nat, cluster : Cluster, text : Cluster]
Entry   == [identity : Nat, cluster : Cluster, adapter : Adapter]

Registering == [at : {"idle", "row", "check", "publish", "write", "done", "raised"},
                generation : Nat, row : Entry, identity : Nat]
Training    == [at : {"idle", "binding", "target", "artifact", "write", "done", "raised"},
                text : Cluster, row : Entry, adapter : Adapter]
Resolving   == [at : {"idle", "active", "snapshot", "resolved", "raised"},
                text : Cluster, row : Entry, generation : Nat]

LinkTypes ==
    /\ described \in Seq(Descriptor) /\ cut \subseteq 1..Len(described)
    /\ identities \in Seq([descriptor : Descriptor, roots : Nat])
    /\ link \in Entry
    /\ registers \in [Register -> Registering]
    /\ attaches \in [Attach -> Training]
    /\ resolves \in [Resolve -> Resolving]

\* An identity says what a generation of the knowledge says, on whose origins it rests.
IdentitiesAreCompiled ==
    \A i \in 1..Len(identities) : /\ identities[i].roots \in 1..Len(described)
                                  /\ identities[i].descriptor = described[identities[i].roots]

\* A call that published an identity is the only one that will write it.
RegistersKnow ==
    /\ \A c \in Register :
        /\ registers[c].at \in {"row", "check", "publish", "write"} => registers[c].generation \in 1..Len(described)
        /\ registers[c].at = "write" => registers[c].identity \in 1..Len(identities)
    /\ \A c, d \in Register : c # d /\ registers[c].at = "write" /\ registers[d].at = "write"
                              => registers[c].identity # registers[d].identity

\* Nobody is about to write an entry with identity i: it was written, once.
Settled(i) == \A c \in Register : registers[c].at = "write" => registers[c].identity # i

\* An entry has the cluster of its identity, and an adapter for this identity was trained to
\* answer with that cluster.
IsCompiled(e) == e.identity \in 1..Len(identities) /\ e.cluster = ClusterOf[identities[e.identity].descriptor]
Answers(e)    == e.adapter.identity = e.identity => e.adapter.text = e.adapter.cluster

LinkIsCompiled ==
    /\ link = Links!NoLink \/ IsCompiled(link)
    /\ Settled(link.identity) /\ Answers(link)

\* The row a training found is still there, or was replaced for good: as long as the entry
\* has its identity, the text that was checked is the row's.
TrainingsFit ==
    \A c \in Attach :
        /\ attaches[c].at \notin {"idle"} => link # Links!NoLink
        /\ attaches[c].at \in {"target", "artifact", "write"} =>
             IsCompiled(attaches[c].row) /\ Settled(attaches[c].row.identity)
        /\ attaches[c].at = "artifact" /\ link.identity = attaches[c].row.identity =>
             attaches[c].text = attaches[c].row.cluster
        /\ attaches[c].at = "write" =>
             /\ attaches[c].adapter.identity = attaches[c].row.identity
             /\ attaches[c].adapter.cluster = attaches[c].row.cluster
             /\ link.identity = attaches[c].row.identity => attaches[c].adapter.text = attaches[c].adapter.cluster

\* What a call of resolve compared stays as it was.
ResolvesCompared ==
    \A c \in Resolve :
        /\ resolves[c].at \in {"active", "snapshot"} => IsCompiled(resolves[c].row) /\ Answers(resolves[c].row)
        /\ resolves[c].at = "snapshot" =>
             /\ resolves[c].generation \in 1..Len(described)
             /\ Links!Matches(resolves[c].row, resolves[c].text, resolves[c].generation)

LinkInv == LinkTypes /\ IdentitiesAreCompiled /\ RegistersKnow /\ LinkIsCompiled /\ TrainingsFit /\ ResolvesCompared

LEMMA InitLinkInv == Links!Init => LinkInv
<1> SUFFICES ASSUME Links!Init PROVE LinkInv
    OBVIOUS
<1>1. Links!NoLink \in Entry /\ Links!NoAdapter \in Adapter /\ Links!None \in Cluster
    BY DEF Links!NoLink, Links!NoAdapter, Entry, Adapter, Cluster
<1>2. LinkTypes
    BY <1>1 DEF Links!Init, LinkTypes, Registering, Training, Resolving
<1>3. LinkIsCompiled
    BY DEF Links!Init, LinkIsCompiled, Settled, Answers, Links!NoLink, Links!NoAdapter
<1>4. IdentitiesAreCompiled /\ RegistersKnow /\ TrainingsFit /\ ResolvesCompared
    BY DEF Links!Init, IdentitiesAreCompiled, RegistersKnow, TrainingsFit, ResolvesCompared
<1> QED
    BY <1>2, <1>3, <1>4 DEF LinkInv

\* The knowledge is described anew, or its origins are withdrawn.
LEMMA KnowledgeSteps ==
    ASSUME LinkInv, Links!Publish \/ Links!Withdraw
    PROVE  LinkInv'
<1> USE DEF LinkInv
<1>1. UNCHANGED <<identities, link, registers, attaches, resolves>>
    BY DEF Links!Publish, Links!Withdraw
<1>2. /\ described' \in Seq(Descriptor) /\ Len(described) <= Len(described')
      /\ \A g \in 1..Len(described) : described'[g] = described[g]
      /\ cut' \subseteq 1..Len(described')
    <2>1. CASE Links!Publish
        BY <2>1 DEF Links!Publish, LinkTypes
    <2>2. CASE Links!Withdraw
        BY <2>2 DEF Links!Withdraw, LinkTypes, Links!Latest
    <2> QED
        BY <2>1, <2>2
<1>3. LinkTypes'
    BY <1>1, <1>2 DEF LinkTypes
<1>4. IdentitiesAreCompiled' /\ RegistersKnow'
    <2>1. 1..Len(described) \subseteq 1..Len(described')
        BY <1>2 DEF LinkTypes
    <2>2. IdentitiesAreCompiled'
        BY <1>1, <1>2, <2>1 DEF IdentitiesAreCompiled
    <2>3. RegistersKnow'
        BY <1>1, <2>1 DEF RegistersKnow
    <2> QED
        BY <2>2, <2>3
<1>5. LinkIsCompiled' /\ TrainingsFit'
    BY <1>1 DEF LinkIsCompiled, TrainingsFit, Settled, Answers, IsCompiled
<1>6. ResolvesCompared'
    BY <1>1, <1>2 DEF ResolvesCompared, IsCompiled, Answers, Links!Matches, LinkTypes
<1> QED
    BY <1>3, <1>4, <1>5, <1>6

\* Steps of register before it publishes.
LEMMA RegisterReads ==
    ASSUME LinkInv, NEW c \in Register,
           Links!BeginRegister(c) \/ Links!ReadLink(c) \/ Links!CheckIdentity(c)
    PROVE  LinkInv'
<1> USE DEF LinkInv
<1>1. UNCHANGED <<described, cut, identities, link, attaches, resolves>>
    BY DEF Links!BeginRegister, Links!ReadLink, Links!CheckIdentity, Links!Registers, Links!registry
<1>2. PICK new \in Registering : registers' = [registers EXCEPT ![c] = new]
        /\ new.at \in {"row", "check", "publish", "done"} /\ new.generation \in 1..Len(described)
    <2>0. registers[c] \in Registering
        BY DEF LinkTypes
    <2>1. CASE Links!BeginRegister(c)
        <3>1. Links!Latest \in 1..Len(described) /\ Links!Latest \in Nat
            BY <2>1 DEF Links!BeginRegister, Links!LiveLatest, Links!Latest, LinkTypes
        <3> DEFINE new == [registers[c] EXCEPT !.at = "row", !.generation = Links!Latest]
        <3>2. registers' = [registers EXCEPT ![c] = new]
            BY <2>1 DEF Links!BeginRegister, Links!Registers
        <3>3. new \in Registering /\ new.at = "row" /\ new.generation = Links!Latest
            BY <2>0, <3>1 DEF Registering
        <3> QED
            BY <3>1, <3>2, <3>3
    <2>2. CASE Links!ReadLink(c)
        <3>1. registers[c].generation \in 1..Len(described) /\ link \in Entry
            BY <2>2 DEF Links!ReadLink, LinkTypes, RegistersKnow
        <3> DEFINE new == [registers[c] EXCEPT !.at = "check", !.row = link]
        <3>2. registers' = [registers EXCEPT ![c] = new]
            BY <2>2 DEF Links!ReadLink, Links!Registers
        <3>3. new \in Registering /\ new.at = "check" /\ new.generation = registers[c].generation
            BY <2>0, <3>1 DEF Registering
        <3> QED
            BY <3>1, <3>2, <3>3
    <2>3. CASE Links!CheckIdentity(c)
        <3>1. registers[c].generation \in 1..Len(described)
            BY <2>3 DEF Links!CheckIdentity, RegistersKnow
        <3>2. PICK at \in {"done", "publish"} : registers' = [registers EXCEPT ![c] = [registers[c] EXCEPT !.at = at]]
            BY <2>3 DEF Links!CheckIdentity, Links!Registers
        <3> DEFINE new == [registers[c] EXCEPT !.at = at]
        <3>3. new \in Registering /\ new.at = at /\ new.generation = registers[c].generation
            BY <2>0 DEF Registering
        <3> QED
            BY <3>1, <3>2, <3>3
    <2> QED
        BY <2>1, <2>2, <2>3
<1>3. /\ registers'[c] = new /\ new.at # "write"
      /\ \A d \in Register \ {c} : registers'[d] = registers[d]
    BY <1>2 DEF LinkTypes
<1>4. LinkTypes'
    BY <1>1, <1>2 DEF LinkTypes
<1>5. IdentitiesAreCompiled' /\ RegistersKnow'
    BY <1>1, <1>2, <1>3 DEF IdentitiesAreCompiled, RegistersKnow
<1>6. \A i : Settled(i) => \A d \in Register : registers'[d].at = "write" => registers'[d].identity # i
    BY <1>3 DEF Settled
<1>7. LinkIsCompiled' /\ TrainingsFit'
    BY <1>1, <1>6 DEF LinkIsCompiled, TrainingsFit, Settled, Answers, IsCompiled
<1>8. ResolvesCompared'
    BY <1>1 DEF ResolvesCompared, IsCompiled, Answers, Links!Matches
<1> QED
    BY <1>4, <1>5, <1>7, <1>8

\* However a call of register ends, its other fields stay.
LEMMA RegisterEnds ==
    ASSUME LinkTypes, NEW c \in Register, NEW at \in {"done", "raised"}
    PROVE  [registers[c] EXCEPT !.at = at] \in Registering
<1>1. registers[c] \in Registering
    BY DEF LinkTypes
<1> QED
    BY <1>1 DEF Registering

LEMMA PublishIdentityKeeps ==
    ASSUME LinkInv, NEW c \in Register, Links!PublishIdentity(c)
    PROVE  LinkInv'
<1> USE DEF LinkInv
<1> DEFINE g == registers[c].generation
<1>1. UNCHANGED <<described, cut, link, attaches, resolves>>
    BY DEF Links!PublishIdentity, Links!Registers, Links!registry
<1>2. g \in 1..Len(described) /\ described[g] \in Descriptor /\ registers[c].at = "publish" /\ registers[c].row \in Entry
    BY DEF Links!PublishIdentity, RegistersKnow, LinkTypes, Registering, Training, Resolving
<1>3. CASE g \in cut
    <2>1. identities' = identities /\ registers' = [registers EXCEPT ![c] = [registers[c] EXCEPT !.at = "raised"]]
        BY <1>3 DEF Links!PublishIdentity, Links!Registers
    <2>2. registers'[c].at = "raised" /\ \A d \in Register \ {c} : registers'[d] = registers[d]
        BY <2>1 DEF LinkTypes
    <2>3. LinkTypes'
        <3>1. [registers[c] EXCEPT !.at = "raised"] \in Registering
            BY RegisterEnds
        <3>2. registers' \in [Register -> Registering]
            BY <2>1, <3>1 DEF LinkTypes
        <3> QED
            BY <1>1, <2>1, <3>2 DEF LinkTypes
    <2>4. IdentitiesAreCompiled' /\ RegistersKnow'
        BY <1>1, <2>1, <2>2 DEF IdentitiesAreCompiled, RegistersKnow
    <2>5. LinkIsCompiled' /\ TrainingsFit'
        BY <1>1, <2>1, <2>2 DEF LinkIsCompiled, TrainingsFit, Settled, Answers, IsCompiled
    <2>6. ResolvesCompared'
        BY <1>1, <2>1 DEF ResolvesCompared, IsCompiled, Answers, Links!Matches
    <2> QED
        BY <2>3, <2>4, <2>5, <2>6
<1>4. CASE g \notin cut
    <2> DEFINE new == [descriptor |-> described[g], roots |-> g]
               n == Len(identities)
    <2>1. /\ identities' = Append(identities, new)
          /\ registers' = [registers EXCEPT ![c] = [registers[c] EXCEPT !.at = "write", !.identity = n + 1]]
        BY <1>4 DEF Links!PublishIdentity, Links!Registers
    <2>2. n \in Nat /\ new \in [descriptor : Descriptor, roots : Nat]
        BY <1>2 DEF LinkTypes
    <2>3. /\ registers'[c].at = "write" /\ registers'[c].identity = n + 1 /\ registers'[c].generation = g
          /\ \A d \in Register \ {c} : registers'[d] = registers[d]
        BY <2>1 DEF LinkTypes
    <2>4. /\ Len(identities') = n + 1 /\ identities'[n + 1] = new
          /\ \A i \in 1..n : identities'[i] = identities[i]
          /\ identities' \in Seq([descriptor : Descriptor, roots : Nat])
        BY <2>1, <2>2 DEF LinkTypes
    <2>5. new.descriptor = described[g] /\ new.roots = g
        OBVIOUS
    <2> HIDE DEF new, n
    <2>6. LinkTypes'
        <3>1. registers' \in [Register -> Registering]
            <4>1. [registers[c] EXCEPT !.at = "write", !.identity = n + 1] \in
                      Registering
                <5>1. /\ registers[c] \in Registering
                      /\ n + 1 \in Nat
                    BY <2>2 DEF LinkTypes
                <5> HIDE DEF LinkInv
                <5> QED
                    BY <5>1 DEF Registering, Training, Resolving
            <4> QED
                BY <2>1, <4>1 DEF LinkTypes
        <3> QED
            BY <1>1, <2>4, <3>1 DEF LinkTypes
    <2>7. IdentitiesAreCompiled'
        <3>1. \A j \in 1..n : identities[j].roots \in 1..Len(described) /\ identities[j].descriptor = described[identities[j].roots]
            BY DEF IdentitiesAreCompiled, n
        <3>2. \A j \in 1..(n + 1) : /\ identities'[j].roots \in 1..Len(described)
                                     /\ identities'[j].descriptor = described[identities'[j].roots]
            <4> SUFFICES ASSUME NEW j \in 1..(n + 1)
                         PROVE  /\ identities'[j].roots \in 1..Len(described)
                                /\ identities'[j].descriptor = described[identities'[j].roots]
                OBVIOUS
            <4>1. CASE j = n + 1
                BY <1>2, <2>4, <2>5, <4>1
            <4>2. CASE j \in 1..n
                BY <2>4, <3>1, <4>2
            <4> QED
                BY <2>2, <4>1, <4>2
        <3> QED
            BY <1>1, <2>4, <3>2 DEF IdentitiesAreCompiled
    <2>8. RegistersKnow'
        <3>1. \A d \in Register : registers'[d].at = "write" => registers'[d].identity \in 1..(n + 1)
            BY <2>2, <2>3 DEF RegistersKnow, n
        <3>2. \A d \in Register \ {c} : registers'[d].at = "write" => registers'[d].identity # n + 1
            BY <2>2, <2>3 DEF RegistersKnow, n
        <3>3. \A d \in Register : registers'[d].at \in {"row", "check", "publish", "write"}
                                    => registers'[d].generation \in 1..Len(described)
            BY <1>2, <2>3 DEF RegistersKnow
        <3>4. \A d, e \in Register : d # e /\ registers'[d].at = "write" /\ registers'[e].at = "write"
                                     => registers'[d].identity # registers'[e].identity
            <4> SUFFICES ASSUME NEW d \in Register, NEW e \in Register, d # e,
                                registers'[d].at = "write", registers'[e].at = "write"
                         PROVE  registers'[d].identity # registers'[e].identity
                OBVIOUS
            <4>1. CASE d # c /\ e # c
                BY <2>3, <4>1 DEF RegistersKnow
            <4>2. CASE d = c \/ e = c
                BY <2>3, <3>2, <4>2
            <4> QED
                BY <4>1, <4>2
        <3>5. described' = described /\ Len(identities') = n + 1
            BY <1>1, <2>4
        <3> QED
            BY <3>1, <3>3, <3>4, <3>5 DEF RegistersKnow
    <2>9. \A i \in 0..n : Settled(i) => Settled(i)'
        <3> SUFFICES ASSUME NEW i \in 0..n, Settled(i), NEW d \in Register, registers'[d].at = "write"
                     PROVE  registers'[d].identity # i
            BY DEF Settled
        <3> QED
            BY <2>2, <2>3 DEF Settled
    <2>10. \A e \in Entry : IsCompiled(e) => /\ IsCompiled(e)' /\ e.identity \in 1..n
                                              /\ identities'[e.identity] = identities[e.identity]
        BY <1>1, <2>2, <2>4 DEF IsCompiled, n
    <2>11. LinkIsCompiled'
        <3>1. link.identity \in 0..n
            BY <2>2, <2>10 DEF LinkIsCompiled, LinkTypes, Links!NoLink
        <3> QED
            BY <1>1, <2>9, <2>10, <3>1 DEF LinkIsCompiled, LinkTypes, Answers, IsCompiled
    <2>12. TrainingsFit'
        <3>1. \A a \in Attach : attaches[a].at \in {"target", "artifact", "write"} =>
                  IsCompiled(attaches[a].row)' /\ Settled(attaches[a].row.identity)'
            <4> SUFFICES ASSUME NEW a \in Attach, attaches[a].at \in {"target", "artifact", "write"}
                         PROVE  IsCompiled(attaches[a].row)' /\ Settled(attaches[a].row.identity)'
                OBVIOUS
            <4>1. attaches[a].row \in Entry /\ IsCompiled(attaches[a].row) /\ Settled(attaches[a].row.identity)
                BY DEF TrainingsFit, LinkTypes, Registering, Training, Resolving
            <4>2. attaches[a].row.identity \in 0..n
                BY <2>2, <2>10, <4>1
            <4>3. Settled(attaches[a].row.identity)'
                BY <1>1, <2>9, <4>1, <4>2 DEF Settled
            <4> QED
                BY <1>1, <2>10, <4>1, <4>3 DEF IsCompiled
        <3> QED
            BY <1>1, <3>1 DEF TrainingsFit
    <2>13. ResolvesCompared'
        <3> SUFFICES ASSUME NEW r \in Resolve
                     PROVE  /\ resolves[r].at \in {"active", "snapshot"} => IsCompiled(resolves[r].row)' /\ Answers(resolves[r].row)'
                            /\ resolves[r].at = "snapshot" =>
                                 /\ resolves[r].generation \in 1..Len(described)
                                 /\ Links!Matches(resolves[r].row, resolves[r].text, resolves[r].generation)'
            BY <1>1 DEF ResolvesCompared
        <3>1. resolves[r].row \in Entry
            BY DEF LinkTypes, Registering, Training, Resolving
        <3> QED
            BY <1>1, <2>10, <3>1 DEF ResolvesCompared, Answers, IsCompiled, Links!Matches
    <2> QED
        BY <2>6, <2>7, <2>8, <2>11, <2>12, <2>13
<1> QED
    BY <1>3, <1>4

\* The row of an identity is written once: nothing that was read has this identity.
LEMMA WriteLinkKeeps ==
    ASSUME LinkInv, NEW c \in Register, Links!WriteLink(c)
    PROVE  LinkInv'
<1> USE DEF LinkInv
<1> DEFINE i == registers[c].identity
<1>1. UNCHANGED <<described, cut, identities, attaches, resolves>>
    BY DEF Links!WriteLink, Links!Registers, Links!registry
<1>2. registers[c].at = "write" /\ i \in 1..Len(identities) /\ identities[i].descriptor \in Descriptor
    <2>1. registers[c].at = "write" /\ i \in 1..Len(identities)
        BY DEF Links!WriteLink, RegistersKnow
    <2> HIDE DEF i
    <2>2. identities[i] \in [descriptor : Descriptor, roots : Nat]
        <3> DEFINE Identity == [descriptor : Descriptor, roots : Nat]
        <3>1. identities \in Seq(Identity)
            BY DEF LinkTypes
        <3> HIDE DEF Identity
        <3>2. identities[i] \in Identity
            BY <2>1, <3>1
        <3> QED
            BY <3>2 DEF Identity
    <2> QED
        BY <2>1, <2>2
<1>3. /\ link' = [identity |-> i, cluster |-> ClusterOf[identities[i].descriptor], adapter |-> Links!NoAdapter]
      /\ registers' = [registers EXCEPT ![c] = [registers[c] EXCEPT !.at = "done"]]
    BY DEF Links!WriteLink, Links!Registers
<1>4. link'.identity = i /\ link'.cluster = ClusterOf[identities[i].descriptor] /\ link'.adapter = Links!NoAdapter
    BY <1>3
<1>5. registers'[c].at = "done" /\ \A d \in Register \ {c} : registers'[d] = registers[d]
    BY <1>3 DEF LinkTypes
<1>6. link' \in Entry
    <2>1. ClusterOf[identities[i].descriptor] \in Cluster /\ Links!NoAdapter \in Adapter /\ i \in Nat
        BY <1>2 DEF Cluster, Adapter, Links!NoAdapter
    <2> QED
        BY <1>3, <2>1 DEF Entry
<1>7. LinkTypes'
    <2>1. [registers[c] EXCEPT !.at = "done"] \in Registering
        BY RegisterEnds
    <2>2. registers' \in [Register -> Registering]
        BY <1>3, <2>1 DEF LinkTypes
    <2> QED
        BY <1>1, <1>6, <2>2 DEF LinkTypes
<1>8. IdentitiesAreCompiled' /\ RegistersKnow'
    BY <1>1, <1>5 DEF IdentitiesAreCompiled, RegistersKnow
<1>9. /\ ~Settled(i)
      /\ \A d \in Register : registers'[d].at = "write" => registers'[d].identity # i
      /\ \A j : Settled(j) => \A d \in Register : registers'[d].at = "write" => registers'[d].identity # j
    <2>1. ~Settled(i)
        BY <1>2 DEF Settled
    <2>2. \A d \in Register : registers'[d].at = "write" => registers'[d].identity # i
        BY <1>2, <1>5 DEF RegistersKnow
    <2>3. \A j : Settled(j) => \A d \in Register : registers'[d].at = "write" => registers'[d].identity # j
        BY <1>5 DEF Settled
    <2> QED
        BY <2>1, <2>2, <2>3
<1>10. LinkIsCompiled'
    <2>1. IsCompiled(link)'
        BY <1>1, <1>2, <1>4 DEF IsCompiled
    <2>2. Answers(link)'
        BY <1>2, <1>4 DEF Answers, Links!NoAdapter
    <2>3. Settled(link.identity)'
        BY <1>4, <1>9 DEF Settled
    <2> QED
        BY <2>1, <2>2, <2>3 DEF LinkIsCompiled
<1>11. link' # Links!NoLink
    BY <1>2, <1>4 DEF Links!NoLink
<1>12. TrainingsFit'
    <2> SUFFICES ASSUME NEW a \in Attach, attaches[a].at \in {"target", "artifact", "write"}
                 PROVE  /\ IsCompiled(attaches[a].row) /\ Settled(attaches[a].row.identity)
                        /\ \A d \in Register : registers'[d].at = "write" => registers'[d].identity # attaches[a].row.identity
                        /\ attaches[a].row.identity # i
        BY <1>1, <1>4, <1>11 DEF TrainingsFit, IsCompiled, Settled
    <2> QED
        BY <1>9 DEF TrainingsFit
<1>13. ResolvesCompared'
    BY <1>1 DEF ResolvesCompared, IsCompiled, Answers, Links!Matches
<1> QED
    BY <1>7, <1>8, <1>10, <1>12, <1>13

\* A step of a training, which leaves the entry its identity.
LEMMA AttachSteps ==
    ASSUME LinkInv, NEW c \in Attach,
           \/ Links!TakeTarget(c) \/ Links!ReadBinding(c) \/ Links!CheckTarget(c)
           \/ Links!MakeAdapter(c) \/ Links!WriteAdapter(c)
    PROVE  LinkInv'
<1> USE DEF LinkInv
<1>1. /\ UNCHANGED <<described, cut, identities, registers, resolves>>
      /\ link # Links!NoLink
    <2>1. UNCHANGED <<described, cut, identities, registers, resolves>>
        BY DEF Links!TakeTarget, Links!ReadBinding, Links!CheckTarget, Links!MakeAdapter, Links!WriteAdapter,
               Links!Attaches, Links!registry
    <2>2. link # Links!NoLink
        BY DEF Links!TakeTarget, Links!ReadBinding, Links!CheckTarget, Links!MakeAdapter, Links!WriteAdapter, TrainingsFit
    <2> QED
        BY <2>1, <2>2
<1>2. /\ link \in Entry /\ IsCompiled(link) /\ Settled(link.identity) /\ Answers(link)
      /\ attaches[c].text \in Cluster /\ attaches[c].row \in Entry /\ attaches[c].adapter \in Adapter
    BY <1>1 DEF LinkIsCompiled, LinkTypes, Registering, Training, Resolving
<1> DEFINE Fits(a) ==
        /\ a.at \in {"target", "artifact", "write"} => IsCompiled(a.row) /\ Settled(a.row.identity)
        /\ a.at = "artifact" /\ link.identity = a.row.identity => a.text = a.row.cluster
        /\ a.at = "write" => /\ a.adapter.identity = a.row.identity /\ a.adapter.cluster = a.row.cluster
                             /\ link.identity = a.row.identity => a.adapter.text = a.adapter.cluster
<1>3. \A a \in Attach : Fits(attaches[a])
    BY DEF TrainingsFit
<1>4. /\ link' \in Entry /\ link'.identity = link.identity /\ link'.cluster = link.cluster /\ Answers(link)'
    <2>1. CASE Links!WriteAdapter(c)
        <3>1. link' = [link EXCEPT !.adapter = attaches[c].adapter] /\ attaches[c].at = "write"
            BY <2>1 DEF Links!WriteAdapter
        <3>2. link' \in Entry /\ link'.identity = link.identity /\ link'.cluster = link.cluster
              /\ link'.adapter = attaches[c].adapter
            BY <1>2, <3>1 DEF Entry
        <3>3. Answers(link)'
            BY <1>3, <3>1, <3>2 DEF Answers
        <3> QED
            BY <3>2, <3>3
    <2>2. CASE ~Links!WriteAdapter(c)
        BY <1>2, <2>2 DEF Links!TakeTarget, Links!ReadBinding, Links!CheckTarget, Links!MakeAdapter, Answers
    <2> QED
        BY <2>1, <2>2
<1>5. link' # Links!NoLink
    BY <1>2, <1>4 DEF IsCompiled, Links!NoLink
<1>6. PICK new \in Training :
        attaches' = [attaches EXCEPT ![c] = new] /\ Fits(new)
    <2>1. CASE Links!TakeTarget(c)
        <3> DEFINE new == [attaches[c] EXCEPT !.at = "binding", !.text = link.cluster]
        <3>1. attaches' = [attaches EXCEPT ![c] = new] /\ new.at = "binding"
            BY <2>1 DEF Links!TakeTarget, Links!Attaches, LinkTypes
        <3>2. new \in Training
            <4>1. attaches[c] \in Training /\ link.cluster \in Cluster
                BY <1>2 DEF LinkTypes, Entry
            <4> QED
                BY <4>1 DEF Training
        <3> QED
            BY <3>1, <3>2
    <2>2. CASE Links!ReadBinding(c)
        <3> DEFINE new == [attaches[c] EXCEPT !.at = "target", !.row = link]
        <3>1. attaches' = [attaches EXCEPT ![c] = new] /\ new.at = "target" /\ new.row = link
            BY <2>2 DEF Links!ReadBinding, Links!Attaches, LinkTypes
        <3>2. new \in Training
            <4>1. attaches[c] \in Training
                BY DEF LinkTypes
            <4> QED
                BY <1>2, <4>1 DEF Training
        <3> QED
            BY <1>2, <3>1, <3>2
    <2>3. CASE Links!CheckTarget(c)
        <3>1. PICK at \in {"artifact", "raised"} :
                /\ attaches' = [attaches EXCEPT ![c] = [attaches[c] EXCEPT !.at = at]]
                /\ at = "artifact" => attaches[c].text = link.cluster
            BY <2>3 DEF Links!CheckTarget, Links!Attaches
        <3> DEFINE new == [attaches[c] EXCEPT !.at = at]
        <3>2. new.at = at /\ new.row = attaches[c].row /\ new.text = attaches[c].text
            BY DEF LinkTypes
        <3>3. new \in Training
            <4>1. attaches[c] \in Training
                BY DEF LinkTypes
            <4> QED
                BY <4>1 DEF Training
        <3>4. IsCompiled(attaches[c].row) /\ Settled(attaches[c].row.identity)
            BY <1>3, <2>3 DEF Links!CheckTarget
        <3>5. at = "artifact" /\ link.identity = attaches[c].row.identity => attaches[c].text = attaches[c].row.cluster
            <4>1. link.cluster = ClusterOf[identities[link.identity].descriptor]
                BY <1>2 DEF IsCompiled
            <4>2. attaches[c].row.cluster = ClusterOf[identities[attaches[c].row.identity].descriptor]
                BY <3>4 DEF IsCompiled
            <4> QED
                BY <3>1, <4>1, <4>2
        <3>6. Fits(new)
            BY <3>1, <3>2, <3>4, <3>5
        <3>7. attaches' = [attaches EXCEPT ![c] = new]
            BY <3>1
        <3> HIDE DEF new
        <3> QED
            BY <3>3, <3>6, <3>7
    <2>4. CASE Links!MakeAdapter(c)
        <3> DEFINE made == [identity |-> attaches[c].row.identity, cluster |-> attaches[c].row.cluster,
                            text |-> attaches[c].text]
        <3>1. made \in Adapter /\ Fits(attaches[c]) /\ attaches[c].at = "artifact"
            BY <1>2, <1>3, <2>4 DEF Links!MakeAdapter, Entry, Adapter
        <3>2. CASE ~Links!Live(attaches[c].row.identity)
            <4>1. attaches' = [attaches EXCEPT ![c] = [attaches[c] EXCEPT !.at = "raised"]]
                BY <2>4, <3>2 DEF Links!MakeAdapter, Links!Attaches
            <4>2. [attaches[c] EXCEPT !.at = "raised"] \in
                      Training
                  /\ [attaches[c] EXCEPT !.at = "raised"].at = "raised"
                BY <1>2 DEF LinkTypes, Registering, Training, Resolving
            <4> QED
                BY <4>1, <4>2
        <3>3. CASE Links!Live(attaches[c].row.identity)
            <4> DEFINE new == [attaches[c] EXCEPT !.at = "write", !.adapter = made]
            <4>1. attaches' = [attaches EXCEPT ![c] = new]
                BY <2>4, <3>3 DEF Links!MakeAdapter, Links!Attaches
            <4>2. /\ new \in Training
                  /\ new.at = "write" /\ new.row = attaches[c].row /\ new.adapter = made
                BY <1>2, <3>1 DEF LinkTypes, Registering, Training, Resolving
            <4>3. Fits(new)
                BY <3>1, <4>2
            <4> QED
                BY <4>1, <4>2, <4>3
        <3> QED
            BY <3>2, <3>3
    <2>5. CASE Links!WriteAdapter(c)
        <3>1. attaches' = [attaches EXCEPT ![c] = [attaches[c] EXCEPT !.at = "done"]]
            BY <2>5 DEF Links!WriteAdapter, Links!Attaches
        <3>2. [attaches[c] EXCEPT !.at = "done"] \in
                  Training
              /\ [attaches[c] EXCEPT !.at = "done"].at = "done"
            BY <1>2 DEF LinkTypes, Registering, Training, Resolving
        <3> QED
            BY <3>1, <3>2
    <2> QED
        BY <2>1, <2>2, <2>3, <2>4, <2>5
<1>7. \A a \in Attach : Fits(attaches'[a])
    BY <1>3, <1>6 DEF LinkTypes
<1>8. LinkTypes'
    BY <1>1, <1>4, <1>6 DEF LinkTypes
<1>9. IdentitiesAreCompiled' /\ RegistersKnow'
    BY <1>1 DEF IdentitiesAreCompiled, RegistersKnow
<1>10. LinkIsCompiled'
    BY <1>1, <1>2, <1>4 DEF LinkIsCompiled, IsCompiled, Settled
<1>11. TrainingsFit'
    BY <1>1, <1>4, <1>5, <1>7 DEF TrainingsFit, IsCompiled, Settled
<1>12. ResolvesCompared'
    BY <1>1 DEF ResolvesCompared, IsCompiled, Answers, Links!Matches
<1> QED
    BY <1>8, <1>9, <1>10, <1>11, <1>12

\* A step of resolve, which writes nothing.
LEMMA ResolveSteps ==
    ASSUME LinkInv, NEW c \in Resolve,
           Links!BeginResolve(c) \/ Links!Activate(c) \/ Links!Snapshot(c)
    PROVE  LinkInv'
<1> USE DEF LinkInv
<1>1. UNCHANGED <<described, cut, identities, link, registers, attaches>>
    BY DEF Links!BeginResolve, Links!Activate, Links!Snapshot, Links!Resolves, Links!registry
<1> DEFINE Compared(r) ==
        /\ r.at \in {"active", "snapshot"} => IsCompiled(r.row) /\ Answers(r.row)
        /\ r.at = "snapshot" => /\ r.generation \in 1..Len(described)
                                /\ Links!Matches(r.row, r.text, r.generation)
<1>2. \A r \in Resolve : Compared(resolves[r])
    BY DEF ResolvesCompared
<1>3. PICK new \in Resolving :
        resolves' = [resolves EXCEPT ![c] = new] /\ Compared(new)
    <2>1. CASE Links!BeginResolve(c)
        <3>1. PICK d \in Descriptor : resolves' = [resolves EXCEPT ![c] =
                    [resolves[c] EXCEPT !.at = "active", !.text = ClusterOf[d], !.row = link]]
            BY <2>1 DEF Links!BeginResolve, Links!Resolves
        <3> DEFINE new == [resolves[c] EXCEPT !.at = "active", !.text = ClusterOf[d], !.row = link]
        <3>2. ClusterOf[d] \in Cluster /\ link \in Entry
            BY DEF Cluster, LinkTypes
        <3>3. /\ new \in Resolving
              /\ new.at = "active" /\ new.row = link
            BY <3>2 DEF LinkTypes, Registering, Training, Resolving
        <3>4. link # Links!NoLink
            <4>1. link.adapter # Links!NoAdapter
                BY <2>1 DEF Links!BeginResolve
            <4> QED
                BY <4>1 DEF Links!NoLink
        <3>5. IsCompiled(link) /\ Answers(link)
            BY <3>4 DEF LinkIsCompiled
        <3> QED
            BY <3>1, <3>3, <3>5
    <2>2. CASE Links!Activate(c)
        <3>1. resolves[c].at = "active" /\ IsCompiled(resolves[c].row) /\ Answers(resolves[c].row)
            BY <1>2, <2>2 DEF Links!Activate
        <3> DEFINE g == Links!Latest
        <3>2. CASE Links!Valid(resolves[c].row, g) /\ Links!Matches(resolves[c].row, resolves[c].text, g)
            <4> DEFINE new == [resolves[c] EXCEPT !.at = "snapshot", !.generation = g]
            <4>1. resolves' = [resolves EXCEPT ![c] = new]
                BY <2>2, <3>2 DEF Links!Activate, Links!Resolves
            <4>2. g \in 1..Len(described) /\ g \in Nat
                BY <3>2 DEF Links!Valid, Links!LiveLatest, Links!Latest, LinkTypes
            <4> HIDE DEF g
            <4>3. /\ new \in Resolving
                  /\ new.at = "snapshot" /\ new.row = resolves[c].row /\ new.text = resolves[c].text /\ new.generation = g
                BY <4>2 DEF LinkTypes, Registering, Training, Resolving
            <4> HIDE DEF new
            <4> QED
                BY <3>1, <3>2, <4>1, <4>2, <4>3
        <3>3. CASE ~(Links!Valid(resolves[c].row, g) /\ Links!Matches(resolves[c].row, resolves[c].text, g))
            <4>1. resolves' = [resolves EXCEPT ![c] = [resolves[c] EXCEPT !.at = "raised"]]
                BY <2>2, <3>3 DEF Links!Activate, Links!Resolves
            <4>2. /\ [resolves[c] EXCEPT !.at = "raised"] \in
                        Resolving
                  /\ [resolves[c] EXCEPT !.at = "raised"].at = "raised"
                BY DEF LinkTypes, Registering, Training, Resolving
            <4> QED
                BY <4>1, <4>2
        <3> QED
            BY <3>2, <3>3
    <2>3. CASE Links!Snapshot(c)
        <3>1. PICK at \in {"resolved", "raised"} : resolves' = [resolves EXCEPT ![c] = [resolves[c] EXCEPT !.at = at]]
            BY <2>3 DEF Links!Snapshot, Links!Resolves
        <3>2. /\ [resolves[c] EXCEPT !.at = at] \in
                    Resolving
              /\ [resolves[c] EXCEPT !.at = at].at = at
            BY DEF LinkTypes, Registering, Training, Resolving
        <3> QED
            BY <3>1, <3>2
    <2> QED
        BY <2>1, <2>2, <2>3
<1>4. \A r \in Resolve : Compared(resolves'[r])
    BY <1>2, <1>3 DEF LinkTypes
<1>5. LinkTypes'
    BY <1>1, <1>3 DEF LinkTypes
<1>6. IdentitiesAreCompiled' /\ RegistersKnow' /\ LinkIsCompiled' /\ TrainingsFit'
    BY <1>1 DEF IdentitiesAreCompiled, RegistersKnow, LinkIsCompiled, TrainingsFit, Settled, Answers, IsCompiled
<1>7. ResolvesCompared'
    BY <1>1, <1>4 DEF ResolvesCompared, IsCompiled, Answers, Links!Matches
<1> QED
    BY <1>5, <1>6, <1>7

LEMMA NextLinkInv == LinkInv /\ [Links!Next]_(Links!vars) => LinkInv'
<1> SUFFICES ASSUME LinkInv, [Links!Next]_(Links!vars) PROVE LinkInv'
    OBVIOUS
<1>1. CASE UNCHANGED Links!vars
    <2>1. UNCHANGED <<described, cut, identities, link, registers, attaches, resolves>>
        BY <1>1 DEF Links!vars, Links!registry
    <2>2. LinkTypes' /\ IdentitiesAreCompiled'
        BY <2>1 DEF LinkInv, LinkTypes, IdentitiesAreCompiled
    <2>3. RegistersKnow'
        BY <2>1 DEF LinkInv, RegistersKnow
    <2>4. LinkIsCompiled'
        BY <2>1 DEF LinkInv, LinkIsCompiled, Settled, Answers, IsCompiled
    <2>5. TrainingsFit'
        BY <2>1 DEF LinkInv, TrainingsFit, Settled, IsCompiled
    <2>6. ResolvesCompared'
        BY <2>1 DEF LinkInv, ResolvesCompared, Answers, IsCompiled, Links!Matches
    <2> QED
        BY <2>2, <2>3, <2>4, <2>5, <2>6 DEF LinkInv
<1>2. CASE Links!Next
    BY <1>2, KnowledgeSteps, RegisterReads, PublishIdentityKeeps, WriteLinkKeeps, AttachSteps, ResolveSteps DEF Links!Next
<1> QED
    BY <1>1, <1>2

THEOREM LinkTypeOK == Links!Spec => []Links!TypeOK
<1>1. LinkInv => Links!TypeOK
    <2> SUFFICES ASSUME LinkInv PROVE Links!TypeOK
        OBVIOUS
    <2>1. DOMAIN identities = 1..Len(identities) /\ link.identity \in 0..Len(identities)
        BY DEF LinkInv, LinkTypes, LinkIsCompiled, IsCompiled, Links!NoLink
    <2> QED
        BY <2>1 DEF LinkInv, LinkTypes, IdentitiesAreCompiled, Links!TypeOK, Links!Latest, Registering, Training, Resolving
<1> QED
    BY <1>1, InitLinkInv, NextLinkInv, PTL DEF Links!Spec

\* A link that resolves is the knowledge's of that moment, although its adapter was trained
\* while others registered and attached, and nothing that it rests on is withdrawn (resolve).
THEOREM LinksStayCurrent == Links!Spec => LinksAreCurrent
<1> DEFINE Current(c) ==
        LET adapter == resolves[c].row.adapter IN
        /\ resolves[c].text = adapter.text /\ adapter.text = ClusterOf[described[Links!Latest]]
        /\ identities[adapter.identity].descriptor = described[Links!Latest]
        /\ {Links!Latest, identities[adapter.identity].roots} \cap cut = {}
<1>1. ASSUME LinkInv, Links!Next, NEW c \in Resolve, resolves[c].at # "resolved", resolves'[c].at = "resolved"
      PROVE  Current(c)
    <2>1. Links!Snapshot(c)
        <3>1. PICK r \in Resolve : Links!BeginResolve(r) \/ Links!Activate(r) \/ Links!Snapshot(r)
            BY <1>1 DEF Links!Next, Links!Publish, Links!Withdraw,
                Links!BeginRegister, Links!ReadLink, Links!CheckIdentity, Links!PublishIdentity, Links!WriteLink, Links!Registers,
                Links!TakeTarget, Links!ReadBinding, Links!CheckTarget, Links!MakeAdapter, Links!WriteAdapter, Links!Attaches
        <3>2. r = c
            BY <1>1, <3>1 DEF Links!BeginResolve, Links!Activate, Links!Snapshot, Links!Resolves, LinkInv, LinkTypes
        <3>3. ~Links!BeginResolve(c) /\ ~Links!Activate(c)
            <4>1. ASSUME Links!BeginResolve(c) PROVE FALSE
                BY <1>1, <4>1 DEF Links!BeginResolve, Links!Resolves, LinkInv, LinkTypes
            <4>2. ASSUME Links!Activate(c) PROVE FALSE
                <5>1. PICK at \in {"snapshot", "raised"}, g \in Nat : resolves' = [resolves EXCEPT ![c] =
                            [resolves[c] EXCEPT !.at = at, !.generation = g]]
                    <6>1. [resolves[c] EXCEPT !.at = "raised"] =
                              [resolves[c] EXCEPT !.at = "raised", !.generation = resolves[c].generation]
                        BY <1>1 DEF LinkInv, LinkTypes
                    <6>2. resolves[c].generation \in Nat
                        BY <1>1 DEF LinkInv, LinkTypes, Registering, Training, Resolving
                    <6>3. Links!Latest \in Nat
                        BY <1>1 DEF LinkInv, LinkTypes, Links!Latest
                    <6> QED
                        BY <4>2, <6>1, <6>2, <6>3 DEF Links!Activate, Links!Resolves
                <5> QED
                    BY <1>1, <5>1 DEF LinkInv, LinkTypes
            <4> QED
                BY <4>1, <4>2
        <3> QED
            BY <3>1, <3>2, <3>3
    <2>2. resolves[c].at = "snapshot" /\ Links!Valid(resolves[c].row, resolves[c].generation)
        BY <1>1, <2>1 DEF Links!Snapshot, Links!Resolves, LinkInv, LinkTypes, Registering, Training, Resolving
    <2>3. /\ IsCompiled(resolves[c].row) /\ Answers(resolves[c].row)
          /\ Links!Matches(resolves[c].row, resolves[c].text, Links!Latest)
        BY <1>1, <2>2 DEF LinkInv, ResolvesCompared, Links!Valid, Links!LiveLatest
    <2> QED
        BY <2>2, <2>3 DEF Links!Valid, Links!Live, Links!LiveLatest, Links!Matches, IsCompiled, Answers
<1>2. LinkInv /\ [Links!Next]_(Links!vars) =>
        [\A c \in Resolve : resolves[c].at # "resolved" /\ resolves'[c].at = "resolved" => Current(c)]_(Links!vars)
    BY <1>1
<1>3. [][\A c \in Resolve : resolves[c].at # "resolved" /\ resolves'[c].at = "resolved" => Current(c)]_(Links!vars) => LinksAreCurrent
    BY PTL DEF LinksAreCurrent, Links!LinksAreCurrent
<1> QED
    BY <1>2, <1>3, InitLinkInv, NextLinkInv, PTL DEF Links!Spec

-----------------------------------------------------------------------------
(* The run itself: a behaviour of MCData is a behaviour of each service.     *)

TimedProofs == INSTANCE RegistryProofs WITH
    Key <- TimedKey, Principal <- TimedPrincipal, Acls <- TimedAcls, Windows <- TimedWindows,
    MaxNode <- TimedNode, MaxEvent <- TimedEvent, MaxTime <- TimedTime,
    nodes <- t_nodes, revoked <- t_revoked, heads <- t_heads, events <- t_events,
    now <- t_now, snapshots <- t_snapshots

\* The instance meets the assumption under which the registry's theorems hold.
LEMMA TimedAssumed == TimedProofs!RegistryAssumption
BY TimedAssumption DEF TimedProofs!RegistryAssumption, TimedProofs!Window, TimedProofs!Time,
    Timed!Window, Timed!Time

\* The module of the run and the module of the theorems mean the same instance.
LEMMA SameReach ==
    /\ \A S, next : Timed!Closed(S, next) = TimedProofs!Closed(S, next)
    /\ \A U, next, n : Timed!Reach(U, next, n) = TimedProofs!Reach(U, next, n)
BY DEF Timed!Closed, TimedProofs!Closed, Timed!Reach, TimedProofs!Reach

LEMMA SameReading ==
    /\ Timed!Ids = TimedProofs!Ids
    /\ \A i : Timed!Ancestors(i) = TimedProofs!Ancestors(i)
    /\ \A i : Timed!Descendants(i) = TimedProofs!Descendants(i)
    /\ \A p : Timed!ValidIds(p) = TimedProofs!ValidIds(p)
    /\ \A parents : Timed!Evidence(parents) = TimedProofs!Evidence(parents)
    /\ \A parents : Timed!Grounded(parents) = TimedProofs!Grounded(parents)
BY SameReach DEF Timed!Ids, Timed!Parents, Timed!Children, Timed!Ancestors, Timed!Descendants,
    Timed!IsHead, Timed!Usable, Timed!ValidIds, Timed!Evidence, Timed!Grounded,
    TimedProofs!Ids, TimedProofs!Parents, TimedProofs!Children, TimedProofs!Ancestors, TimedProofs!Descendants,
    TimedProofs!IsHead, TimedProofs!Usable, TimedProofs!ValidIds, TimedProofs!Evidence, TimedProofs!Grounded

LEMMA SameWriting ==
    /\ \A node : Timed!IdOf(node) = TimedProofs!IdOf(node)
    /\ \A node : Timed!Add(node) = TimedProofs!Add(node)
    /\ \A action, i, affected : Timed!Record(action, i, affected) = TimedProofs!Record(action, i, affected)
    /\ \A kind, content, parents :
         Timed!ArtifactNode(kind, content, parents) = TimedProofs!ArtifactNode(kind, content, parents)
    /\ \A content, k, acl, window, parents :
         Timed!KnowledgeNode(content, k, acl, window, parents) = TimedProofs!KnowledgeNode(content, k, acl, window, parents)
BY SameReading DEF Timed!Ids, Timed!Existing, Timed!IdOf, Timed!NodeId, Timed!Add, Timed!Record, Timed!ArtifactNode,
    Timed!KnowledgeNode, Timed!Always,
    TimedProofs!Ids, TimedProofs!Existing, TimedProofs!IdOf, TimedProofs!NodeId, TimedProofs!Add, TimedProofs!Record,
    TimedProofs!ArtifactNode, TimedProofs!KnowledgeNode, TimedProofs!Always

LEMMA SameSteps == Timed!Next => TimedProofs!Next
<1>1. Timed!Origin => TimedProofs!Origin
    BY SameWriting DEF Timed!Origin, Timed!Always, TimedProofs!Origin, TimedProofs!Always
<1>2. ASSUME NEW p, NEW k, NEW content, NEW acl, NEW window, Timed!Publish(p, k, content, acl, window)
      PROVE  TimedProofs!Publish(p, k, content, acl, window)
    <2> DEFINE Fresh(parents) == Timed!KnowledgeNode(content, k, acl, window, parents)
    <2>1. PICK parents \in SUBSET Timed!ValidIds(p) :
            /\ parents # {} /\ window.from < window.until
            /\ Timed!Add(Fresh(parents))
            /\ t_heads' = [t_heads EXCEPT ![k] = [node |-> Timed!IdOf(Fresh(parents)),
                                                  generation |-> Fresh(parents).generation]]
            /\ Timed!Record("publish", Timed!IdOf(Fresh(parents)), {})
            /\ UNCHANGED <<t_revoked, t_snapshots>>
        BY <1>2 DEF Timed!Publish
    <2> HIDE DEF Fresh
    <2>2. parents \in SUBSET TimedProofs!ValidIds(p)
        BY SameReading
    <2>3. Fresh(parents) = TimedProofs!KnowledgeNode(content, k, acl, window, parents)
        BY SameWriting DEF Fresh
    <2>4. /\ TimedProofs!Add(Fresh(parents))
          /\ Timed!IdOf(Fresh(parents)) = TimedProofs!IdOf(Fresh(parents))
          /\ TimedProofs!Record("publish", TimedProofs!IdOf(Fresh(parents)), {})
        BY <2>1, SameWriting
    <2> QED
        BY <2>1, <2>2, <2>3, <2>4 DEF TimedProofs!Publish
<1>3. ASSUME NEW p, NEW kind, NEW content, Timed!Artifact(p, kind, content)
      PROVE  TimedProofs!Artifact(p, kind, content)
    BY <1>3, SameReading, SameWriting DEF Timed!Artifact, TimedProofs!Artifact
<1>4. ASSUME NEW c, NEW p, Timed!TakeSnapshot(c, p)
      PROVE  TimedProofs!TakeSnapshot(c, p)
    BY <1>4, SameReading DEF Timed!TakeSnapshot, TimedProofs!TakeSnapshot
<1>5. ASSUME NEW c, NEW text, Timed!Commit(c, text)
      PROVE  TimedProofs!Commit(c, text)
    BY <1>5, SameReading, SameWriting DEF Timed!Commit, TimedProofs!Commit
<1>6. ASSUME NEW i, Timed!Revoke(i)
      PROVE  TimedProofs!Revoke(i)
    BY <1>6, SameReading, SameWriting DEF Timed!Revoke, TimedProofs!Revoke
<1>7. Timed!Tick => TimedProofs!Tick
    BY DEF Timed!Tick, TimedProofs!Tick
<1> QED
    BY <1>1, <1>2, <1>3, <1>4, <1>5, <1>6, <1>7, SameReading DEF Timed!Next, TimedProofs!Next


LEMMA SameSpec == Timed!Spec => TimedProofs!Spec
<1>1. Timed!Init => TimedProofs!Init
    BY DEF Timed!Init, Timed!NoHead, TimedProofs!Init, TimedProofs!NoHead
<1>2. [Timed!Next]_(Timed!vars) => [TimedProofs!Next]_(TimedProofs!vars)
    BY SameSteps DEF Timed!vars, TimedProofs!vars
<1> QED
    BY <1>1, <1>2, PTL DEF Timed!Spec, TimedProofs!Spec

\* With a clock and two principals the tables keep their shape, the log tells the state
\* and no commit came too early or too late (registry.py, commit and record_event).
LEMMA TimedHolds == Timed!Spec => []Timed!TypeOK /\ []CommitsAreInTime
<1>1. TimedProofs!TypeOK => Timed!TypeOK
    BY SameReading DEF Timed!TypeOK, Timed!Node, Timed!NodeId, Timed!Generation, Timed!Kind, Timed!HeadRow, Timed!Event,
        Timed!Snapshot, Timed!Window, Timed!Time,
        TimedProofs!TypeOK, TimedProofs!Node, TimedProofs!NodeId, TimedProofs!Generation, TimedProofs!Kind,
        TimedProofs!HeadRow, TimedProofs!Event, TimedProofs!Snapshot, TimedProofs!Window, TimedProofs!Time
<1>2. TimedProofs!LogTellsState => Timed!LogTellsState
    BY SameReading DEF Timed!LogTellsState, Timed!Published, Timed!Cardinality,
        TimedProofs!LogTellsState, TimedProofs!Published, TimedProofs!Cardinality
<1>3. TimedProofs!CommitBarrier => Timed!CommitBarrier
    BY SameReading DEF Timed!CommitBarrier, Timed!Committed, TimedProofs!CommitBarrier, TimedProofs!Committed
<1>4. TimedProofs!Spec => []TimedProofs!TypeOK
    BY TimedAssumed, TimedProofs!RegistryTypeOK DEF TimedProofs!RegistryAssumption
<1>5. TimedProofs!Spec => []TimedProofs!LogTellsState
    BY TimedAssumed, TimedProofs!LogTellsTheState DEF TimedProofs!RegistryAssumption
<1>6. TimedProofs!Spec => []TimedProofs!CommitBarrier
    BY TimedAssumed, TimedProofs!CommitBarrierHolds DEF TimedProofs!RegistryAssumption
<1> QED
    BY SameSpec, <1>1, <1>2, <1>3, <1>4, <1>5, <1>6, PTL DEF CommitsAreInTime

runVars == <<vars, timedVars, portVars, searchVars, storageVars, linkVars, service>>

\* One service steps, the others stand still.
LEMMA EachService ==
    /\ MCSpec => Spec
    /\ MCSpec => Timed!Spec
    /\ MCSpec => Ports!Spec
    /\ MCSpec => Backend!Spec
    /\ MCSpec => Storage!Spec
    /\ MCSpec => Links!Spec
<1>1. MCInit => Init /\ Timed!Init /\ Ports!Init /\ Backend!Init /\ Storage!Init /\ Links!Init
    BY DEF MCInit
<1>2. [MCNext]_runVars => [Next]_vars
    BY DEF MCNext, runVars, vars
<1>3. [MCNext]_runVars => [Timed!Next]_(Timed!vars)
    BY DEF MCNext, runVars, timedVars, Timed!vars
<1>4. [MCNext]_runVars => [Ports!Next]_(Ports!vars)
    BY DEF MCNext, runVars, portVars, Ports!vars, Ports!registry, Ports!plane, Ports!channel
<1>5. [MCNext]_runVars => [Backend!Next]_(Backend!vars)
    BY DEF MCNext, runVars, searchVars, Backend!vars, Backend!rows, Backend!caches
<1>6. [MCNext]_runVars => [Storage!Next]_(Storage!vars)
    BY DEF MCNext, runVars, storageVars, Storage!vars
<1>7. [MCNext]_runVars => [Links!Next]_(Links!vars)
    BY DEF MCNext, runVars, linkVars, Links!vars, Links!registry
<1> QED
    BY <1>1, <1>2, <1>3, <1>4, <1>5, <1>6, <1>7, PTL
       DEF MCSpec, runVars, Spec, Timed!Spec, Ports!Spec, Backend!Spec, Storage!Spec, Links!Spec

\* Every table, channel, cache, tier and link keeps its shape, whichever service runs:
\* the type invariant the run checks (registry.py, symlink.py, reflex.py,
\* local_search.py, storage.py).
THEOREM DataTypeOK == MCSpec => []TypesOK
BY EachService, RegistryTypeOK, TimedHolds, PlaneTypeOK, SearchTypeOK, StorageTypeOK, LinkTypeOK, PTL DEF TypesOK

\* Also when the clock moves between the check of a commit and its log row, none is logged
\* on evidence that is not yet valid, or that an earlier row, by what it withdrew or by its
\* time, had put an end to; and the log tells the state (registry.py, commit, 269-276;
\* record_event, 113-126).
THEOREM CommitsStayInTime == MCSpec => []CommitsAreInTime
BY EachService, TimedHolds, PTL

=============================================================================
