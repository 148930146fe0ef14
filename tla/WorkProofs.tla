------------------------------ MODULE WorkProofs ------------------------------
(***************************************************************************)
(* The components that MCWork checks, for every value of the constants.    *)
(* The household, the task graph and the cache have modules of their own.  *)
(*                                                                         *)
(* governor: no byte of a device is handed out twice, for all devices,     *)
(* budgets, clients and amounts (GovernorInv).                             *)
(*                                                                         *)
(* transport: receipts and responses, for every set of calls, every        *)
(* assignment of request ids and every number of retries (TransportInv).   *)
(*                                                                         *)
(* mesh: for every set of endpoints, every budget and deadline and any     *)
(* behaviour of the broker (MeshInv), and the presence of an endpoint.     *)
(*                                                                         *)
(* router: calls start where the cursor is, which they move at once, so    *)
(* the replicas were asked first equally often, those before the cursor    *)
(* once more (TakenInTurn).                                                *)
(*                                                                         *)
(* dream cycle: a quota that is only kept while cycles neither overlap nor *)
(* fail to write, and then because what a cycle did is counted at the time *)
(* of its record, which is never before its work (CyclesCount, OneByOne).  *)
(***************************************************************************)
EXTENDS MCWork, HouseholdProofs, SequenceTheorems, FiniteSetTheorems, WellFoundedInduction, TLAPS

-----------------------------------------------------------------------------
(* governor *)

-----------------------------------------------------------------------------
(* What several clients hold together.  Bytes is a fold that takes them in an *)
(* order nobody knows, so what a single one adds has to be shown.             *)

Some(s) == CHOOSE x \in s : TRUE

\* The sums of the subsets of S.
Sums(S, f) ==
  /\ f \in [SUBSET S -> Nat]
  /\ f[{}] = 0
  /\ \A s \in SUBSET S : s # {} => f[s] = Amount[Some(s)] + f[s \ {Some(s)}]

BytesTable(S, iter) ==
  iter = [s \in SUBSET S |-> IF s = {} THEN 0 ELSE Amount[Some(s)] + iter[s \ {Some(s)}]]

\* The subsets of S with at most k members.
Small(S, k) == {s \in SUBSET S : Cardinality(s) <= k}

LEMMA SmallerWithout ==
  ASSUME NEW S, IsFiniteSet(S), NEW s \in SUBSET S, NEW x \in s
  PROVE  /\ s \ {x} \in SUBSET S /\ IsFiniteSet(s) /\ IsFiniteSet(s \ {x})
         /\ Cardinality(s) \in Nat \ {0} /\ Cardinality(s \ {x}) = Cardinality(s) - 1
  <1>1. IsFiniteSet(s)
    BY FS_Subset
  <1>2. Cardinality(s \ {x}) = Cardinality(s) - 1 /\ IsFiniteSet(s \ {x})
    BY <1>1, FS_RemoveElement
  <1>3. Cardinality(s) \in Nat /\ Cardinality(s) # 0
    BY <1>1, FS_CardinalityType, FS_EmptySet
  <1> QED
    BY <1>1, <1>2, <1>3

LEMMA SumsExist ==
  ASSUME NEW S, IsFiniteSet(S), S \subseteq Clients
  PROVE  \E f : Sums(S, f) /\ BytesTable(S, f)
  <1> DEFINE n == Cardinality(S)
             Part(k, f) == /\ f \in [Small(S, k) -> Nat]
                           /\ \A s \in Small(S, k) :
                                f[s] = IF s = {} THEN 0 ELSE Amount[Some(s)] + f[s \ {Some(s)}]
             T == {k \in 0..n : \E f : Part(k, f)}
  <1>1. n \in Nat
    BY FS_CardinalityType
  <1>2. \A s \in SUBSET S : /\ IsFiniteSet(s) /\ Cardinality(s) \in 0..n
                            /\ Cardinality(s) = 0 <=> s = {}
    BY <1>1, FS_Subset, FS_CardinalityType, FS_EmptySet
  <1>3. \A s \in SUBSET S : s # {} => /\ Some(s) \in s /\ Amount[Some(s)] \in Nat
                                      /\ s \ {Some(s)} \in SUBSET S
                                      /\ Cardinality(s \ {Some(s)}) = Cardinality(s) - 1
    <2> SUFFICES ASSUME NEW s \in SUBSET S, s # {}
                 PROVE  /\ Some(s) \in s /\ Amount[Some(s)] \in Nat
                        /\ s \ {Some(s)} \in SUBSET S
                        /\ Cardinality(s \ {Some(s)}) = Cardinality(s) - 1
      OBVIOUS
    <2>1. PICK x \in s : x = Some(s)
      BY DEF Some
    <2>2. Amount[x] \in Nat
      BY GovernorAssumption
    <2>3. s \ {x} \in SUBSET S /\ Cardinality(s \ {x}) = Cardinality(s) - 1
      BY SmallerWithout
    <2> QED
      BY <2>1, <2>2, <2>3
  <1> HIDE DEF n
  <1>4. 0 \in T
    <2> DEFINE f == [s \in Small(S, 0) |-> 0]
    <2>1. \A s \in Small(S, 0) : s = {}
      BY <1>1, <1>2 DEF Small
    <2>2. Part(0, f)
      BY <2>1
    <2> QED
      BY <1>1, <2>2
  <1>5. ASSUME NEW k \in 1..n, k - 1 \in T PROVE k \in T
    <2>1. PICK old : Part(k - 1, old)
      BY <1>5
    <2> DEFINE f == [s \in Small(S, k) |-> IF s \in Small(S, k - 1) THEN old[s]
                                           ELSE Amount[Some(s)] + old[s \ {Some(s)}]]
    <2>2. ASSUME NEW s \in Small(S, k)
          PROVE  /\ f[s] \in Nat
                 /\ f[s] = IF s = {} THEN 0 ELSE Amount[Some(s)] + f[s \ {Some(s)}]
      <3>1. s \in SUBSET S /\ Cardinality(s) \in Nat /\ Cardinality(s) <= k
        BY <1>1, <1>2 DEF Small
      <3>2. CASE s = {}
        <4>1. s \in Small(S, k - 1) /\ old[s] = 0
          BY <1>1, <1>2, <2>1, <3>1, <3>2 DEF Small
        <4> QED
          BY <3>2, <4>1
      <3>3. CASE s # {}
        <4>1. /\ Amount[Some(s)] \in Nat /\ s \ {Some(s)} \in SUBSET S
              /\ Cardinality(s \ {Some(s)}) = Cardinality(s) - 1
          BY <1>3, <3>1, <3>3
        <4>2. s \ {Some(s)} \in Small(S, k - 1) /\ s \ {Some(s)} \in Small(S, k)
          BY <1>1, <3>1, <4>1 DEF Small
        <4>3. f[s \ {Some(s)}] = old[s \ {Some(s)}] /\ old[s \ {Some(s)}] \in Nat
          BY <2>1, <4>2
        <4>4. f[s] = Amount[Some(s)] + old[s \ {Some(s)}]
          <5>1. s \in Small(S, k - 1) => old[s] = Amount[Some(s)] + old[s \ {Some(s)}]
            BY <2>1, <3>3
          <5> QED
            BY <5>1
        <4> HIDE DEF f
        <4> QED
          BY <3>3, <4>1, <4>3, <4>4
      <3> QED
        BY <3>2, <3>3
    <2>3. f \in [Small(S, k) -> Nat]
      <3>1. \A s \in Small(S, k) : f[s] \in Nat
        BY <2>2
      <3> QED
        BY <3>1
    <2> HIDE DEF f
    <2>4. Part(k, f)
      BY <2>2, <2>3
    <2>5. k \in 0..n /\ \E g : Part(k, g)
      <3>1. k \in 0..n
        BY <1>1
      <3> HIDE DEF Part, n
      <3> QED
        BY <3>1, <2>4
    <2> HIDE DEF Part, n
    <2> QED
      BY <2>5
  <1>6. 0..n \subseteq T
    <2> HIDE DEF T
    <2> QED
      BY <1>1, <1>4, <1>5, InductionTo
  <1>7. PICK f : Part(n, f)
    <2>1. n \in T
      <3> HIDE DEF T
      <3> QED
        BY <1>1, <1>6
    <2> HIDE DEF Part
    <2> QED
      BY <2>1
  <1>8. Small(S, n) = SUBSET S
    BY <1>1, <1>2 DEF Small
  <1>9. BytesTable(S, f)
    BY <1>7, <1>8 DEF BytesTable
  <1>10. Sums(S, f)
    BY <1>7, <1>8 DEF Sums
  <1> QED
    BY <1>9, <1>10

LEMMA BytesIsSum ==
  ASSUME NEW S, IsFiniteSet(S), S \subseteq Clients
  PROVE  \E f : Sums(S, f) /\ Bytes(S) = f[S]
  <1> DEFINE it == CHOOSE iter : BytesTable(S, iter)
  <1>1. PICK f : Sums(S, f) /\ BytesTable(S, f)
    BY SumsExist
  <1>2. BytesTable(S, it)
    BY <1>1
  <1>3. Bytes(S) = it[S]
    BY DEF Bytes, MapThenSumSet, MapThenFoldSet, BytesTable, Some
  <1> HIDE DEF it
  <1> DEFINE n == Cardinality(S)
             T == {k \in 0..n : \A s \in Small(S, k) : it[s] = f[s]}
  <1>4. n \in Nat
    BY FS_CardinalityType
  <1>5. \A s \in SUBSET S : Cardinality(s) \in 0..n /\ (Cardinality(s) = 0 <=> s = {})
    BY <1>4, FS_Subset, FS_CardinalityType, FS_EmptySet
  <1>6. it[{}] = 0 /\ f[{}] = 0
    BY <1>1, <1>2 DEF BytesTable, Sums
  <1> HIDE DEF n
  <1>7. 0 \in T
    <2>1. \A s \in Small(S, 0) : s = {}
      BY <1>4, <1>5 DEF Small
    <2>2. \A s \in Small(S, 0) : it[s] = f[s]
      BY <1>6, <2>1
    <2> QED
      BY <1>4, <2>2
  <1>8. ASSUME NEW k \in 1..n, k - 1 \in T PROVE k \in T
    <2> SUFFICES ASSUME NEW s \in Small(S, k), s # {} PROVE it[s] = f[s]
      BY <1>6
    <2>1. s \in SUBSET S /\ Cardinality(s) \in Nat /\ Cardinality(s) <= k
      BY <1>4, <1>5 DEF Small
    <2>2. PICK x \in s : x = Some(s)
      BY DEF Some
    <2>3. s \ {x} \in SUBSET S /\ Cardinality(s \ {x}) = Cardinality(s) - 1
      BY <2>1, SmallerWithout
    <2>4. s \ {x} \in Small(S, k - 1)
      BY <1>4, <2>1, <2>3 DEF Small
    <2>5. it[s \ {x}] = f[s \ {x}]
      BY <1>8, <2>4
    <2>6. it[s] = Amount[x] + it[s \ {x}]
      BY <1>2, <2>1, <2>2 DEF BytesTable
    <2>7. f[s] = Amount[x] + f[s \ {x}]
      BY <1>1, <2>1, <2>2 DEF Sums
    <2> QED
      BY <2>5, <2>6, <2>7
  <1>9. 0..n \subseteq T
    <2> HIDE DEF T
    <2> QED
      BY <1>4, <1>7, <1>8, InductionTo
  <1>10. S \in Small(S, n) /\ n \in T
    BY <1>4, <1>5, <1>9 DEF Small, n
  <1>11. it[S] = f[S]
    BY <1>10
  <1> QED
    BY <1>1, <1>3, <1>11

\* In any order: whoever is taken last adds its own amount.
LEMMA SumsCommute ==
  ASSUME NEW S, IsFiniteSet(S), S \subseteq Clients, NEW f, Sums(S, f)
  PROVE  \A s \in SUBSET S : \A y \in s : f[s] = Amount[y] + f[s \ {y}]
  <1> DEFINE n == Cardinality(S)
             T == {k \in 0..n : \A s \in Small(S, k) : \A y \in s : f[s] = Amount[y] + f[s \ {y}]}
  <1>1. n \in Nat
    BY FS_CardinalityType
  <1>2. \A s \in SUBSET S : Cardinality(s) \in 0..n /\ (Cardinality(s) = 0 <=> s = {})
    BY <1>1, FS_Subset, FS_CardinalityType, FS_EmptySet
  <1> HIDE DEF n
  <1>3. 0 \in T
    <2>1. \A s \in Small(S, 0) : s = {}
      BY <1>1, <1>2 DEF Small
    <2>2. \A s \in Small(S, 0) : \A y \in s : f[s] = Amount[y] + f[s \ {y}]
      BY <2>1
    <2> QED
      BY <1>1, <2>2
  <1>4. ASSUME NEW k \in 1..n, k - 1 \in T PROVE k \in T
    <2> SUFFICES ASSUME NEW s \in Small(S, k), NEW y \in s PROVE f[s] = Amount[y] + f[s \ {y}]
      OBVIOUS
    <2>1. s \in SUBSET S /\ Cardinality(s) \in Nat /\ Cardinality(s) <= k
      BY <1>1, <1>2 DEF Small
    <2>2. PICK x \in s : x = Some(s)
      BY DEF Some
    <2>3. f[s] = Amount[x] + f[s \ {x}]
      BY <2>1, <2>2 DEF Sums
    <2>4. CASE x = y
      BY <2>3, <2>4
    <2>5. CASE x # y
      <3>1. /\ s \ {x} \in SUBSET S /\ Cardinality(s \ {x}) = Cardinality(s) - 1
            /\ s \ {y} \in SUBSET S /\ Cardinality(s \ {y}) = Cardinality(s) - 1
        BY <2>1, SmallerWithout
      <3>2. s \ {x} \in Small(S, k - 1) /\ s \ {y} \in Small(S, k - 1)
        BY <1>1, <2>1, <3>1 DEF Small
      <3>3. y \in s \ {x} /\ x \in s \ {y} /\ (s \ {x}) \ {y} = (s \ {y}) \ {x}
        BY <2>5
      <3>4. f[s \ {x}] = Amount[y] + f[(s \ {x}) \ {y}]
        BY <1>4, <3>2, <3>3
      <3>5. f[s \ {y}] = Amount[x] + f[(s \ {y}) \ {x}]
        BY <1>4, <3>2, <3>3
      <3>6. PICK v \in Nat : v = f[(s \ {x}) \ {y}]
        BY <2>1 DEF Sums
      <3>7. Amount[x] \in Nat /\ Amount[y] \in Nat
        BY <2>1, GovernorAssumption
      <3>8. f[s] = Amount[x] + (Amount[y] + v) /\ f[s \ {y}] = Amount[x] + v
        BY <2>3, <3>3, <3>4, <3>5, <3>6
      <3> QED
        BY <3>6, <3>7, <3>8
    <2> QED
      BY <2>4, <2>5
  <1>5. 0..n \subseteq T
    <2> HIDE DEF T
    <2> QED
      BY <1>1, <1>3, <1>4, InductionTo
  <1>6. n \in T
    <2> HIDE DEF T
    <2> QED
      BY <1>1, <1>5
  <1>7. Small(S, n) = SUBSET S
    BY <1>1, <1>2 DEF Small
  <1> QED
    BY <1>6, <1>7

\* One more client holds its own amount more.
LEMMA BytesOfOneMore ==
  ASSUME NEW S, IsFiniteSet(S), S \subseteq Clients, NEW x \in Clients, x \notin S
  PROVE  Bytes(S) \in Nat /\ Bytes(S \cup {x}) = Amount[x] + Bytes(S)
  <1> DEFINE R == S \cup {x}
  <1>1. IsFiniteSet(R) /\ R \subseteq Clients /\ R \ {x} = S /\ x \in R
    BY FS_AddElement
  <1> HIDE DEF R
  <1>2. PICK f : Sums(S, f) /\ Bytes(S) = f[S]
    BY BytesIsSum
  <1>3. PICK g : Sums(R, g) /\ Bytes(R) = g[R]
    BY <1>1, BytesIsSum
  <1>4. g[R] = Amount[x] + g[S]
    BY <1>1, <1>3, SumsCommute
  <1> DEFINE n == Cardinality(S)
             T == {k \in 0..n : \A s \in Small(S, k) : f[s] = g[s]}
  <1>5. n \in Nat
    BY FS_CardinalityType
  <1>6. \A s \in SUBSET S : Cardinality(s) \in 0..n /\ (Cardinality(s) = 0 <=> s = {})
    BY <1>5, FS_Subset, FS_CardinalityType, FS_EmptySet
  <1> HIDE DEF n
  <1>7. 0 \in T
    <2>1. \A s \in Small(S, 0) : s = {}
      BY <1>5, <1>6 DEF Small
    <2>2. \A s \in Small(S, 0) : f[s] = g[s]
      BY <1>2, <1>3, <2>1 DEF Sums
    <2> QED
      BY <1>5, <2>2
  <1>8. ASSUME NEW k \in 1..n, k - 1 \in T PROVE k \in T
    <2> SUFFICES ASSUME NEW s \in Small(S, k) PROVE f[s] = g[s]
      OBVIOUS
    <2>1. s \in SUBSET S /\ s \in SUBSET R /\ Cardinality(s) \in Nat /\ Cardinality(s) <= k
      BY <1>1, <1>5, <1>6 DEF Small
    <2>2. CASE s = {}
      BY <1>2, <1>3, <2>2 DEF Sums
    <2>3. CASE s # {}
      <3>1. PICK y \in s : y = Some(s)
        BY <2>3 DEF Some
      <3>2. s \ {y} \in SUBSET S /\ Cardinality(s \ {y}) = Cardinality(s) - 1
        BY <2>1, SmallerWithout
      <3>3. s \ {y} \in Small(S, k - 1)
        BY <1>5, <2>1, <3>2 DEF Small
      <3>4. f[s \ {y}] = g[s \ {y}]
        BY <1>8, <3>3
      <3>5. f[s] = Amount[y] + f[s \ {y}] /\ g[s] = Amount[y] + g[s \ {y}]
        BY <1>2, <1>3, <2>1, <3>1 DEF Sums
      <3> QED
        BY <3>4, <3>5
    <2> QED
      BY <2>2, <2>3
  <1>9. 0..n \subseteq T
    <2> HIDE DEF T
    <2> QED
      BY <1>5, <1>7, <1>8, InductionTo
  <1>10. n \in T
    <2> HIDE DEF T
    <2> QED
      BY <1>5, <1>9
  <1>11. S \in Small(S, n)
    BY <1>5, <1>6 DEF Small, n
  <1>12. f[S] = g[S] /\ f[S] \in Nat
    BY <1>2, <1>10, <1>11 DEF Sums
  <1> QED
    BY <1>2, <1>3, <1>4, <1>12 DEF R

LEMMA BytesOfNobody == Bytes({}) = 0
  <1>1. IsFiniteSet({}) /\ {} \subseteq Clients
    BY FS_EmptySet
  <1>2. PICK f : Sums({}, f) /\ Bytes({}) = f[{}]
    BY <1>1, BytesIsSum
  <1> QED
    BY <1>2 DEF Sums

-----------------------------------------------------------------------------
(* The governor.  Everybody is admitted under the same lock and the same test. *)

Room(p) == IF p \in DOMAIN PlaceBudget THEN PlaceBudget[p] ELSE 0

\* What is counted at each place is what is held there, and it fits.
PlacesAddUp ==
    /\ used \in [Place -> Nat]
    /\ \A p \in Place : /\ IsFiniteSet(HeldAt(p)) /\ HeldAt(p) \subseteq Clients
                        /\ used[p] = Bytes(HeldAt(p)) /\ used[p] <= Room(p)

PoolAddsUp ==
    /\ pooled \subseteq Executor /\ IsFiniteSet(pooled)
    /\ started \subseteq pooled
    /\ used_bytes \in Nat /\ used_bytes = Bytes(pooled)

\* A handler walks only while it holds nothing.
HoldersAreTyped ==
    /\ trying \in [Handler -> 0..Len(Places)]
    /\ held \in [Handler -> Place \cup {Nowhere}]
    /\ residencies \in [Resident -> Governor!Residency \cup {Governor!Nobody}]
    /\ \A h \in Handler : trying[h] # 0 => held[h] = Nowhere

GovernorInv == PlacesAddUp /\ PoolAddsUp /\ HoldersAreTyped

LEMMA GovernorPlaces ==
  /\ Governor!Places = Places /\ Governor!Place = Place /\ Governor!Nowhere = Nowhere
  /\ Places \in Seq(Place) /\ Len(Places) \in Nat \ {0} /\ Len(Places) > 1
  /\ "ram" \in Place /\ Nowhere \notin Place
  /\ \A c \in Handler \cup Resident : Governor!First(c) \in 1..Len(Places)
  <1>1. Governor!Places = Places /\ Governor!Place = Place /\ Governor!Nowhere = Nowhere
    BY DEF Governor!Places, Places, Governor!Place, Place, Governor!Nowhere, Nowhere, Governor!ToSet, ToSet
  <1> DEFINE S == (ToSet(Devices) \cup {"ram", "disk"}) \ {Nowhere}
             n == Len(Devices)
  <1>2. Devices \in Seq(S) /\ n \in Nat
    <2>1. PICK T : T = ToSet(Devices) \ {Nowhere}
      OBVIOUS
    <2>2. Devices \in Seq(T) /\ T \subseteq S
      BY <2>1, GovernorAssumption
    <2> HIDE DEF S
    <2> QED
      BY <2>2
  <1>3. <<"ram", "disk">> \in Seq(S) /\ Len(<<"ram", "disk">>) = 2 /\ <<"ram", "disk">>[1] = "ram"
    <2>1. "ram" \in S /\ "disk" \in S
      BY DEF Nowhere
    <2> HIDE DEF S
    <2> QED
      BY <2>1
  <1>4. Places \in Seq(S) /\ Len(Places) = n + 2 /\ Places[n + 1] = "ram"
    <2> HIDE DEF S
    <2> QED
      BY <1>2, <1>3 DEF Places
  <1>5. Places \in Seq(Place) /\ DOMAIN Places = 1..(n + 2)
    <2> HIDE DEF S
    <2> QED
      BY <1>2, <1>4 DEF Place, ToSet
  <1>6. "ram" \in Place /\ Nowhere \notin Place
    <2>1. n + 1 \in DOMAIN Places /\ \A i \in DOMAIN Places : Places[i] # Nowhere
      BY <1>2, <1>4, <1>5
    <2> QED
      BY <1>4, <2>1 DEF Place, ToSet
  <1>7. ASSUME NEW c \in Handler \cup Resident PROVE Governor!First(c) \in 1..Len(Places)
    <2>1. Preferred[c] \in {"vram", "ram", "disk"}
      BY GovernorAssumption
    <2> QED
      BY <1>1, <1>2, <1>4, <2>1 DEF Governor!First
  <1> QED
    BY <1>1, <1>2, <1>4, <1>5, <1>6, <1>7

\* A client that is admitted where there is room is counted there, and fits.
LEMMA AdmittedFits ==
  ASSUME PlacesAddUp, NEW p \in Place, NEW x \in Clients, x \notin HeldAt(p),
         Governor!HasRoom(p, Amount[x]),
         used' = [used EXCEPT ![p] = @ + Amount[x]],
         HeldAt(p)' = HeldAt(p) \cup {x}, \A r \in Place \ {p} : HeldAt(r)' = HeldAt(r)
  PROVE  PlacesAddUp'
  <1>1. Amount[x] \in Nat /\ used[p] \in Nat
    BY GovernorAssumption DEF PlacesAddUp
  <1>2. p \in DOMAIN PlaceBudget /\ used[p] + Amount[x] <= PlaceBudget[p]
    BY DEF Governor!HasRoom
  <1>3. used' \in [Place -> Nat]
    BY <1>1 DEF PlacesAddUp
  <1>4. ASSUME NEW r \in Place
        PROVE  /\ IsFiniteSet(HeldAt(r)') /\ HeldAt(r)' \subseteq Clients
               /\ used'[r] = Bytes(HeldAt(r)') /\ used'[r] <= Room(r)
    <2>1. CASE r = p
      <3>1. PICK S : S = HeldAt(p)
        OBVIOUS
      <3>2. IsFiniteSet(S) /\ S \subseteq Clients /\ used[p] = Bytes(S) /\ x \notin S
        BY <3>1 DEF PlacesAddUp
      <3>3. Bytes(S \cup {x}) = Amount[x] + Bytes(S) /\ IsFiniteSet(S \cup {x})
        BY <3>2, BytesOfOneMore, FS_AddElement
      <3>4. used'[p] = used[p] + Amount[x]
        BY DEF PlacesAddUp
      <3>5. HeldAt(p)' = S \cup {x}
        BY <3>1
      <3>6. /\ IsFiniteSet(S \cup {x}) /\ S \cup {x} \subseteq Clients
            /\ used'[p] = Bytes(S \cup {x}) /\ used'[p] <= Room(p)
        BY <1>1, <1>2, <3>2, <3>3, <3>4 DEF Room
      <3> QED
        BY <2>1, <3>5, <3>6
    <2>2. CASE r # p
      <3>1. HeldAt(r)' = HeldAt(r) /\ used'[r] = used[r]
        BY <2>2 DEF PlacesAddUp
      <3> QED
        BY <3>1 DEF PlacesAddUp
    <2> QED
      BY <2>1, <2>2
  <1>5. \A r \in Place : Room(r)' = Room(r) /\ Bytes(HeldAt(r))' = Bytes(HeldAt(r)')
    BY DEF Room, Bytes, MapThenSumSet, MapThenFoldSet
  <1> QED
    BY <1>3, <1>4, <1>5 DEF PlacesAddUp

\* A client that leaves takes its bytes along.
LEMMA LeaverIsUncounted ==
  ASSUME PlacesAddUp, NEW p \in Place, NEW x \in HeldAt(p),
         used' = [used EXCEPT ![p] = @ - Amount[x]],
         HeldAt(p)' = HeldAt(p) \ {x}, \A r \in Place \ {p} : HeldAt(r)' = HeldAt(r)
  PROVE  PlacesAddUp'
  <1>1. PICK S : S = HeldAt(p) \ {x}
    OBVIOUS
  <1>2. x \in Clients /\ x \notin S /\ HeldAt(p) = S \cup {x} /\ S \subseteq Clients /\ IsFiniteSet(HeldAt(p))
    BY <1>1 DEF PlacesAddUp
  <1>3. IsFiniteSet(S)
    BY <1>1, <1>2, FS_RemoveElement
  <1>4. Bytes(S) \in Nat /\ Bytes(S \cup {x}) = Amount[x] + Bytes(S)
    BY <1>2, <1>3, BytesOfOneMore
  <1>5. Amount[x] \in Nat
    BY <1>2, GovernorAssumption
  <1>6. used[p] = Amount[x] + Bytes(S) /\ used[p] <= Room(p) /\ used[p] \in Nat
    BY <1>2, <1>4 DEF PlacesAddUp
  <1>7. used'[p] = Bytes(S) /\ used'[p] <= Room(p)
    <2>1. used'[p] = used[p] - Amount[x]
      BY DEF PlacesAddUp
    <2>2. Room(p) \in Nat
      BY GovernorAssumption DEF Room
    <2> QED
      BY <1>4, <1>5, <1>6, <2>1, <2>2
  <1>8. used' \in [Place -> Nat]
    BY <1>4, <1>7 DEF PlacesAddUp
  <1>9. ASSUME NEW r \in Place
        PROVE  /\ IsFiniteSet(HeldAt(r)') /\ HeldAt(r)' \subseteq Clients
               /\ used'[r] = Bytes(HeldAt(r)') /\ used'[r] <= Room(r)
    <2>1. CASE r = p
      BY <1>1, <1>2, <1>3, <1>7, <2>1
    <2>2. CASE r # p
      <3>1. HeldAt(r)' = HeldAt(r) /\ used'[r] = used[r]
        BY <2>2 DEF PlacesAddUp
      <3> QED
        BY <3>1 DEF PlacesAddUp
    <2> QED
      BY <2>1, <2>2
  <1>10. \A r \in Place : Room(r)' = Room(r) /\ Bytes(HeldAt(r))' = Bytes(HeldAt(r)')
    BY DEF Room, Bytes, MapThenSumSet, MapThenFoldSet
  <1> QED
    BY <1>8, <1>9, <1>10 DEF PlacesAddUp

\* Nothing is counted and nothing is held before the first call.
LEMMA GovernorInit == Governor!Init => GovernorInv
  <1> SUFFICES ASSUME Governor!Init PROVE GovernorInv
    OBVIOUS
  <1> USE DEF Governor!Init
  <1>1. \A p \in Place : HeldAt(p) = {}
    BY GovernorPlaces DEF HeldAt, Governor!Nobody
  <1>2. \A p \in Place : Room(p) \in Nat
    BY GovernorAssumption DEF Room
  <1>3. \A p \in Place : used[p] = 0
    BY GovernorPlaces
  <1>4. PlacesAddUp
    <2>1. IsFiniteSet({})
      BY FS_EmptySet
    <2>2. used \in [Place -> Nat]
      BY GovernorPlaces
    <2>3. \A p \in Place : used[p] = Bytes(HeldAt(p))
      BY <1>1, <1>3, BytesOfNobody
    <2> QED
      BY <1>1, <1>2, <1>3, <2>1, <2>2, <2>3 DEF PlacesAddUp
  <1>5. PoolAddsUp
    BY BytesOfNobody, FS_EmptySet DEF PoolAddsUp
  <1>6. HoldersAreTyped
    BY GovernorPlaces DEF HoldersAreTyped, Governor!Idle
  <1> QED
    BY <1>4, <1>5, <1>6 DEF GovernorInv

\* The pool's part only speaks of the pool.
LEMMA PoolUnchanged ==
  ASSUME PoolAddsUp, UNCHANGED <<pooled, started, used_bytes>>
  PROVE  PoolAddsUp'
  <1>1. Bytes(pooled)' = Bytes(pooled')
    BY DEF Bytes, MapThenSumSet, MapThenFoldSet
  <1> QED
    BY <1>1 DEF PoolAddsUp

\* choose (207-215), one place after the other, and the end of the call.
LEMMA HandlerStep ==
  ASSUME GovernorInv, NEW h \in Handler,
         Governor!CallHandler(h) \/ Governor!TryAcquire(h) \/ Governor!Finish(h)
  PROVE  GovernorInv'
  <1> USE DEF GovernorInv
  <1> DEFINE n == Len(Places)
  <1>1. n \in Nat \ {0} /\ Governor!Places = Places /\ Nowhere \notin Place /\ Governor!Nowhere = Nowhere
    BY GovernorPlaces
  <1>2. h \in Clients /\ \A p \in Place : held[h] # p => h \notin HeldAt(p)
    BY GovernorAssumption DEF Clients, HeldAt, PoolAddsUp
  <1>3. PoolAddsUp' /\ residencies' = residencies
    BY PoolUnchanged DEF Governor!CallHandler, Governor!TryAcquire, Governor!Finish
  <1>4. residencies' \in [Resident -> Governor!Residency \cup {Governor!Nobody}]
    BY <1>3 DEF HoldersAreTyped
  <1>5. CASE UNCHANGED <<used, held, pooled, residencies>>
    <2>1. \A p \in Place : HeldAt(p)' = HeldAt(p)
      BY <1>5 DEF HeldAt
    <2>2. \A p \in Place : Bytes(HeldAt(p))' = Bytes(HeldAt(p)') /\ Room(p)' = Room(p)
      BY DEF Bytes, MapThenSumSet, MapThenFoldSet, Room
    <2>3. PlacesAddUp'
      BY <1>5, <2>1, <2>2 DEF PlacesAddUp
    <2>4. CASE Governor!CallHandler(h)
      <3>1. trying' = [trying EXCEPT ![h] = Governor!First(h)] /\ held[h] = Nowhere
        BY <1>1, <2>4 DEF Governor!CallHandler
      <3>2. Governor!First(h) \in 0..n
        BY <1>1, GovernorPlaces
      <3>3. HoldersAreTyped'
        BY <1>4, <1>5, <3>1, <3>2 DEF HoldersAreTyped
      <3> QED
        BY <1>3, <2>3, <3>3
    <2>5. CASE Governor!TryAcquire(h) /\ ~Governor!HasRoom(Places[trying[h]], Amount[h])
      <3>1. trying[h] # 0 /\ trying' = [trying EXCEPT ![h] = IF @ = n THEN 0 ELSE @ + 1]
        BY <1>1, <2>5 DEF Governor!TryAcquire, Governor!Idle
      <3>2. trying' \in [Handler -> 0..n]
        BY <1>1, <3>1 DEF HoldersAreTyped
      <3>3. \A g \in Handler : trying'[g] # 0 => trying[g] # 0
        BY <3>1 DEF HoldersAreTyped
      <3>4. HoldersAreTyped'
        BY <1>4, <1>5, <3>2, <3>3 DEF HoldersAreTyped
      <3> QED
        BY <1>3, <2>3, <3>4
    <2>6. Governor!TryAcquire(h) => ~Governor!HasRoom(Places[trying[h]], Amount[h])
      <3> SUFFICES ASSUME Governor!TryAcquire(h), Governor!HasRoom(Places[trying[h]], Amount[h]) PROVE FALSE
        OBVIOUS
      <3>1. trying[h] # 0 /\ held' = [held EXCEPT ![h] = Places[trying[h]]]
        BY <1>1 DEF Governor!TryAcquire, Governor!Idle
      <3>2. Places[trying[h]] \in Place
        BY <1>1, <3>1, GovernorPlaces DEF HoldersAreTyped
      <3>3. held'[h] = Places[trying[h]] /\ held[h] = Nowhere
        BY <3>1 DEF HoldersAreTyped
      <3> QED
        BY <1>1, <1>5, <3>2, <3>3
    <2>7. ~Governor!Finish(h)
      <3> SUFFICES ASSUME Governor!Finish(h) PROVE FALSE
        OBVIOUS
      <3>1. held[h] # Nowhere /\ held' = [held EXCEPT ![h] = Nowhere]
        BY <1>1 DEF Governor!Finish
      <3> QED
        BY <1>5, <3>1 DEF HoldersAreTyped
    <2> QED
      BY <2>4, <2>5, <2>6, <2>7
  <1>6. CASE Governor!TryAcquire(h) /\ Governor!HasRoom(Places[trying[h]], Amount[h])
    <2>1. trying[h] # 0 /\ held[h] = Nowhere
      BY <1>1, <1>6 DEF Governor!TryAcquire, Governor!Idle, HoldersAreTyped
    <2>2. PICK p \in Place : p = Places[trying[h]]
      BY <1>1, <2>1, GovernorPlaces DEF HoldersAreTyped
    <2>3. /\ used' = [used EXCEPT ![p] = @ + Amount[h]] /\ held' = [held EXCEPT ![h] = p]
          /\ trying' = [trying EXCEPT ![h] = 0] /\ pooled' = pooled
      BY <1>1, <1>6, <2>2 DEF Governor!TryAcquire, Governor!Idle
    <2>4. HeldAt(p)' = HeldAt(p) \cup {h} /\ \A r \in Place \ {p} : HeldAt(r)' = HeldAt(r)
      BY <1>1, <1>3, <2>1, <2>3 DEF HeldAt, HoldersAreTyped
    <2>5. h \notin HeldAt(p)
      BY <1>1, <1>2, <2>1
    <2>6. PlacesAddUp'
      BY <1>2, <1>6, <2>2, <2>3, <2>4, <2>5, AdmittedFits
    <2>7. HoldersAreTyped'
      BY <1>1, <1>4, <2>3 DEF HoldersAreTyped
    <2> QED
      BY <1>3, <2>6, <2>7
  <1>7. CASE Governor!Finish(h)
    <2>1. PICK p \in Place : p = held[h]
      BY <1>1, <1>7 DEF Governor!Finish, HoldersAreTyped
    <2>2. /\ used' = [used EXCEPT ![p] = @ - Amount[h]] /\ held' = [held EXCEPT ![h] = Nowhere]
          /\ trying' = trying /\ pooled' = pooled
      BY <1>1, <1>7, <2>1 DEF Governor!Finish
    <2>3. h \in HeldAt(p) /\ h \notin Resident /\ h \notin Executor
      BY <2>1, GovernorAssumption DEF HeldAt
    <2>4. HeldAt(p)' = HeldAt(p) \ {h} /\ \A r \in Place \ {p} : HeldAt(r)' = HeldAt(r)
      BY <1>1, <1>3, <2>1, <2>2, <2>3 DEF HeldAt, HoldersAreTyped, PoolAddsUp
    <2>5. PlacesAddUp'
      BY <2>2, <2>3, <2>4, LeaverIsUncounted
    <2>6. HoldersAreTyped'
      BY <1>1, <1>4, <2>2 DEF HoldersAreTyped
    <2> QED
      BY <1>3, <2>5, <2>6
  <1> QED
    BY <1>1, <1>3, <1>5, <1>6, <1>7 DEF Governor!CallHandler, Governor!TryAcquire

\* activate and deactivate (168-234).
LEMMA ResidencyStep ==
  ASSUME GovernorInv, NEW q \in Resident,
         Governor!Deactivate(q) \/ \E g \in Generation : Governor!Activate(q, g)
  PROVE  GovernorInv'
  <1> USE DEF GovernorInv
  <1>1. /\ Governor!Places = Places /\ Governor!Place = Place /\ Nowhere \notin Place
        /\ Governor!Nowhere = Nowhere /\ Governor!Nobody.place = Nowhere
    BY GovernorPlaces DEF Governor!Nobody
  <1>2. q \in Clients /\ q \notin Handler /\ q \notin Executor
    BY GovernorAssumption DEF Clients
  <1>3. PoolAddsUp' /\ UNCHANGED <<trying, held, pooled>>
    BY PoolUnchanged DEF Governor!Deactivate, Governor!Activate
  <1>4. CASE Governor!Deactivate(q)
    <2>1. residencies[q] \in Governor!Residency
      BY <1>4 DEF Governor!Deactivate, HoldersAreTyped
    <2>2. PICK p \in Place : p = residencies[q].place
      BY <1>1, <2>1 DEF Governor!Residency
    <2>3. used' = [used EXCEPT ![p] = @ - Amount[q]] /\ residencies' = [residencies EXCEPT ![q] = Governor!Nobody]
      BY <1>4, <2>2 DEF Governor!Deactivate
    <2>4. q \in HeldAt(p)
      BY <2>2 DEF HeldAt
    <2>5. \A r \in Resident : residencies'[r].place = IF r = q THEN Nowhere ELSE residencies[r].place
      BY <1>1, <2>3 DEF HoldersAreTyped
    <2>6. HeldAt(p)' = HeldAt(p) \ {q} /\ \A r \in Place \ {p} : HeldAt(r)' = HeldAt(r)
      BY <1>1, <1>2, <1>3, <2>2, <2>5 DEF HeldAt, PoolAddsUp
    <2>7. PlacesAddUp'
      BY <2>3, <2>4, <2>6, LeaverIsUncounted
    <2>8. HoldersAreTyped'
      BY <1>3, <2>3 DEF HoldersAreTyped
    <2> QED
      BY <1>3, <2>7, <2>8
  <1>5. ASSUME NEW g \in Generation, Governor!Activate(q, g) PROVE GovernorInv'
    <2>1. PICK i \in Governor!First(q)..Len(Places) :
             /\ Governor!HasRoom(Places[i], Amount[q])
             /\ used' = [used EXCEPT ![Places[i]] = @ + Amount[q]]
             /\ residencies' = [residencies EXCEPT ![q] = [generation |-> g, place |-> Places[i]]]
      BY <1>1, <1>5 DEF Governor!Activate
    <2>2. Governor!First(q) \in 1..Len(Places) /\ Places \in Seq(Place) /\ Len(Places) \in Nat
      BY GovernorPlaces
    <2>3. PICK p \in Place : p = Places[i]
      BY <2>2
    <2>4. residencies[q] = Governor!Nobody
      BY <1>5 DEF Governor!Activate
    <2>5. \A r \in Resident : residencies'[r].place = IF r = q THEN p ELSE residencies[r].place
      BY <2>1, <2>3 DEF HoldersAreTyped
    <2>6. residencies[q].place = Nowhere
      BY <1>1, <2>4
    <2>7. q \notin HeldAt(p)
      BY <1>1, <1>2, <2>6 DEF HeldAt, PoolAddsUp
    <2>8. HeldAt(p)' = HeldAt(p) \cup {q} /\ \A r \in Place \ {p} : HeldAt(r)' = HeldAt(r)
      BY <1>1, <1>3, <2>5, <2>6 DEF HeldAt
    <2>9. PlacesAddUp'
      BY <1>2, <2>1, <2>3, <2>7, <2>8, AdmittedFits
    <2>10. [generation |-> g, place |-> p] \in Governor!Residency
      BY <1>1 DEF Governor!Residency
    <2>11. HoldersAreTyped'
      BY <1>3, <2>1, <2>3, <2>10 DEF HoldersAreTyped
    <2> QED
      BY <1>3, <2>9, <2>11
  <1> QED
    BY <1>4, <1>5

\* GovernedExecutorPool (pod_executor.py:130-175), and an executor released past it.
LEMMA PoolStep ==
  ASSUME GovernorInv, NEW x \in Executor,
         Governor!PoolActivate(x) \/ Governor!StopExecutor(x) \/ Governor!PoolRelease(x)
  PROVE  GovernorInv'
  <1> USE DEF GovernorInv
  <1>1. UNCHANGED <<residencies, trying, held>>
    BY DEF Governor!PoolActivate, Governor!StopExecutor, Governor!PoolRelease
  <1>2. HoldersAreTyped'
    BY <1>1 DEF HoldersAreTyped
  <1>3. x \in Clients /\ x \notin Handler /\ x \notin Resident /\ "ram" \in Place /\ Amount[x] \in Nat
        /\ pooled \subseteq Clients
    BY GovernorAssumption, GovernorPlaces DEF Clients, PoolAddsUp
  <1>4. \A S : Bytes(pooled)' = Bytes(pooled')
    BY DEF Bytes, MapThenSumSet, MapThenFoldSet
  <1>5. PICK S : S = pooled
    OBVIOUS
  <1>6. CASE Governor!PoolActivate(x)
    <2>1. /\ x \notin S /\ pooled' = S \cup {x} /\ started' = started \cup {x}
          /\ used_bytes' = used_bytes + Amount[x] /\ Governor!HasRoom("ram", Amount[x])
          /\ used' = [used EXCEPT !["ram"] = @ + Amount[x]]
      BY <1>5, <1>6 DEF Governor!PoolActivate
    <2>2. PICK p \in Place : p = "ram"
      BY <1>3
    <2>3. HeldAt(p)' = HeldAt(p) \cup {x} /\ \A r \in Place \ {p} : HeldAt(r)' = HeldAt(r)
      BY <1>1, <1>5, <2>1, <2>2 DEF HeldAt
    <2>4. x \notin HeldAt(p)
      BY <1>3, <1>5, <2>1 DEF HeldAt
    <2>5. PlacesAddUp'
      BY <1>3, <2>1, <2>2, <2>3, <2>4, AdmittedFits
    <2>6. IsFiniteSet(S) /\ S \subseteq Clients /\ used_bytes = Bytes(S)
      BY <1>3, <1>5 DEF PoolAddsUp
    <2>7. IsFiniteSet(S \cup {x}) /\ Bytes(S) \in Nat /\ Bytes(S \cup {x}) = Amount[x] + Bytes(S)
      BY <1>3, <2>1, <2>6, BytesOfOneMore, FS_AddElement
    <2>8. PoolAddsUp'
      BY <1>3, <1>4, <1>5, <2>1, <2>6, <2>7 DEF PoolAddsUp
    <2> QED
      BY <1>2, <2>5, <2>8
  <1>7. CASE Governor!PoolRelease(x)
    <2>1. /\ x \in S /\ pooled' = S \ {x} /\ started' = started \ {x}
          /\ used_bytes' = used_bytes - Amount[x] /\ used' = [used EXCEPT !["ram"] = @ - Amount[x]]
      BY <1>5, <1>7 DEF Governor!PoolRelease
    <2>2. PICK p \in Place : p = "ram"
      BY <1>3
    <2>3. HeldAt(p)' = HeldAt(p) \ {x} /\ \A r \in Place \ {p} : HeldAt(r)' = HeldAt(r)
      BY <1>1, <1>3, <1>5, <2>1, <2>2 DEF HeldAt
    <2>4. x \in HeldAt(p)
      BY <1>5, <2>1, <2>2 DEF HeldAt
    <2>5. PlacesAddUp'
      BY <2>1, <2>2, <2>3, <2>4, LeaverIsUncounted
    <2>6. PICK R : R = S \ {x}
      OBVIOUS
    <2>7. IsFiniteSet(R) /\ R \subseteq Clients /\ x \notin R /\ S = R \cup {x} /\ used_bytes = Bytes(S)
      BY <1>3, <1>5, <2>1, <2>6, FS_RemoveElement DEF PoolAddsUp
    <2>8. Bytes(R) \in Nat /\ Bytes(S) = Amount[x] + Bytes(R)
      BY <1>3, <2>7, BytesOfOneMore
    <2>9. PoolAddsUp'
      BY <1>3, <1>4, <1>5, <2>1, <2>6, <2>7, <2>8 DEF PoolAddsUp
    <2> QED
      BY <1>2, <2>5, <2>9
  <1>8. CASE Governor!StopExecutor(x)
    <2>1. UNCHANGED <<used, pooled, used_bytes>> /\ started' = started \ {x}
      BY <1>8 DEF Governor!StopExecutor
    <2>2. \A p \in Place : HeldAt(p)' = HeldAt(p)
      BY <1>1, <2>1 DEF HeldAt
    <2>3. \A p \in Place : Bytes(HeldAt(p))' = Bytes(HeldAt(p)') /\ Room(p)' = Room(p)
      BY DEF Bytes, MapThenSumSet, MapThenFoldSet, Room
    <2>4. PlacesAddUp' /\ PoolAddsUp'
      BY <1>4, <2>1, <2>2, <2>3 DEF PlacesAddUp, PoolAddsUp
    <2> QED
      BY <1>2, <2>4
  <1> QED
    BY <1>6, <1>7, <1>8

LEMMA GovernorStep == GovernorInv /\ [Governor!Next]_(Governor!vars) => GovernorInv'
  <1> SUFFICES ASSUME GovernorInv, [Governor!Next]_(Governor!vars) PROVE GovernorInv'
    OBVIOUS
  <1>1. CASE UNCHANGED Governor!vars
    <2>1. UNCHANGED <<used, residencies, trying, held, pooled, used_bytes, started>>
      BY <1>1 DEF Governor!vars
    <2>2. \A p \in Place : HeldAt(p)' = HeldAt(p)
      BY <2>1 DEF HeldAt
    <2>3. \A p \in Place : Bytes(HeldAt(p))' = Bytes(HeldAt(p)') /\ Room(p)' = Room(p)
      BY DEF Bytes, MapThenSumSet, MapThenFoldSet, Room
    <2>4. PlacesAddUp' /\ HoldersAreTyped'
      BY <2>1, <2>2, <2>3 DEF GovernorInv, PlacesAddUp, HoldersAreTyped
    <2>5. PoolAddsUp'
      BY <2>1, PoolUnchanged DEF GovernorInv
    <2> QED
      BY <2>4, <2>5 DEF GovernorInv
  <1> QED
    BY <1>1, HandlerStep, ResidencyStep, PoolStep DEF Governor!Next

\* No byte of the budget leaks or is handed out twice, and everybody at a place fits in it
\* together, for every number of devices, handlers, Pods and executors and every amount
\* (try_acquire, release, 168-234; pod_executor.py:120-175).
THEOREM BudgetsAreKept == Governor!Spec => []BudgetIsKept
  <1>1. GovernorInv => BudgetIsKept
    <2> SUFFICES ASSUME GovernorInv PROVE BudgetIsKept
      OBVIOUS
    <2>1. UsedIsHeld
      BY DEF GovernorInv, PlacesAddUp, PoolAddsUp, UsedIsHeld
    <2>2. BudgetHolds
      BY DEF GovernorInv, PlacesAddUp, BudgetHolds, Room
    <2> QED
      BY <2>1, <2>2 DEF BudgetIsKept
  <1> QED
    BY <1>1, GovernorInit, GovernorStep, PTL DEF Governor!Spec

\* The governor's state has the types TypeOK lists, whoever draws on it.
THEOREM GovernorTypeOK == Governor!Spec => []Governor!TypeOK
  <1>1. GovernorInv => Governor!TypeOK
    BY GovernorPlaces DEF GovernorInv, PlacesAddUp, PoolAddsUp, HoldersAreTyped, Governor!TypeOK
  <1> QED
    BY <1>1, GovernorInit, GovernorStep, PTL DEF Governor!Spec

-----------------------------------------------------------------------------
(* The transport.  ReceiptsTellOutcomes is inductive once the types are      *)
(* known: a call in flight holds its id, so no other call in flight has it,  *)
(* and closing one receipt touches no other.  That an ok is answered also    *)
(* needs to know how a call can come to answer (AnswersAreEarned), and that  *)
(* a call whose caller has an outcome no longer looks at the clock           *)
(* (OutcomesAreLate).                                                        *)

\* A call answers with a payload, or after its deadline came.
AnswersAreEarned == \A c \in Call : at[c] = "answer" => payload[c] \/ clock[c] # "before"

\* A call that still moves has no outcome, and one on its way out has raised.
OutcomesAreLate ==
    \A c \in Call :
        /\ at[c] \in {"idle", "dispatch", "attempt", "handler", "answer"} => outcome[c] = None
        /\ at[c] = "escape" => outcome[c] = "raised"

\* A call before an attempt has one left.
AttemptsAreLeft == \A c \in Call : at[c] \in {"idle", "dispatch", "attempt"} => attempts[c] <= MaxRetries

TransportInv ==
    /\ Transport!TypeOK /\ ReceiptsTellOutcomes /\ OkIsAnswered
    /\ AnswersAreEarned /\ OutcomesAreLate /\ AttemptsAreLeft

LEMMA InitTransportInv == Transport!Init => TransportInv
<1> SUFFICES ASSUME Transport!Init PROVE TransportInv
    OBVIOUS
<1>1. Transport!TypeOK
    BY TransportAssumption DEF Transport!Init, Transport!TypeOK, None
<1>2. ReceiptsTellOutcomes
    BY DEF Transport!Init, ReceiptsTellOutcomes, InFlight
<1>3. OkIsAnswered /\ AnswersAreEarned /\ OutcomesAreLate /\ AttemptsAreLeft
    BY TransportAssumption DEF Transport!Init, OkIsAnswered, AnswersAreEarned, OutcomesAreLate, AttemptsAreLeft, None, Transport!None
<1> QED
    BY <1>1, <1>2, <1>3 DEF TransportInv

\* A call that stays in flight leaves every receipt as it is.
LEMMA FlightKeepsReceipts ==
    ASSUME TransportInv, NEW c \in InFlight, UNCHANGED <<active, receipts>>,
           at' \in [Call -> {"idle", "refused", "dispatch", "attempt", "handler", "answer", "respond", "escape", "done"}],
           at'[c] \notin {"idle", "refused", "done"},
           \A d \in Call : d # c => at'[d] = at[d] /\ outcome'[d] = outcome[d]
    PROVE  ReceiptsTellOutcomes'
<1>1. \A d \in Call : d \in InFlight' <=> d \in InFlight
    BY DEF InFlight
<1>2. \A d \in Call : at'[d] = "done" <=> at[d] = "done" /\ d # c
    BY DEF InFlight
<1> QED
    BY <1>1, <1>2 DEF TransportInv, ReceiptsTellOutcomes, InFlight

LEMMA PassStep ==
    ASSUME TransportInv, NEW c \in Call, Transport!Pass(c)
    PROVE  TransportInv'
<1> USE DEF TransportInv
<1>1. Transport!TypeOK'
    BY DEF Transport!TypeOK, Transport!Pass
<1>2. ReceiptsTellOutcomes'
    BY DEF Transport!Pass, ReceiptsTellOutcomes, InFlight
<1>3. OkIsAnswered'
    BY DEF Transport!Pass, OkIsAnswered, OutcomesAreLate, Transport!TypeOK, None
<1>4. AnswersAreEarned'
    BY DEF Transport!Pass, AnswersAreEarned, Transport!TypeOK
<1>5. OutcomesAreLate' /\ AttemptsAreLeft'
    BY DEF Transport!Pass, OutcomesAreLate, AttemptsAreLeft
<1> QED
    BY <1>1, <1>2, <1>3, <1>4, <1>5

\* An id that no receipt holds belongs to no call in flight.
LEMMA StartStep ==
    ASSUME TransportInv, NEW c \in Call, Transport!Start(c)
    PROVE  TransportInv'
<1> USE DEF TransportInv
<1>1. Transport!TypeOK'
    BY TransportAssumption DEF Transport!TypeOK, Transport!Start, Transport!Goes
<1>2. CASE active[IdOf[c]] # None
    <2>1. /\ at' = [at EXCEPT ![c] = "refused"] /\ outcome' = [outcome EXCEPT ![c] = "raised"]
          /\ UNCHANGED <<clock, attempts, payload, active, receipts>> /\ at[c] = "idle"
        BY <1>2 DEF Transport!Start, Transport!Goes, None, Transport!None
    <2>2. ReceiptsTellOutcomes'
        BY <2>1 DEF Transport!TypeOK, ReceiptsTellOutcomes, InFlight
    <2>3. OkIsAnswered' /\ AnswersAreEarned' /\ OutcomesAreLate' /\ AttemptsAreLeft'
        BY <2>1 DEF Transport!TypeOK, OkIsAnswered, AnswersAreEarned, OutcomesAreLate, AttemptsAreLeft
    <2> QED
        BY <1>1, <2>2, <2>3
<1>3. CASE active[IdOf[c]] = None
    <2>1. /\ at' = [at EXCEPT ![c] = "dispatch"] /\ active' = [active EXCEPT ![IdOf[c]] = c]
          /\ UNCHANGED <<clock, attempts, payload, outcome, receipts>> /\ at[c] = "idle"
        BY <1>3 DEF Transport!Start, Transport!Goes, None, Transport!None
    <2>2. IdOf[c] \in RequestId /\ active'[IdOf[c]] = c
        BY <2>1, TransportAssumption DEF Transport!TypeOK
    <2>3. \A d \in InFlight' : active'[IdOf[d]] = d
        BY <1>3, <2>1, <2>2, TransportAssumption DEF Transport!TypeOK, ReceiptsTellOutcomes, InFlight
    <2>4. ReceiptsTellOutcomes'
        BY <2>1, <2>3 DEF Transport!TypeOK, ReceiptsTellOutcomes
    <2>5. OkIsAnswered' /\ AnswersAreEarned' /\ OutcomesAreLate' /\ AttemptsAreLeft'
        BY <2>1 DEF Transport!TypeOK, OkIsAnswered, AnswersAreEarned, OutcomesAreLate, AttemptsAreLeft
    <2> QED
        BY <1>1, <2>4, <2>5
<1> QED
    BY <1>2, <1>3

\* The steps of a call between its start and the closing of its receipt.
LEMMA CallStep ==
    ASSUME TransportInv, NEW c \in Call,
           \/ Transport!Validate(c) \/ Transport!Attempt(c) \/ Transport!Handled(c) \/ Transport!HandlerFails(c)
           \/ Transport!HandlerRaises(c) \/ Transport!Answer(c)
    PROVE  TransportInv'
<1> USE DEF TransportInv
<1>1. Transport!TypeOK'
    <2>1. CASE Transport!Validate(c)
        BY <2>1 DEF Transport!TypeOK, Transport!Validate, Transport!Goes, Transport!Responds
    <2>2. CASE Transport!Attempt(c)
        BY <2>2, TransportAssumption DEF Transport!TypeOK, AttemptsAreLeft, Transport!Attempt, Transport!Goes
    <2>3. CASE Transport!Handled(c)
        BY <2>3 DEF Transport!TypeOK, Transport!Handled, Transport!Goes
    <2>4. CASE Transport!HandlerFails(c)
        BY <2>4 DEF Transport!TypeOK, Transport!HandlerFails, Transport!Goes, Transport!Responds
    <2>5. CASE Transport!HandlerRaises(c)
        BY <2>5 DEF Transport!TypeOK, Transport!HandlerRaises, Transport!Goes, Transport!Responds
    <2>6. CASE Transport!Answer(c)
        BY <2>6 DEF Transport!TypeOK, Transport!Answer, Transport!Goes, Transport!Responds
    <2> QED
        BY <2>1, <2>2, <2>3, <2>4, <2>5, <2>6
<1>2. /\ c \in InFlight /\ at'[c] \notin {"idle", "refused", "done"}
      /\ UNCHANGED <<clock, active, receipts>>
      /\ \A d \in Call : d # c => at'[d] = at[d] /\ outcome'[d] = outcome[d]
      /\ \A d \in Call : d # c => payload'[d] = payload[d]
      /\ payload[c] => payload'[c]
    BY DEF Transport!TypeOK, InFlight, Transport!Validate, Transport!Attempt, Transport!Handled, Transport!HandlerFails, Transport!HandlerRaises, Transport!Answer, Transport!Goes, Transport!Responds
<1>3. ReceiptsTellOutcomes'
    BY <1>1, <1>2, FlightKeepsReceipts DEF Transport!TypeOK
<1>4. /\ at'[c] = "answer" => payload'[c] \/ clock[c] # "before"
      /\ at'[c] \in {"attempt", "handler", "answer"} => outcome'[c] = None
      /\ at'[c] = "escape" => outcome'[c] = "raised"
      /\ outcome'[c] = "ok" => payload'[c] \/ clock[c] = "at"
      /\ at'[c] # "dispatch"
    BY DEF Transport!TypeOK, AnswersAreEarned, OutcomesAreLate, None, Transport!Validate, Transport!Attempt, Transport!Handled, Transport!HandlerFails,
       Transport!HandlerRaises, Transport!Answer, Transport!Goes, Transport!Responds
<1>5. OkIsAnswered'
    BY <1>2, <1>4 DEF OkIsAnswered
<1>6. AnswersAreEarned'
    BY <1>2, <1>4 DEF AnswersAreEarned
<1>7. OutcomesAreLate'
    BY <1>2, <1>4 DEF OutcomesAreLate
<1>8. AttemptsAreLeft'
    <2>1. at'[c] = "attempt" => attempts'[c] <= MaxRetries
        BY DEF Transport!TypeOK, AttemptsAreLeft, Transport!Validate, Transport!Attempt, Transport!Handled, Transport!HandlerFails, Transport!HandlerRaises,
           Transport!Answer, Transport!Goes, Transport!Responds
    <2>2. \A d \in Call : d # c => attempts'[d] = attempts[d]
        BY DEF Transport!TypeOK, Transport!Validate, Transport!Attempt, Transport!Handled, Transport!HandlerFails, Transport!HandlerRaises, Transport!Answer
    <2> QED
        BY <2>1, <2>2, <1>2, <1>4 DEF AttemptsAreLeft
<1> QED
    BY <1>1, <1>3, <1>5, <1>6, <1>7, <1>8

\* The receipt that is closed is the caller's own.
LEMMA CloseStep ==
    ASSUME TransportInv, NEW c \in InFlight, NEW success \in BOOLEAN,
           receipts' = receipts \cup {[call |-> active[IdOf[c]], success |-> success]},
           active' = [active EXCEPT ![IdOf[c]] = None],
           at' = [at EXCEPT ![c] = "done"],
           UNCHANGED <<clock, attempts, payload, outcome>>,
           success <=> outcome[c] = "ok"
    PROVE  TransportInv'
<1> USE DEF TransportInv
<1>1. c \in Call /\ active[IdOf[c]] = c /\ IdOf[c] \in RequestId
    BY TransportAssumption DEF InFlight, ReceiptsTellOutcomes
<1>2. Transport!TypeOK'
    BY <1>1 DEF Transport!TypeOK, None, Transport!None
<1>3. \A d \in InFlight' : d \in InFlight /\ d # c
    BY <1>1 DEF Transport!TypeOK, InFlight
<1>4. \A d \in InFlight' : active'[IdOf[d]] = d
    <2> SUFFICES ASSUME NEW d \in InFlight' PROVE active'[IdOf[d]] = d
        OBVIOUS
    <2>1. d \in Call /\ IdOf[d] \in RequestId /\ active[IdOf[d]] = d /\ d # c
        BY <1>3, TransportAssumption DEF InFlight, ReceiptsTellOutcomes
    <2> QED
        BY <2>1, <1>1 DEF Transport!TypeOK
<1>5. {r \in receipts : r.call = c} = {}
    BY DEF InFlight, ReceiptsTellOutcomes
<1>6. ReceiptsTellOutcomes'
    <2>1. \A d \in Call : at'[d] = "done" <=> at[d] = "done" \/ d = c
        BY DEF Transport!TypeOK
    <2>2. {r \in receipts' : r.call = c} = {[call |-> c, success |-> outcome'[c] = "ok"]}
        BY <1>1, <1>5
    <2>3. \A d \in Call : d # c => {r \in receipts' : r.call = d} = {r \in receipts : r.call = d}
        BY <1>1
    <2>4. \A r \in receipts' : r.call \in Call /\ at'[r.call] = "done"
        BY <1>1, <2>1 DEF ReceiptsTellOutcomes
    <2> QED
        BY <1>4, <2>1, <2>2, <2>3, <2>4 DEF ReceiptsTellOutcomes
<1>7. OkIsAnswered' /\ AnswersAreEarned' /\ OutcomesAreLate' /\ AttemptsAreLeft'
    BY DEF Transport!TypeOK, OkIsAnswered, AnswersAreEarned, OutcomesAreLate, AttemptsAreLeft
<1> QED
    BY <1>2, <1>6, <1>7

LEMMA FinishStep ==
    ASSUME TransportInv, NEW c \in Call, Transport!Finish(c)
    PROVE  TransportInv'
<1> USE DEF TransportInv
<1>1. c \in InFlight /\ at[c] = "respond"
    BY DEF Transport!Finish, InFlight
<1>2. CASE /\ receipts' = receipts \cup {[call |-> active[IdOf[c]], success |-> outcome[c] = "ok"]}
           /\ active' = [active EXCEPT ![IdOf[c]] = None]
           /\ Transport!Goes(c, "done") /\ UNCHANGED outcome
    BY <1>1, <1>2, CloseStep DEF Transport!Finish, Transport!Goes
<1>3. CASE /\ Transport!Goes(c, "escape") /\ outcome' = [outcome EXCEPT ![c] = "raised"]
           /\ UNCHANGED <<active, receipts>>
    <2>1. Transport!TypeOK' /\ at' = [at EXCEPT ![c] = "escape"] /\ UNCHANGED <<clock, attempts, payload>>
        BY <1>3 DEF Transport!TypeOK, Transport!Finish, Transport!Goes
    <2>2. ReceiptsTellOutcomes'
        BY <1>1, <1>3, <2>1, FlightKeepsReceipts DEF Transport!TypeOK
    <2>3. OkIsAnswered' /\ AnswersAreEarned' /\ OutcomesAreLate' /\ AttemptsAreLeft'
        BY <1>3, <2>1 DEF Transport!TypeOK, OkIsAnswered, AnswersAreEarned, OutcomesAreLate, AttemptsAreLeft
    <2> QED
        BY <2>1, <2>2, <2>3
<1> QED
    BY <1>2, <1>3 DEF Transport!Finish, None, Transport!None

LEMMA FinishRaisingStep ==
    ASSUME TransportInv, NEW c \in Call, Transport!FinishRaising(c)
    PROVE  TransportInv'
<1>1. c \in InFlight /\ outcome[c] = "raised"
    BY DEF Transport!FinishRaising, InFlight, TransportInv, OutcomesAreLate
<1> QED
    BY <1>1, CloseStep DEF Transport!FinishRaising, Transport!Goes, None, Transport!None

LEMMA NextTransportInv == TransportInv /\ [Transport!Next]_(Transport!vars) => TransportInv'
<1> SUFFICES ASSUME TransportInv, [Transport!Next]_(Transport!vars) PROVE TransportInv'
    OBVIOUS
<1>1. CASE UNCHANGED Transport!vars
    BY <1>1 DEF Transport!vars, TransportInv, Transport!TypeOK, ReceiptsTellOutcomes, InFlight, OkIsAnswered, AnswersAreEarned,
       OutcomesAreLate, AttemptsAreLeft
<1>2. CASE Transport!Next
    BY <1>2, PassStep, StartStep, CallStep, FinishStep, FinishRaisingStep DEF Transport!Next
<1> QED
    BY <1>1, <1>2

\* Calls may share request ids, handlers may raise what they like: a call in flight has
\* its own receipt open, one that ended left exactly one, which tells its caller's
\* outcome, and an ok carries a payload unless the clock stood at the deadline.
THEOREM TransportTellsTheTruth == Transport!Spec => []TransportIsHonest
<1>1. TransportInv => TransportIsHonest
    BY DEF TransportInv, TransportIsHonest
<1> QED
    BY InitTransportInv, NextTransportInv, <1>1, PTL DEF Transport!Spec

-----------------------------------------------------------------------------
(* The mesh.  An endpoint sees only the envelope.  The inductive invariant   *)
(* says what the envelope remembers of the copy's route (IsCopyOf): what it  *)
(* was published with, less one hop for every endpoint on the route, and     *)
(* these endpoints among the visited ones.                                   *)

Envelope == [budget : Int, deadline : Int, ts : Nat, visited : Seq(Endpoint)]
Copy     == [envelope : Envelope, route : Seq(Endpoint)]

\* A copy tells what was published and where it has been.
IsCopyOf(copy, e) ==
    /\ copy.envelope.ts = e.ts
    /\ copy.envelope.deadline = e.deadline
    /\ ToSet(copy.envelope.visited) = ToSet(e.visited) \cup ToSet(copy.route)
    /\ e.budget = NoLimit => copy.envelope.budget = NoLimit /\ copy.route = <<>>
    /\ e.budget # NoLimit => copy.envelope.budget = e.budget - Len(copy.route)
    /\ copy.route # <<>> => Len(copy.route) < e.budget
    /\ IsInjective(copy.route)
    /\ ToSet(copy.route) \cap ToSet(e.visited) = {}

\* Everything follows from one publication.
MeshInv ==
    /\ now \in Nat
    /\ handling \in [Endpoint -> SUBSET [copy : Copy, since : Nat]]
    /\ sending \in [Endpoint -> SUBSET Copy]
    /\ wire \subseteq Copy
    /\ origin \subseteq Envelope
    /\ origin = {} => Copies = {}
    /\ \A e \in origin : \A copy \in Copies : IsCopyOf(copy, e)
    /\ \A e \in origin : \A work \in Works :
         e.deadline # NoLimit => work.since <= e.ts + e.deadline

\* One more endpoint at the end of a route.
LEMMA AppendToRoute ==
    ASSUME NEW s \in Seq(Endpoint), NEW p \in Endpoint
    PROVE  /\ Append(s, p) \in Seq(Endpoint)
           /\ Len(Append(s, p)) = Len(s) + 1 /\ Append(s, p) # <<>>
           /\ ToSet(Append(s, p)) = ToSet(s) \cup {p}
           /\ IsInjective(s) /\ p \notin ToSet(s) => IsInjective(Append(s, p))
<1> PICK t : t = Append(s, p)
    OBVIOUS
<1>1. /\ t \in Seq(Endpoint) /\ Len(t) = Len(s) + 1 /\ t # <<>>
      /\ \A i \in 1..Len(s) : t[i] = s[i]
      /\ t[Len(s) + 1] = p
    OBVIOUS
<1>2. DOMAIN s = 1..Len(s) /\ DOMAIN t = 1..Len(t) /\ Len(s) \in Nat
    BY <1>1
<1>3. 1..Len(t) = 1..Len(s) \cup {Len(s) + 1}
    BY <1>1, <1>2
<1>4. ToSet(t) = ToSet(s) \cup {p}
    BY <1>1, <1>2, <1>3 DEF ToSet
<1>5. ASSUME IsInjective(s), p \notin ToSet(s)
      PROVE  IsInjective(t)
    BY <1>1, <1>2, <1>3, <1>5 DEF ToSet, IsInjective
<1> QED
    BY <1>1, <1>4, <1>5

\* Where a copy can be, in this state and in the next.
LEMMA CopiesAre ==
    /\ \A copy : copy \in Copies <=> \/ copy \in wire
                                     \/ \E p \in Endpoint : copy \in sending[p]
                                     \/ \E work \in Works : copy = work.copy
    /\ \A work : work \in Works <=> \E p \in Endpoint : work \in handling[p]
<1>1. \A work : work \in Works <=> \E p \in Endpoint : work \in handling[p]
    BY DEF Works
<1>2. \A copy : copy \in Sent <=> \E p \in Endpoint : copy \in sending[p]
    BY DEF Sent
<1> QED
    BY <1>1, <1>2 DEF Copies

LEMMA CopiesWillBe ==
    /\ \A copy : copy \in Copies' <=> \/ copy \in wire'
                                     \/ \E p \in Endpoint : copy \in sending'[p]
                                     \/ \E work \in Works' : copy = work.copy
    /\ \A work : work \in Works' <=> \E p \in Endpoint : work \in handling'[p]
<1>1. \A work : work \in Works' <=> \E p \in Endpoint : work \in handling'[p]
    BY DEF Works
<1>2. \A copy : copy \in Sent' <=> \E p \in Endpoint : copy \in sending'[p]
    BY DEF Sent
<1> QED
    BY <1>1, <1>2 DEF Copies

LEMMA InitMeshInv == Network!Init => MeshInv
BY CopiesAre DEF Network!Init, MeshInv

LEMMA TickStep == MeshInv /\ Network!Tick => MeshInv'
<1> SUFFICES ASSUME MeshInv, Network!Tick PROVE MeshInv'
    OBVIOUS
<1>1. now' \in Nat /\ UNCHANGED <<origin, wire, handling, sending>>
    BY DEF MeshInv, Network!Tick
<1>2. Copies' = Copies /\ Works' = Works
    BY <1>1 DEF Copies, Sent, Works
<1> QED
    BY <1>1, <1>2 DEF MeshInv

LEMMA PublishStep == MeshInv /\ Network!Publish => MeshInv'
<1> SUFFICES ASSUME MeshInv, Network!Publish PROVE MeshInv'
    OBVIOUS
<1> PICK budget \in Budgets, deadline \in Deadlines, visited \in {<<>>} \cup {<<p>> : p \in Endpoint} :
        LET e == [budget |-> budget, deadline |-> deadline, ts |-> now, visited |-> visited] IN
        /\ origin' = {e}
        /\ wire' = {[envelope |-> e, route |-> <<>>]}
    BY DEF Network!Publish
<1> PICK e : e = [budget |-> budget, deadline |-> deadline, ts |-> now, visited |-> visited]
    OBVIOUS
<1> PICK copy : copy = [envelope |-> e, route |-> <<>>]
    OBVIOUS
<1>1. /\ origin = {} /\ Copies = {} /\ origin' = {e} /\ wire' = {copy}
      /\ UNCHANGED <<now, handling, sending>>
    BY DEF Network!Publish, MeshInv
<1>2. budget \in Int /\ deadline \in Int /\ visited \in Seq(Endpoint)
    <2>1. budget \in Int /\ deadline \in Int
        BY MeshAssumption DEF NoLimit
    <2>2. <<>> \in Seq(Endpoint) /\ \A p \in Endpoint : <<p>> \in Seq(Endpoint)
        OBVIOUS
    <2> QED
        BY <2>1, <2>2
<1>3. e \in Envelope /\ copy \in Copy
    BY <1>2 DEF MeshInv, Envelope, Copy
<1>4. Copies' = {copy} /\ Works' = {}
    BY <1>1, CopiesAre, CopiesWillBe DEF MeshInv
<1>5. IsCopyOf(copy, e)
    <2>1. ToSet(<<>>) = {} /\ IsInjective(<<>>) /\ Len(<<>>) = 0
        BY DEF ToSet, IsInjective
    <2> QED
        BY <2>1, <1>2 DEF IsCopyOf
<1> QED
    BY <1>1, <1>3, <1>4, <1>5 DEF MeshInv

\* A copy that is taken for handling has not expired.
LEMMA ArriveStep ==
    ASSUME MeshInv, NEW p \in Endpoint, Network!Arrive(p)
    PROVE  MeshInv'
<1> PICK copy \in wire :
        /\ Network!Accepted(copy.envelope)
        /\ handling' = [handling EXCEPT ![p] = {[copy |-> copy, since |-> now]}]
    BY DEF Network!Arrive
<1>1. /\ UNCHANGED <<now, origin, wire, sending>> /\ copy \in Copies /\ copy \in Copy
    BY CopiesAre DEF Network!Arrive, MeshInv
<1>2. Copies' \subseteq Copies /\ Works' \subseteq Works \cup {[copy |-> copy, since |-> now]}
    BY <1>1, CopiesAre, CopiesWillBe DEF MeshInv
<1>3. handling' \in [Endpoint -> SUBSET [copy : Copy, since : Nat]]
    BY <1>1 DEF MeshInv
<1>4. ASSUME NEW e \in origin, e.deadline # NoLimit
      PROVE  now <= e.ts + e.deadline
    <2>1. copy.envelope.ts = e.ts /\ copy.envelope.deadline = e.deadline
        BY <1>1 DEF MeshInv, IsCopyOf
    <2>2. e.ts \in Int /\ e.deadline \in Int /\ now \in Int
        BY DEF MeshInv, Envelope
    <2> QED
        BY <2>1, <2>2, <1>4 DEF Network!Accepted, Network!Expired, Network!NoLimit, NoLimit
<1> QED
    BY <1>1, <1>2, <1>3, <1>4 DEF MeshInv

LEMMA ReturnStep ==
    ASSUME MeshInv, NEW p \in Endpoint, Network!Return(p)
    PROVE  MeshInv'
<1>1. /\ UNCHANGED <<now, origin, wire, sending>>
      /\ handling' = [handling EXCEPT ![p] = {}]
    BY DEF Network!Return
<1>2. Copies' \subseteq Copies /\ Works' \subseteq Works
    BY <1>1, CopiesAre, CopiesWillBe DEF MeshInv
<1> QED
    BY <1>1, <1>2 DEF MeshInv

\* What is sent on is a copy of the same publication, one hop further.
LEMMA OnwardIsCopy ==
    ASSUME NEW e \in Envelope, NEW copy \in Copy, NEW p \in Endpoint,
           IsCopyOf(copy, e), Network!Forwardable(copy.envelope, p),
           NEW next, next = [envelope |-> Network!Onward(copy.envelope, p), route |-> Append(copy.route, p)]
    PROVE  next \in Copy /\ IsCopyOf(next, e)
<1>1. copy.envelope \in Envelope /\ copy.route \in Seq(Endpoint) /\ copy.envelope.visited \in Seq(Endpoint)
    BY DEF Copy, Envelope
<1>2. /\ next.envelope.budget = copy.envelope.budget - 1
      /\ next.envelope.visited = Append(copy.envelope.visited, p)
      /\ next.envelope.ts = copy.envelope.ts
      /\ next.envelope.deadline = copy.envelope.deadline
      /\ next.envelope = [budget |-> copy.envelope.budget - 1, deadline |-> copy.envelope.deadline,
                          ts |-> copy.envelope.ts, visited |-> Append(copy.envelope.visited, p)]
      /\ next.route = Append(copy.route, p)
    BY <1>1 DEF Network!Onward, Envelope
<1>3. /\ next.route \in Seq(Endpoint) /\ next.route # <<>> /\ Len(next.route) = Len(copy.route) + 1
      /\ ToSet(next.route) = ToSet(copy.route) \cup {p}
      /\ IsInjective(copy.route) /\ p \notin ToSet(copy.route) => IsInjective(next.route)
      /\ next.envelope.visited \in Seq(Endpoint)
      /\ ToSet(next.envelope.visited) = ToSet(copy.envelope.visited) \cup {p}
    BY <1>1, <1>2, AppendToRoute
<1>4. next \in Copy
    BY <1>1, <1>2, <1>3 DEF Copy, Envelope
<1>5. p \notin ToSet(copy.envelope.visited) /\ copy.envelope.budget # NoLimit /\ copy.envelope.budget > 1
    BY DEF Network!Forwardable, Network!NoLimit, NoLimit, Network!ToSet, ToSet
<1>6. /\ e.budget # NoLimit /\ copy.envelope.budget = e.budget - Len(copy.route)
      /\ e.budget \in Int /\ Len(copy.route) \in Int
    BY <1>1, <1>5 DEF IsCopyOf, Envelope
<1>7. next.envelope.budget = e.budget - Len(next.route) /\ Len(next.route) < e.budget
    BY <1>2, <1>3, <1>5, <1>6
<1>8. IsInjective(next.route) /\ ToSet(next.route) \cap ToSet(e.visited) = {}
    BY <1>3, <1>5 DEF IsCopyOf
<1> QED
    BY <1>2, <1>3, <1>4, <1>6, <1>7, <1>8 DEF IsCopyOf

LEMMA ForwardStep ==
    ASSUME MeshInv, NEW p \in Endpoint, Network!Forward(p)
    PROVE  MeshInv'
<1> PICK work \in handling[p] :
        /\ Network!Forwardable(work.copy.envelope, p)
        /\ sending' = [sending EXCEPT ![p] = {[envelope |-> Network!Onward(work.copy.envelope, p),
                                               route |-> Append(work.copy.route, p)]}]
    BY DEF Network!Forward
<1> PICK copy : copy = work.copy
    OBVIOUS
<1> PICK next : next = [envelope |-> Network!Onward(copy.envelope, p), route |-> Append(copy.route, p)]
    OBVIOUS
<1>1. /\ UNCHANGED <<now, origin, wire, handling>> /\ sending' = [sending EXCEPT ![p] = {next}]
      /\ copy \in Copies /\ copy \in Copy
    <2>1. work \in Works /\ work \in [copy : Copy, since : Nat]
        BY CopiesAre DEF MeshInv
    <2> QED
        BY <2>1, CopiesAre DEF Network!Forward
<1>2. PICK e \in origin : TRUE
    BY <1>1 DEF MeshInv
<1>3. e \in Envelope
    BY <1>2 DEF MeshInv
<1>4. IsCopyOf(copy, e) /\ next \in Copy
    BY <1>1, <1>2, <1>3, OnwardIsCopy DEF MeshInv
<1>5. Copies' \subseteq Copies \cup {next} /\ Works' = Works
    BY <1>1, CopiesAre, CopiesWillBe DEF MeshInv
<1>6. \A f \in origin : IsCopyOf(next, f)
    BY <1>1, OnwardIsCopy DEF MeshInv
<1>7. sending' \in [Endpoint -> SUBSET Copy]
    BY <1>1, <1>4 DEF MeshInv
<1>8. \A f \in origin' : \A c \in Copies' : IsCopyOf(c, f)
    <2> SUFFICES ASSUME NEW f \in origin, NEW c \in Copies' PROVE IsCopyOf(c, f)
        BY <1>1
    <2>1. CASE c = next
        BY <1>6, <2>1
    <2>2. CASE c \in Copies
        BY <2>2 DEF MeshInv
    <2> QED
        BY <1>5, <2>1, <2>2
<1>9. \A f \in origin' : \A w \in Works' : f.deadline # NoLimit => w.since <= f.ts + f.deadline
    BY <1>1, <1>5 DEF MeshInv
<1>10. origin' # {}
    BY <1>1, <1>2
<1>11. /\ now' \in Nat /\ handling' \in [Endpoint -> SUBSET [copy : Copy, since : Nat]]
       /\ wire' \subseteq Copy /\ origin' \subseteq Envelope
    BY <1>1 DEF MeshInv
<1> QED
    BY <1>7, <1>8, <1>9, <1>10, <1>11 DEF MeshInv

LEMMA SendStep ==
    ASSUME MeshInv, NEW p \in Endpoint, Network!Send(p)
    PROVE  MeshInv'
<1>1. /\ UNCHANGED <<now, origin, handling>> /\ sending' = [sending EXCEPT ![p] = {}]
      /\ wire' \in {wire, sending[p]}
    BY DEF Network!Send
<1>2. Copies' \subseteq Copies /\ Works' = Works
    BY <1>1, CopiesAre, CopiesWillBe DEF MeshInv
<1>3. wire' \subseteq Copy
    BY <1>1 DEF MeshInv
<1> QED
    BY <1>1, <1>2, <1>3 DEF MeshInv

LEMMA NextMeshInv == MeshInv /\ [Network!Next]_meshVars => MeshInv'
<1> SUFFICES ASSUME MeshInv, [Network!Next]_meshVars PROVE MeshInv'
    OBVIOUS
<1>1. CASE UNCHANGED meshVars
    <2>1. UNCHANGED <<now, origin, wire, handling, sending>>
        BY <1>1 DEF meshVars
    <2>2. Copies' = Copies /\ Works' = Works
        BY <2>1 DEF Copies, Sent, Works
    <2> QED
        BY <2>1, <2>2 DEF MeshInv
<1>2. CASE Network!Next
    BY <1>2, TickStep, PublishStep, ArriveStep, ReturnStep, ForwardStep, SendStep DEF Network!Next
<1> QED
    BY <1>1, <1>2

\* However often the broker repeats a copy and the handlers forward it, the copy takes
\* fewer hops than its budget, passes no endpoint twice and is not handled late.
THEOREM MeshHopsAreBounded == Network!Spec => []HopsAreBounded
<1>1. MeshInv => HopsAreBounded
    BY DEF MeshInv, HopsAreBounded, IsCopyOf
<1> QED
    BY InitMeshInv, NextMeshInv, <1>1, PTL DEF Network!Spec, Network!vars, meshVars
-------------------------------------------------------------------------------
(* Presence.                                                                     *)

\* Once the event is set no heartbeat starts, so one that announces after "offline" was
\* under way at close(), which excuses it.
PresenceInv ==
    /\ link # "open" => stop
    /\ link = "stopping" /\ ~excused => beat = "waits"
    /\ link \in {"leaving", "closed"} /\ ~excused => beat = "waits" /\ retained = "offline"
    /\ beat \in {"waits", "announces"}

LEMMA InitPresenceInv == Network!PresenceInit => PresenceInv
    BY DEF Network!PresenceInit, PresenceInv

LEMMA NextPresenceInv ==
    PresenceInv /\ [Network!PresenceNext]_(Network!presenceVars) => PresenceInv'
<1> SUFFICES ASSUME PresenceInv, [Network!PresenceNext]_(Network!presenceVars) PROVE PresenceInv'
    OBVIOUS
<1>1. CASE Network!Beat
    BY <1>1 DEF Network!Beat, PresenceInv
<1>2. CASE Network!Announce
    BY <1>2 DEF Network!Announce, PresenceInv
<1>3. CASE Network!Close
    BY <1>3 DEF Network!Close, PresenceInv
<1>4. CASE Network!SayOffline
    BY <1>4 DEF Network!SayOffline, PresenceInv
<1>5. CASE Network!Disconnect
    BY <1>5 DEF Network!Disconnect, PresenceInv
<1>6. CASE UNCHANGED Network!presenceVars
    BY <1>6 DEF Network!presenceVars, PresenceInv
<1> QED
    BY <1>1, <1>2, <1>3, <1>4, <1>5, <1>6 DEF Network!PresenceNext

\* close() has the last word on an endpoint's presence, unless its publication was lost
\* or a heartbeat had passed its check of the event before close() set it (192-207).
THEOREM OfflineIsTheLastWord == Network!PresenceSpec => []PresenceEndsOffline
<1>1. PresenceInv => PresenceEndsOffline
    BY DEF PresenceInv, PresenceEndsOffline
<1> QED
    BY InitPresenceInv, NextPresenceInv, <1>1, PTL DEF Network!PresenceSpec

-----------------------------------------------------------------------------
(* counting *)

LEMMA CountAdded ==
    ASSUME NEW S, IsFiniteSet(S), NEW x, x \notin S
    PROVE  IsFiniteSet(S \cup {x}) /\ Cardinality(S \cup {x}) = Cardinality(S) + 1 /\ Cardinality(S) \in Nat
BY FS_AddElement, FS_CardinalityType

LEMMA CountRemoved ==
    ASSUME NEW S, IsFiniteSet(S), NEW x \in S
    PROVE  IsFiniteSet(S \ {x}) /\ Cardinality(S \ {x}) = Cardinality(S) - 1 /\ Cardinality(S) \in Nat
BY FS_RemoveElement, FS_CardinalityType

-----------------------------------------------------------------------------
(* router *)

Stations == {"idle", "ordered", "next", "open", "returned", "escaped", "raised"}
First(r) == {c \in Chat : chat_at[c] # "idle" /\ start[c] = r}
Counted  == {c \in Chat : chat_at[c] \in {"next", "open", "escaped"}}

RouterTypes ==
    /\ cursor \in Router!Replica
    /\ chat_at \in [Chat -> Stations] /\ start \in [Chat -> Router!Replica]
    /\ metrics \in [requests : Nat, successes : Nat, failures : Nat, failovers : Nat]

\* Every replica was asked first in so many rounds, and those before the cursor once more.
TakenInTurn == \E rounds \in Nat : \A r \in Router!Replica :
                 Cardinality(First(r)) = IF r < cursor THEN rounds + 1 ELSE rounds

CallsAreCounted == metrics.requests = metrics.successes + metrics.failures + Cardinality(Counted)

RouterInv == RouterTypes /\ TakenInTurn /\ CallsAreCounted

LEMMA ReplicasExist == 0 \in Router!Replica /\ \A r \in Router!Replica :
        r \in Nat /\ Router!Following(r) = IF r + 1 = Replicas THEN 0 ELSE r + 1
<1>1. ASSUME NEW r \in Router!Replica
      PROVE  r \in Nat /\ Router!Following(r) = IF r + 1 = Replicas THEN 0 ELSE r + 1
    <2>1. r \in Nat /\ r + 1 \in 0..Replicas /\ Replicas \in Nat \ {0}
        BY RouterAssumption DEF Router!Replica
    <2>2. CASE r + 1 = Replicas
        BY <2>1, <2>2 DEF Router!Following
    <2>3. CASE r + 1 < Replicas
        BY <2>1, <2>3 DEF Router!Following
    <2> QED
        BY <2>1, <2>2, <2>3
<1> QED
    BY <1>1, RouterAssumption DEF Router!Replica

LEMMA CallsAreFinite == IsFiniteSet(Counted) /\ \A r : IsFiniteSet(First(r))
BY RouterAssumption, FS_Subset DEF Counted, First

LEMMA InitRouterInv == Router!Init => RouterInv
<1> SUFFICES ASSUME Router!Init PROVE RouterInv
    OBVIOUS
<1>1. RouterTypes
    BY ReplicasExist DEF Router!Init, RouterTypes, Stations
<1>2. Counted = {} /\ \A r : First(r) = {}
    BY DEF Router!Init, Counted, First
<1>3. TakenInTurn
    <2>1. \A r \in Router!Replica : r \in Nat /\ Cardinality(First(r)) = 0
        BY <1>2, FS_EmptySet, ReplicasExist
    <2>2. \A r \in Router!Replica : Cardinality(First(r)) = IF r < cursor THEN 0 + 1 ELSE 0
        BY <2>1 DEF Router!Init
    <2> QED
        BY <2>2 DEF TakenInTurn
<1>4. CallsAreCounted
    BY <1>2, FS_EmptySet DEF Router!Init, CallsAreCounted
<1> QED
    BY <1>1, <1>3, <1>4 DEF RouterInv

\* A call begins where the cursor is, which goes on to the next replica.
LEMMA OrderKeeps ==
    ASSUME RouterInv, NEW c \in Chat, Router!Order(c)
    PROVE  RouterInv'
<1> USE DEF RouterInv
<1>1. /\ chat_at[c] = "idle" /\ metrics' = metrics
      /\ start' = [start EXCEPT ![c] = cursor] /\ cursor' = Router!Following(cursor)
      /\ chat_at' = [chat_at EXCEPT ![c] = "ordered"]
    BY DEF Router!Order, Router!Goes
<1>2. cursor \in Router!Replica /\ cursor \in Nat
    BY ReplicasExist DEF RouterTypes
<1>3. cursor' \in Router!Replica
    BY <1>1, <1>2, ReplicasExist, RouterAssumption DEF Router!Replica
<1>4. RouterTypes'
    BY <1>1, <1>2, <1>3 DEF RouterTypes, Stations
<1>5. Counted' = Counted
    BY <1>1 DEF Counted, RouterTypes
<1>6. \A r : First(r)' = IF r = cursor THEN First(r) \cup {c} ELSE First(r)
    BY <1>1 DEF First, RouterTypes
<1>7. c \notin First(cursor)
    BY <1>1 DEF First
<1>8. PICK rounds \in Nat : \A r \in Router!Replica : Cardinality(First(r)) = IF r < cursor THEN rounds + 1 ELSE rounds
    BY DEF TakenInTurn
<1>9. \A r \in Router!Replica : r = cursor => Cardinality(First(r)') = rounds + 1
    <2>1. Cardinality(First(cursor) \cup {c}) = Cardinality(First(cursor)) + 1
        BY <1>7, CallsAreFinite, CountAdded
    <2>2. Cardinality(First(cursor)) = rounds
        BY <1>2, <1>8
    <2> QED
        BY <1>6, <2>1, <2>2
<1>10. \A r \in Router!Replica : r # cursor => Cardinality(First(r)') = IF r < cursor THEN rounds + 1 ELSE rounds
    BY <1>6, <1>8
<1>11. TakenInTurn'
    <2>1. CASE cursor + 1 = Replicas
        <3>1. cursor' = 0
            BY <1>1, <1>2, <2>1, ReplicasExist
        <3>2. \A r \in Router!Replica : Cardinality(First(r)') = rounds + 1 /\ ~(r < cursor')
            <4> SUFFICES ASSUME NEW r \in Router!Replica PROVE Cardinality(First(r)') = rounds + 1 /\ ~(r < 0)
                BY <3>1
            <4>1. r \in Nat /\ (r = cursor \/ r < cursor)
                BY <1>2, <2>1, RouterAssumption DEF Router!Replica
            <4> QED
                BY <1>9, <1>10, <4>1
        <3> QED
            BY <3>2 DEF TakenInTurn
    <2>2. CASE cursor + 1 # Replicas
        <3>1. cursor' = cursor + 1
            BY <1>1, <1>2, <2>2, ReplicasExist
        <3>2. \A r \in Router!Replica : Cardinality(First(r)') = IF r < cursor' THEN rounds + 1 ELSE rounds
            <4> SUFFICES ASSUME NEW r \in Router!Replica
                         PROVE  Cardinality(First(r)') = IF r < cursor + 1 THEN rounds + 1 ELSE rounds
                BY <3>1
            <4>1. r \in Nat
                BY ReplicasExist
            <4> QED
                BY <1>2, <1>9, <1>10, <4>1
        <3> QED
            BY <3>2 DEF TakenInTurn
    <2> QED
        BY <2>1, <2>2
<1>12. CallsAreCounted'
    BY <1>1, <1>5 DEF CallsAreCounted
<1> QED
    BY <1>4, <1>11, <1>12

\* A call that has begun goes on.
LEMMA CallKeeps ==
    ASSUME RouterInv, NEW c \in Chat,
           \/ Router!Count(c) \/ Router!Ask(c) \/ Router!Succeed(c) \/ Router!Fail(c)
           \/ Router!Escape(c) \/ Router!GiveUp(c)
    PROVE  RouterInv'
<1> USE DEF RouterInv
<1>1. UNCHANGED <<cursor, start>>
    BY DEF Router!Count, Router!Ask, Router!Succeed, Router!Fail, Router!Escape, Router!GiveUp
<1>2. PICK place \in Stations \ {"idle"} : chat_at' = [chat_at EXCEPT ![c] = place]
    BY DEF Router!Count, Router!Ask, Router!Succeed, Router!Fail, Router!Escape, Router!GiveUp, Router!Goes, Stations
<1>3. chat_at[c] \in Stations \ {"idle"}
    BY DEF Router!Count, Router!Ask, Router!Succeed, Router!Fail, Router!Escape, Router!GiveUp, Stations
<1>4. chat_at' \in [Chat -> Stations] /\ chat_at'[c] = place /\ \A d \in Chat \ {c} : chat_at'[d] = chat_at[d]
    BY <1>2 DEF RouterTypes
<1>5. \A r : First(r)' = First(r)
    BY <1>1, <1>2, <1>3, <1>4 DEF First
<1>6. TakenInTurn'
    BY <1>1, <1>5 DEF TakenInTurn
<1>7. Cardinality(Counted) \in Nat /\ IsFiniteSet(Counted)
    BY CallsAreFinite, FS_CardinalityType
<1> DEFINE n == Cardinality(Counted)
<1>8. /\ metrics.requests \in Nat /\ metrics.successes \in Nat /\ metrics.failures \in Nat /\ metrics.failovers \in Nat
      /\ metrics = [requests |-> metrics.requests, successes |-> metrics.successes,
                    failures |-> metrics.failures, failovers |-> metrics.failovers]
    BY DEF RouterTypes
<1>9. metrics' \in [requests : Nat, successes : Nat, failures : Nat, failovers : Nat] /\ CallsAreCounted'
    <2>1. CASE Router!Count(c)
        <3>1. /\ metrics' = [metrics EXCEPT !.requests = @ + 1]
              /\ chat_at[c] = "ordered" /\ chat_at'[c] = "next"
            BY <1>4, <2>1 DEF Router!Count, Router!Goes, RouterTypes
        <3>2. Counted' = Counted \cup {c} /\ c \notin Counted
            BY <1>4, <3>1 DEF Counted
        <3>3. Cardinality(Counted') = n + 1
            BY <1>7, <3>2, CountAdded
        <3> QED
            BY <1>7, <1>8, <3>1, <3>3 DEF CallsAreCounted
    <2>2. CASE Router!Succeed(c)
        <3>1. chat_at[c] = "open" /\ chat_at'[c] = "returned"
            BY <1>4, <2>2 DEF Router!Succeed, Router!Goes, RouterTypes
        <3>2. PICK more \in {0, 1} :
                metrics' = [metrics EXCEPT !.successes = @ + 1, !.failovers = @ + more]
            BY <2>2 DEF Router!Succeed
        <3>3. Counted' = Counted \ {c} /\ c \in Counted
            BY <1>4, <3>1 DEF Counted
        <3>4. Cardinality(Counted') = n - 1
            BY <1>7, <3>3, CountRemoved
        <3> QED
            <4>1. /\ metrics'.requests = metrics.requests /\ metrics'.failures = metrics.failures
                  /\ metrics'.successes = metrics.successes + 1 /\ metrics'.failovers = metrics.failovers + more
                  /\ metrics' = [requests |-> metrics'.requests, successes |-> metrics'.successes,
                                 failures |-> metrics'.failures, failovers |-> metrics'.failovers]
                BY <1>8, <3>2
            <4>2. metrics' \in [requests : Nat, successes : Nat, failures : Nat, failovers : Nat]
                BY <1>8, <4>1
            <4> QED
                BY <1>7, <1>8, <3>4, <4>1, <4>2 DEF CallsAreCounted
    <2>3. CASE Router!GiveUp(c)
        <3>1. /\ metrics' = [metrics EXCEPT !.failures = @ + 1]
              /\ chat_at[c] = "next" /\ chat_at'[c] = "raised"
            BY <1>4, <2>3 DEF Router!GiveUp, Router!Goes, RouterTypes
        <3>2. Counted' = Counted \ {c} /\ c \in Counted
            BY <1>4, <3>1 DEF Counted
        <3>3. Cardinality(Counted') = n - 1
            BY <1>7, <3>2, CountRemoved
        <3> QED
            BY <1>7, <1>8, <3>1, <3>3 DEF CallsAreCounted
    <2>4. CASE Router!Ask(c) \/ Router!Fail(c) \/ Router!Escape(c)
        <3>1. /\ metrics' = metrics
              /\ {chat_at[c], chat_at'[c]} \subseteq {"next", "open", "escaped"}
            BY <1>4, <2>4 DEF Router!Ask, Router!Fail, Router!Escape, Router!Goes, RouterTypes
        <3>2. Counted' = Counted
            BY <1>4, <3>1 DEF Counted
        <3> QED
            BY <3>1, <3>2 DEF CallsAreCounted, RouterTypes
    <2> QED
        BY <2>1, <2>2, <2>3, <2>4
<1> QED
    BY <1>1, <1>4, <1>6, <1>9 DEF RouterTypes

LEMMA NextRouterInv == RouterInv /\ [Router!Next]_(Router!vars) => RouterInv'
<1> SUFFICES ASSUME RouterInv, [Router!Next]_(Router!vars) PROVE RouterInv'
    OBVIOUS
<1>1. CASE UNCHANGED Router!vars
    BY <1>1 DEF Router!vars, RouterInv, RouterTypes, TakenInTurn, CallsAreCounted, First, Counted
<1>2. CASE Router!Next
    BY <1>2, OrderKeeps, CallKeeps DEF Router!Next
<1> QED
    BY <1>1, <1>2

\* However calls interleave and fail, no replica is asked first twice more often than another,
\* and every call that was counted is accounted for (_ordered, chat, completion).
THEOREM RouterSharesTheLoad == Router!Spec => []ReplicasTakeTurns
<1>1. RouterInv => ReplicasTakeTurns
    <2> SUFFICES ASSUME RouterInv PROVE ReplicasTakeTurns
        OBVIOUS
    <2>1. PICK rounds \in Nat : \A r \in Router!Replica : Cardinality(First(r)) = IF r < cursor THEN rounds + 1 ELSE rounds
        BY DEF RouterInv, TakenInTurn
    <2>2. \A r, other \in Router!Replica : Cardinality(First(r)) <= Cardinality(First(other)) + 1
        BY <2>1
    <2>3. \A r : First(r) = {c \in Chat \ Router!Those({"idle"}) : start[c] = r}
        BY DEF First, Router!Those
    <2>4. Counted = Router!Those({"next", "open", "escaped"})
        BY DEF Counted, Router!Those
    <2>5. \A S : Router!Cardinality(S) = Cardinality(S)
        BY DEF Cardinality, Router!Cardinality
    <2>6. metrics.requests = metrics.successes + metrics.failures + Router!Cardinality(Router!Those({"next", "open", "escaped"}))
        BY <2>4, <2>5 DEF RouterInv, CallsAreCounted
    <2>7. \A r, other \in Router!Replica :
            Router!Cardinality({c \in Chat \ Router!Those({"idle"}) : start[c] = r}) <=
                Router!Cardinality({c \in Chat \ Router!Those({"idle"}) : start[c] = other}) + 1
        BY <2>2, <2>3, <2>5
    <2> QED
        BY <2>6, <2>7 DEF ReplicasTakeTurns, Router!ReplicasTakeTurns
<1> QED
    BY <1>1, InitRouterInv, NextRouterInv, PTL DEF Router!Spec

-----------------------------------------------------------------------------
(* dream cycle *)

Phases == {"idle", "refused", "lease", "work", "finally", "exited", "killed"}
Ending == {"completed", "aborted"}

CycleTypes ==
    /\ cycle_now \in Nat
    /\ cycle_at \in [Cycle -> Phases]
    /\ worked \in [Cycle -> SUBSET Nat]
    /\ flag \in [Cycle -> BOOLEAN]
    /\ events \subseteq [cycle : Cycle, status : Ending, ts : Nat] /\ IsFiniteSet(events)
    /\ unlucky \subseteq Cycle /\ crowded \in BOOLEAN

Events(c) == {e \in events : e.cycle = c}
Once(c)   == \E e : Events(c) = {e}

\* A cycle that is lucky records once: when it has a winner, or else when it ends.
CyclesCount ==
    \A c \in Cycle :
        /\ cycle_at[c] \in {"idle", "refused", "lease", "work"} => Events(c) = {} /\ flag[c] = FALSE
        /\ cycle_at[c] = "finally" /\ c \notin unlucky => IF flag[c] THEN Once(c) ELSE Events(c) = {}
        /\ cycle_at[c] = "exited" /\ c \notin unlucky => Once(c)

\* Work begins once, before its record.
RecordsFollow ==
    \A c \in Cycle :
        /\ worked[c] # {} => cycle_at[c] \in {"work", "finally", "exited", "killed"}
        /\ \A u \in worked[c] : u <= cycle_now /\ \A e \in Events(c) : u <= e.ts

Lucky == crowded = FALSE /\ unlucky = {} /\ \A c \in Cycle : cycle_at[c] # "killed"
Admitted  == {c \in Cycle : cycle_at[c] \in {"lease", "work", "finally"}}

\* The cycles at work whose window reaches t.
Working(t) == {d \in Cycle : \E u \in worked[d] : u <= t /\ t <= u + Window}
Fresh(t)   == {e \in events : e.ts + Window >= t}

\* When nothing went wrong, a cycle that was admitted is alone, and still finds its place.
OneByOne ==
    Lucky => /\ \A c, d \in Admitted : c = d
             /\ \A c \in Cycle : cycle_at[c] = "lease" => Cardinality(Fresh(cycle_now)) < Quota

QuotaIsKept == Lucky => \A t \in Nat : Cardinality(Working(t)) <= Quota

CycleInv == CycleTypes /\ CyclesCount /\ RecordsFollow /\ OneByOne /\ QuotaIsKept

LEMMA InitCycleInv == Dream!Init => CycleInv
<1> SUFFICES ASSUME Dream!Init PROVE CycleInv
    OBVIOUS
<1>1. CycleTypes
    BY FS_EmptySet DEF Dream!Init, CycleTypes, Phases
<1>2. CyclesCount /\ RecordsFollow
    BY DEF Dream!Init, CyclesCount, RecordsFollow, Events
<1>3. OneByOne
    BY DEF Dream!Init, OneByOne, Admitted
<1>4. \A t : Working(t) = {}
    BY DEF Dream!Init, Working
<1>5. QuotaIsKept
    BY <1>4, FS_EmptySet, DreamAssumption DEF QuotaIsKept
<1> QED
    BY <1>1, <1>2, <1>3, <1>5 DEF CycleInv

LEMMA FreshIsCounted ==
    ASSUME CycleTypes, NEW t \in Nat
    PROVE  /\ IsFiniteSet(Fresh(t)) /\ Cardinality(Fresh(t)) \in Nat
           /\ \A s \in Nat : s <= t => Cardinality(Fresh(t)) <= Cardinality(Fresh(s)) /\ Fresh(t) \subseteq Fresh(s)
<1>1. \A s : Fresh(s) \subseteq events /\ IsFiniteSet(Fresh(s))
    BY FS_Subset DEF Fresh, CycleTypes
<1>2. ASSUME NEW s \in Nat, s <= t PROVE Fresh(t) \subseteq Fresh(s)
    <2> SUFFICES ASSUME NEW e \in events, e.ts + Window >= t PROVE e.ts + Window >= s
        BY DEF Fresh
    <2>1. e.ts \in Nat
        BY DEF CycleTypes
    <2> QED
        BY <1>2, <2>1, DreamAssumption
<1> QED
    BY <1>1, <1>2, FS_Subset, FS_CardinalityType

LEMMA TickKeeps == CycleInv /\ Dream!Tick => CycleInv'
<1> SUFFICES ASSUME CycleInv, Dream!Tick PROVE CycleInv'
    OBVIOUS
<1> USE DEF CycleInv
<1>1. /\ UNCHANGED <<cycle_at, replay_lease, worked, flag, events, unlucky, crowded>>
      /\ cycle_now' = cycle_now + 1 /\ cycle_now \in Nat
    BY DEF Dream!Tick, CycleTypes
<1>2. CycleTypes'
    BY <1>1 DEF CycleTypes
<1>3. CyclesCount'
    BY <1>1 DEF CyclesCount, Events, Once
<1>4. RecordsFollow'
    BY <1>1 DEF RecordsFollow, Events, CycleTypes
<1>5. Lucky' = Lucky /\ Admitted' = Admitted /\ \A t : Working(t)' = Working(t) /\ Fresh(t)' = Fresh(t)
    BY <1>1 DEF Lucky, Admitted, Working, Fresh
<1>6. OneByOne'
    <2>1. Cardinality(Fresh(cycle_now + 1)) <= Cardinality(Fresh(cycle_now))
        BY <1>1, FreshIsCounted
    <2>2. Cardinality(Fresh(cycle_now + 1)) \in Nat /\ Cardinality(Fresh(cycle_now)) \in Nat
        BY <1>1, FreshIsCounted
    <2>3. Fresh(cycle_now)' = Fresh(cycle_now + 1)
        BY <1>1 DEF Fresh
    <2> QED
        BY <1>1, <1>5, <2>1, <2>2, <2>3, DreamAssumption DEF OneByOne
<1>7. QuotaIsKept'
    BY <1>5 DEF QuotaIsKept
<1> QED
    BY <1>2, <1>3, <1>4, <1>6, <1>7

\* What is in front of the work, and what ends it without a record.
LEMMA CheckKeeps ==
    ASSUME CycleInv, NEW c \in Cycle, Dream!Check(c)
    PROVE  CycleInv'
<1> USE DEF CycleInv
<1>1. UNCHANGED <<cycle_now, replay_lease, worked, flag, events, unlucky>> /\ cycle_at[c] = "idle"
    BY DEF Dream!Check
<1>2. PICK place \in {"refused", "lease"} :
        /\ cycle_at' = [cycle_at EXCEPT ![c] = place]
        /\ place = "lease" => ~(Dream!Cardinality(Dream!Recent) >= Quota)
    BY DEF Dream!Check, Dream!Goes
<1>3. cycle_at'[c] = place /\ \A d \in Cycle \ {c} : cycle_at'[d] = cycle_at[d]
    BY <1>2 DEF CycleTypes
<1>4. Events(c)' = Events(c) /\ \A d : Events(d)' = Events(d)
    BY <1>1 DEF Events
<1>5. CycleTypes'
    <2>1. crowded' \in BOOLEAN
        BY DEF Dream!Check
    <2> QED
        BY <1>1, <1>2, <2>1 DEF CycleTypes, Phases
<1>6. CyclesCount'
    <2> SUFFICES ASSUME NEW d \in Cycle
                 PROVE  /\ cycle_at'[d] \in {"idle", "refused", "lease", "work"} => Events(d) = {} /\ flag[d] = FALSE
                        /\ cycle_at'[d] = "finally" /\ d \notin unlucky => IF flag[d] THEN Once(d) ELSE Events(d) = {}
                        /\ cycle_at'[d] = "exited" /\ d \notin unlucky => Once(d)
        BY <1>1, <1>4 DEF CyclesCount, Once
    <2> QED
        BY <1>1, <1>3 DEF CyclesCount
<1>7. RecordsFollow'
    BY <1>1, <1>3, <1>4 DEF RecordsFollow
<1>8. Lucky' => Lucky /\ Admitted = {}
    <2>1. crowded' = (crowded \/ Dream!UnderWay # {})
        BY DEF Dream!Check
    <2>2. Dream!UnderWay = Admitted
        BY DEF Dream!UnderWay, Admitted
    <2>3. crowded' = FALSE => crowded = FALSE /\ Admitted = {}
        BY <2>1, <2>2 DEF CycleTypes
    <2>4. (\A d \in Cycle : cycle_at'[d] # "killed") => \A d \in Cycle : cycle_at[d] # "killed"
        BY <1>1, <1>3
    <2> QED
        BY <1>1, <2>3, <2>4 DEF Lucky
<1>9. \A d \in Admitted' : d = c \/ d \in Admitted
    BY <1>3 DEF Admitted
<1>10. \A t : Working(t)' = Working(t) /\ Fresh(t)' = Fresh(t)
    BY <1>1 DEF Working, Fresh
<1>11. OneByOne'
    <2> SUFFICES ASSUME Lucky'
                 PROVE  /\ \A d, e \in Admitted' : d = e
                        /\ \A d \in Cycle : cycle_at'[d] = "lease" => Cardinality(Fresh(cycle_now)) < Quota
        BY <1>1, <1>10 DEF OneByOne
    <2>1. \A d \in Cycle : cycle_at'[d] = "lease" => d = c /\ place = "lease"
        BY <1>3, <1>8 DEF Admitted
    <2>2. Fresh(cycle_now) = Dream!Recent
        BY DEF Fresh, Dream!Recent
    <2>3. Cardinality(Fresh(cycle_now)) = Dream!Cardinality(Dream!Recent)
        BY <2>2 DEF Cardinality, Dream!Cardinality
    <2>4. Cardinality(Fresh(cycle_now)) \in Nat
        BY FreshIsCounted DEF CycleTypes
    <2> QED
        BY <1>2, <1>8, <1>9, <2>1, <2>3, <2>4, DreamAssumption
<1>12. QuotaIsKept'
    BY <1>8, <1>10 DEF QuotaIsKept
<1> QED
    BY <1>5, <1>6, <1>7, <1>11, <1>12

\* The window of a cycle that begins had room: all others have their record in it.
LEMMA RoomForOne ==
    ASSUME CycleInv, Lucky, NEW c \in Cycle, cycle_at[c] = "lease", NEW t \in Nat, cycle_now <= t
    PROVE  IsFiniteSet(Working(t)) /\ Cardinality(Working(t)) + 1 <= Quota
<1> USE DEF CycleInv
<1> DEFINE F == Fresh(cycle_now)
           W == Working(t)
           f == [d \in W |-> CHOOSE e \in F : e.cycle = d]
<1>1. ASSUME NEW d \in W PROVE \E e \in F : e.cycle = d
    <2>1. d \in Cycle
        BY DEF Working
    <2>2. PICK u \in worked[d] : u <= t /\ t <= u + Window
        BY DEF Working
    <2>3. d # c
        BY <2>2 DEF RecordsFollow
    <2>4. cycle_at[d] = "exited"
        <3>1. cycle_at[d] \in {"work", "finally", "exited", "killed"} /\ cycle_at[d] # "killed"
            BY <2>1, <2>2 DEF RecordsFollow, Lucky
        <3>2. c \in Admitted /\ d \notin Admitted
            BY <2>3 DEF OneByOne, Admitted
        <3> QED
            BY <2>1, <3>1, <3>2 DEF Admitted
    <2>5. PICK e : Events(d) = {e}
        BY <2>1, <2>4 DEF CyclesCount, Once, Lucky
    <2>6. e \in events /\ e.cycle = d /\ e.ts \in Nat /\ u \in Nat /\ u <= e.ts
        BY <2>1, <2>2, <2>5 DEF Events, RecordsFollow, CycleTypes
    <2>7. e.ts + Window >= cycle_now
        BY <2>2, <2>6, DreamAssumption DEF CycleTypes
    <2> QED
        BY <2>6, <2>7 DEF Fresh
<1>2. f \in Injection(W, F)
    <2>1. \A d \in W : f[d] \in F /\ f[d].cycle = d
        BY <1>1
    <2> HIDE DEF f
    <2>2. f \in [W -> F]
        BY <2>1 DEF f
    <2> QED
        BY <2>1, <2>2 DEF Injection, IsInjective
<1>3. IsFiniteSet(F) /\ Cardinality(F) < Quota /\ Cardinality(F) \in Nat
    BY FreshIsCounted DEF OneByOne, CycleTypes
<1> HIDE DEF F, W, f
<1>4. IsFiniteSet(W) /\ Cardinality(W) <= Cardinality(F) /\ Cardinality(W) \in Nat
    BY <1>2, <1>3, FS_Injection, FS_CardinalityType
<1> QED
    BY <1>3, <1>4, DreamAssumption DEF W

LEMMA AcquireKeeps ==
    ASSUME CycleInv, NEW c \in Cycle, Dream!Acquire(c)
    PROVE  CycleInv'
<1> USE DEF CycleInv
<1>1. UNCHANGED <<cycle_now, flag, events, unlucky, crowded>> /\ cycle_at[c] = "lease"
    BY DEF Dream!Acquire
<1>2. PICK place \in {"refused", "work"} :
        /\ cycle_at' = [cycle_at EXCEPT ![c] = place]
        /\ IF place = "work" THEN worked' = [worked EXCEPT ![c] = {cycle_now}] ELSE worked' = worked
    BY DEF Dream!Acquire, Dream!Goes
<1>3. cycle_at'[c] = place /\ \A d \in Cycle \ {c} : cycle_at'[d] = cycle_at[d] /\ worked'[d] = worked[d]
    BY <1>2 DEF CycleTypes
<1>4. worked[c] = {} /\ Events(c) = {}
    BY <1>1 DEF RecordsFollow, CyclesCount
<1>0. flag[c] = FALSE
    BY <1>1 DEF CyclesCount
<1>5. worked'[c] = IF place = "work" THEN {cycle_now} ELSE {}
    BY <1>2, <1>4 DEF CycleTypes
<1>6. \A d : Events(d)' = Events(d)
    BY <1>1 DEF Events
<1>7. CycleTypes'
    BY <1>1, <1>2 DEF CycleTypes, Phases
<1>8. CyclesCount'
    <2> SUFFICES ASSUME NEW d \in Cycle
                 PROVE  /\ cycle_at'[d] \in {"idle", "refused", "lease", "work"} => Events(d) = {} /\ flag[d] = FALSE
                        /\ cycle_at'[d] = "finally" /\ d \notin unlucky => IF flag[d] THEN Once(d) ELSE Events(d) = {}
                        /\ cycle_at'[d] = "exited" /\ d \notin unlucky => Once(d)
        BY <1>1, <1>6 DEF CyclesCount, Once
    <2> QED
        BY <1>0, <1>3, <1>4 DEF CyclesCount
<1>9. RecordsFollow'
    <2> SUFFICES ASSUME NEW d \in Cycle
                 PROVE  /\ worked'[d] # {} => cycle_at'[d] \in {"work", "finally", "exited", "killed"}
                        /\ \A u \in worked'[d] : u <= cycle_now /\ \A e \in Events(d) : u <= e.ts
        BY <1>1, <1>6 DEF RecordsFollow
    <2>1. CASE d = c
        BY <1>3, <1>4, <1>5, <2>1 DEF CycleTypes
    <2>2. CASE d # c
        BY <1>3, <2>2 DEF RecordsFollow
    <2> QED
        BY <2>1, <2>2
<1>10. Lucky' => Lucky
    <2> SUFFICES ASSUME Lucky', NEW d \in Cycle PROVE crowded = FALSE /\ unlucky = {} /\ cycle_at[d] # "killed"
        BY DEF Lucky
    <2> QED
        BY <1>1, <1>3 DEF Lucky
<1>11. OneByOne'
    <2> SUFFICES ASSUME Lucky
                 PROVE  /\ \A d, e \in Admitted' : d = e
                        /\ \A d \in Cycle : cycle_at'[d] # "lease"
        BY <1>10 DEF OneByOne
    <2>1. c \in Admitted /\ Admitted' \subseteq Admitted
        BY <1>1, <1>3 DEF Admitted
    <2>2. \A d \in Cycle : cycle_at[d] = "lease" => d = c
        BY <2>1 DEF OneByOne, Admitted
    <2> QED
        BY <1>3, <2>1, <2>2 DEF OneByOne
<1>12. QuotaIsKept'
    <2> SUFFICES ASSUME Lucky, NEW t \in Nat PROVE Cardinality(Working(t)') <= Quota
        BY <1>10 DEF QuotaIsKept
    <2>1. Working(t)' \subseteq Working(t) \cup {c}
        BY <1>3 DEF Working
    <2>2. Working(t) \subseteq Working(t)'
        BY <1>3, <1>4 DEF Working
    <2>3. CASE cycle_now <= t
        <3>1. IsFiniteSet(Working(t)) /\ Cardinality(Working(t)) + 1 <= Quota
            BY <1>1, <2>3, RoomForOne
        <3>2. c \notin Working(t)
            BY <1>4 DEF Working
        <3>3. Cardinality(Working(t) \cup {c}) = Cardinality(Working(t)) + 1 /\ Cardinality(Working(t)) \in Nat
            BY <3>1, <3>2, CountAdded
        <3>4. Working(t)' = Working(t) \/ Working(t)' = Working(t) \cup {c}
            BY <2>1, <2>2
        <3>5. Cardinality(Working(t)) <= Quota /\ Cardinality(Working(t) \cup {c}) <= Quota
            BY <3>1, <3>3, DreamAssumption
        <3> QED
            BY <3>4, <3>5
    <2>4. CASE ~(cycle_now <= t)
        <3>1. c \notin Working(t)'
            BY <1>1, <1>5, <2>4 DEF Working
        <3>2. Working(t)' = Working(t)
            BY <2>1, <2>2, <3>1
        <3> QED
            BY <3>2 DEF QuotaIsKept
    <2> QED
        BY <2>3, <2>4
<1> QED
    BY <1>7, <1>8, <1>9, <1>11, <1>12

\* A cycle that holds its place records or not, and goes on or ends.
LEMMA PlaceIsKept ==
    ASSUME CycleInv, NEW c \in Cycle, cycle_at[c] \in {"work", "finally"}, NEW place \in {"finally", "exited"},
           cycle_at' = [cycle_at EXCEPT ![c] = place], UNCHANGED <<cycle_now, worked, crowded>>, unlucky \subseteq unlucky'
    PROVE  OneByOne' /\ QuotaIsKept'
<1> USE DEF CycleInv
<1>1. cycle_at'[c] = place /\ \A d \in Cycle \ {c} : cycle_at'[d] = cycle_at[d]
    BY DEF CycleTypes
<1>2. Lucky' => Lucky
    <2> SUFFICES ASSUME Lucky', NEW d \in Cycle PROVE crowded = FALSE /\ unlucky = {} /\ cycle_at[d] # "killed"
        BY DEF Lucky
    <2> QED
        BY <1>1 DEF Lucky
<1>3. c \in Admitted /\ Admitted' \subseteq Admitted
    BY <1>1 DEF Admitted
<1>4. OneByOne'
    <2> SUFFICES ASSUME Lucky
                 PROVE  /\ \A d, e \in Admitted' : d = e
                        /\ \A d \in Cycle : cycle_at'[d] # "lease"
        BY <1>2 DEF OneByOne
    <2>1. \A d \in Cycle : cycle_at[d] = "lease" => d = c
        BY <1>3 DEF OneByOne, Admitted
    <2> QED
        BY <1>1, <1>3, <2>1 DEF OneByOne
<1>5. QuotaIsKept'
    BY <1>2 DEF QuotaIsKept, Working
<1> QED
    BY <1>4, <1>5

LEMMA RecordAdds ==
    ASSUME CycleInv, NEW c \in Cycle, NEW ending \in Ending, Dream!Recorded(c, ending)
    PROVE  /\ events' \subseteq [cycle : Cycle, status : Ending, ts : Nat] /\ IsFiniteSet(events')
           /\ \A d \in Cycle \ {c} : Events(d)' = Events(d)
           /\ Events(c) = {} => Once(c)'
           /\ \A e \in Events(c)' : e \in Events(c) \/ e.ts = cycle_now
<1> DEFINE new == [cycle |-> c, status |-> ending, ts |-> cycle_now]
<1>1. events' = events \cup {new} /\ new \in [cycle : Cycle, status : Ending, ts : Nat]
    BY DEF Dream!Recorded, CycleInv, CycleTypes
<1>2. new.cycle = c /\ new.ts = cycle_now
    OBVIOUS
<1> HIDE DEF new
<1>3. IsFiniteSet(events')
    BY <1>1, FS_AddElement DEF CycleInv, CycleTypes
<1>4. Events(c)' = Events(c) \cup {new} /\ \A d \in Cycle \ {c} : Events(d)' = Events(d)
    BY <1>1, <1>2 DEF Events
<1>5. Events(c) = {} => Once(c)'
    BY <1>4 DEF Once
<1> QED
    BY <1>1, <1>2, <1>3, <1>4, <1>5 DEF CycleInv, CycleTypes

LEMMA WorkKeeps ==
    ASSUME CycleInv, NEW c \in Cycle, Dream!Work(c)
    PROVE  CycleInv'
<1> USE DEF CycleInv
<1>1. /\ UNCHANGED <<cycle_now, worked, crowded>> /\ cycle_at[c] = "work"
      /\ cycle_at' = [cycle_at EXCEPT ![c] = "finally"]
    BY DEF Dream!Work, Dream!Goes
<1>2. cycle_at'[c] = "finally" /\ \A d \in Cycle \ {c} : cycle_at'[d] = cycle_at[d]
    BY <1>1 DEF CycleTypes
<1>3. Events(c) = {} /\ flag[c] = FALSE
    BY <1>1 DEF CyclesCount
<1>4. \/ UNCHANGED <<flag, events, unlucky>>
      \/ Dream!Recorded(c, "completed") /\ flag' = [flag EXCEPT ![c] = TRUE] /\ unlucky' = unlucky
      \/ Dream!Recorded(c, "completed") /\ unlucky' = unlucky \cup {c} /\ flag' = flag
    BY DEF Dream!Work
<1>5. /\ events' \subseteq [cycle : Cycle, status : Ending, ts : Nat] /\ IsFiniteSet(events')
      /\ flag' \in [Cycle -> BOOLEAN] /\ unlucky' \subseteq Cycle /\ unlucky \subseteq unlucky'
      /\ \A d \in Cycle \ {c} : /\ Events(d)' = Events(d) /\ flag'[d] = flag[d]
                                /\ d \notin unlucky' => d \notin unlucky
      /\ \A e \in Events(c)' : e \in Events(c) \/ e.ts = cycle_now
      /\ c \notin unlucky' => IF flag'[c] THEN Once(c)' ELSE Events(c)' = {}
    <2>1. CASE UNCHANGED <<flag, events, unlucky>>
        BY <1>3, <2>1 DEF CycleTypes, Events
    <2>2. CASE Dream!Recorded(c, "completed") /\ flag' = [flag EXCEPT ![c] = TRUE] /\ unlucky' = unlucky
        <3>1. flag'[c] = TRUE /\ flag' \in [Cycle -> BOOLEAN] /\ \A d \in Cycle \ {c} : flag'[d] = flag[d]
            BY <2>2 DEF CycleTypes
        <3>2. "completed" \in Ending
            BY DEF Ending
        <3> HIDE DEF CycleInv
        <3> QED
            BY <1>3, <2>2, <3>1, <3>2, RecordAdds DEF CycleInv, CycleTypes
    <2>3. CASE Dream!Recorded(c, "completed") /\ unlucky' = unlucky \cup {c} /\ flag' = flag
        <3>1. "completed" \in Ending
            BY DEF Ending
        <3>2. /\ events' \subseteq [cycle : Cycle, status : Ending, ts : Nat] /\ IsFiniteSet(events')
              /\ \A d \in Cycle \ {c} : Events(d)' = Events(d)
              /\ \A e \in Events(c)' : e \in Events(c) \/ e.ts = cycle_now
            BY <2>3, <3>1, RecordAdds
        <3> QED
            BY <2>3, <3>2 DEF CycleTypes
    <2> QED
        BY <1>4, <2>1, <2>2, <2>3
<1>6. CycleTypes'
    BY <1>1, <1>5 DEF CycleTypes, Phases
<1>7. CyclesCount'
    <2>1. ASSUME NEW d \in Cycle \ {c}
          PROVE  /\ cycle_at'[d] \in {"idle", "refused", "lease", "work"} => Events(d)' = {} /\ flag'[d] = FALSE
                 /\ cycle_at'[d] = "finally" /\ d \notin unlucky' => IF flag'[d] THEN Once(d)' ELSE Events(d)' = {}
                 /\ cycle_at'[d] = "exited" /\ d \notin unlucky' => Once(d)'
        BY <1>2, <1>5 DEF CyclesCount, Once
    <2> QED
        BY <1>2, <1>5, <2>1 DEF CyclesCount
<1>8. RecordsFollow'
    <2> SUFFICES ASSUME NEW d \in Cycle
                 PROVE  /\ worked[d] # {} => cycle_at'[d] \in {"work", "finally", "exited", "killed"}
                        /\ \A u \in worked[d] : u <= cycle_now /\ \A e \in Events(d)' : u <= e.ts
        BY <1>1 DEF RecordsFollow
    <2>1. CASE d = c
        BY <1>2, <1>3, <1>5, <2>1 DEF RecordsFollow
    <2>2. CASE d # c
        BY <1>2, <1>5, <2>2 DEF RecordsFollow
    <2> QED
        BY <2>1, <2>2
<1>9. OneByOne' /\ QuotaIsKept'
    BY <1>1, <1>5, PlaceIsKept
<1> QED
    BY <1>6, <1>7, <1>8, <1>9

LEMMA FinallyKeeps ==
    ASSUME CycleInv, NEW c \in Cycle, Dream!Finally(c)
    PROVE  CycleInv'
<1> USE DEF CycleInv
<1>1. /\ UNCHANGED <<cycle_now, worked, flag, crowded>> /\ cycle_at[c] = "finally"
      /\ cycle_at' = [cycle_at EXCEPT ![c] = "exited"]
    BY DEF Dream!Finally, Dream!Goes
<1>2. cycle_at'[c] = "exited" /\ \A d \in Cycle \ {c} : cycle_at'[d] = cycle_at[d]
    BY <1>1 DEF CycleTypes
<1>3. \/ flag[c] /\ UNCHANGED <<events, unlucky>>
      \/ ~flag[c] /\ Dream!Recorded(c, "aborted") /\ unlucky' = unlucky
      \/ unlucky' = unlucky \cup {c} /\ events' = events
    BY DEF Dream!Finally
<1>4. c \notin unlucky => IF flag[c] THEN Once(c) ELSE Events(c) = {}
    BY <1>1 DEF CyclesCount
<1>5. /\ events' \subseteq [cycle : Cycle, status : Ending, ts : Nat] /\ IsFiniteSet(events')
      /\ unlucky' \subseteq Cycle /\ unlucky \subseteq unlucky'
      /\ \A d \in Cycle \ {c} : Events(d)' = Events(d) /\ (d \notin unlucky' => d \notin unlucky)
      /\ \A e \in Events(c)' : e \in Events(c) \/ e.ts = cycle_now
      /\ c \notin unlucky' => Once(c)'
    <2>1. CASE flag[c] /\ UNCHANGED <<events, unlucky>>
        BY <1>4, <2>1 DEF CycleTypes, Events, Once
    <2>2. CASE ~flag[c] /\ Dream!Recorded(c, "aborted") /\ unlucky' = unlucky
        <3>1. "aborted" \in Ending
            BY DEF Ending
        <3>2. /\ events' \subseteq [cycle : Cycle, status : Ending, ts : Nat] /\ IsFiniteSet(events')
              /\ \A d \in Cycle \ {c} : Events(d)' = Events(d)
              /\ Events(c) = {} => Once(c)'
              /\ \A e \in Events(c)' : e \in Events(c) \/ e.ts = cycle_now
            BY <2>2, <3>1, RecordAdds
        <3> QED
            BY <1>4, <2>2, <3>2 DEF CycleTypes
    <2>3. CASE unlucky' = unlucky \cup {c} /\ events' = events
        BY <2>3 DEF CycleTypes, Events
    <2> QED
        BY <1>3, <2>1, <2>2, <2>3
<1>6. CycleTypes'
    BY <1>1, <1>5 DEF CycleTypes, Phases
<1>7. CyclesCount'
    <2>1. ASSUME NEW d \in Cycle \ {c}
          PROVE  /\ cycle_at'[d] \in {"idle", "refused", "lease", "work"} => Events(d)' = {} /\ flag'[d] = FALSE
                 /\ cycle_at'[d] = "finally" /\ d \notin unlucky' => IF flag'[d] THEN Once(d)' ELSE Events(d)' = {}
                 /\ cycle_at'[d] = "exited" /\ d \notin unlucky' => Once(d)'
        BY <1>1, <1>2, <1>5 DEF CyclesCount, Once
    <2> QED
        BY <1>2, <1>5, <2>1 DEF CyclesCount
<1>8. RecordsFollow'
    <2> SUFFICES ASSUME NEW d \in Cycle
                 PROVE  /\ worked[d] # {} => cycle_at'[d] \in {"work", "finally", "exited", "killed"}
                        /\ \A u \in worked[d] : u <= cycle_now /\ \A e \in Events(d)' : u <= e.ts
        BY <1>1 DEF RecordsFollow
    <2>1. CASE d = c
        BY <1>2, <1>5, <2>1 DEF RecordsFollow
    <2>2. CASE d # c
        BY <1>2, <1>5, <2>2 DEF RecordsFollow
    <2> QED
        BY <2>1, <2>2
<1>9. OneByOne' /\ QuotaIsKept'
    BY <1>1, <1>5, PlaceIsKept
<1> QED
    BY <1>6, <1>7, <1>8, <1>9

\* After a kill nothing is promised of the quota.
LEMMA KillKeeps ==
    ASSUME CycleInv, NEW c \in Cycle, Dream!Kill(c)
    PROVE  CycleInv'
<1> USE DEF CycleInv
<1>1. /\ UNCHANGED <<cycle_now, worked, flag, events, unlucky, crowded>>
      /\ cycle_at' = [cycle_at EXCEPT ![c] = "killed"]
    BY DEF Dream!Kill, Dream!Goes
<1>2. cycle_at'[c] = "killed" /\ \A d \in Cycle \ {c} : cycle_at'[d] = cycle_at[d]
    BY <1>1 DEF CycleTypes
<1>3. CycleTypes'
    BY <1>1 DEF CycleTypes, Phases
<1>4. \A d : Events(d)' = Events(d)
    BY <1>1 DEF Events
<1>5. CyclesCount'
    <2> SUFFICES ASSUME NEW d \in Cycle
                 PROVE  /\ cycle_at'[d] \in {"idle", "refused", "lease", "work"} => Events(d) = {} /\ flag[d] = FALSE
                        /\ cycle_at'[d] = "finally" /\ d \notin unlucky => IF flag[d] THEN Once(d) ELSE Events(d) = {}
                        /\ cycle_at'[d] = "exited" /\ d \notin unlucky => Once(d)
        BY <1>1, <1>4 DEF CyclesCount, Once
    <2> QED
        BY <1>2 DEF CyclesCount
<1>6. RecordsFollow'
    BY <1>1, <1>2, <1>4 DEF RecordsFollow
<1>7. ~Lucky'
    BY <1>2 DEF Lucky
<1> QED
    BY <1>3, <1>5, <1>6, <1>7 DEF OneByOne, QuotaIsKept

LEMMA NextCycleInv == CycleInv /\ [Dream!Next]_(Dream!vars) => CycleInv'
<1> SUFFICES ASSUME CycleInv, [Dream!Next]_(Dream!vars) PROVE CycleInv'
    OBVIOUS
<1>1. CASE UNCHANGED Dream!vars
    <2>1. UNCHANGED <<cycle_now, cycle_at, worked, flag, events, unlucky, crowded>>
        BY <1>1 DEF Dream!vars
    <2>2. CycleTypes' /\ CyclesCount' /\ RecordsFollow'
        BY <2>1 DEF CycleInv, CycleTypes, CyclesCount, RecordsFollow, Events, Once
    <2>3. OneByOne'
        BY <2>1 DEF CycleInv, OneByOne, Lucky, Admitted, Fresh
    <2>4. QuotaIsKept'
        BY <2>1 DEF CycleInv, QuotaIsKept, Lucky, Working
    <2> QED
        BY <2>2, <2>3, <2>4 DEF CycleInv
<1>2. CASE Dream!Next
    BY <1>2, TickKeeps, CheckKeeps, AcquireKeeps, WorkKeeps, FinallyKeeps, KillKeeps DEF Dream!Next
<1> QED
    BY <1>1, <1>2

\* A cycle that worked and ended left one event whatever ended it, unless it could not write;
\* and cycles that do not overlap keep the quota in every window ("the quota bounds work
\* performed, not work that succeeded", dream.py record_cycle).
THEOREM QuotaBoundsWork == Dream!Spec => []WorkIsCounted
<1>1. CycleInv => WorkIsCounted
    <2> SUFFICES ASSUME CycleInv PROVE WorkIsCounted
        OBVIOUS
    <2>1. \A S : Dream!Cardinality(S) = Cardinality(S)
        BY DEF Cardinality, Dream!Cardinality
    <2>2. ASSUME NEW c \in Cycle, cycle_at[c] = "exited", c \notin unlucky PROVE Dream!Cardinality(Dream!Of(c)) = 1
        <3>1. PICK e : Events(c) = {e}
            BY <2>2 DEF CycleInv, CyclesCount, Once
        <3>2. Dream!Of(c) = {e}
            BY <3>1 DEF Dream!Of, Events
        <3> QED
            BY <2>1, <3>2, FS_Singleton
    <2>3. ASSUME ~crowded, unlucky = {}, \A c \in Cycle : cycle_at[c] # "killed",
                 NEW c \in Cycle, NEW t \in worked[c]
          PROVE  Dream!Cardinality({d \in Cycle : \E u \in worked[d] : u <= t /\ t <= u + Window}) <= Quota
        <3>1. t \in Nat
            BY DEF CycleInv, CycleTypes
        <3>2. Lucky
            BY <2>3 DEF Lucky
        <3> QED
            BY <2>1, <3>1, <3>2 DEF CycleInv, QuotaIsKept, Working
    <2> QED
        BY <2>2, <2>3 DEF WorkIsCounted, Dream!WorkIsCounted
<1> QED
    BY <1>1, InitCycleInv, NextCycleInv, PTL DEF Dream!Spec

-----------------------------------------------------------------------------
(* The types that the invariants above leave out. *)

\* A graph is given once, and nodes only move on.
LEMMA GraphKeepsTypes ==
    /\ Graph!Init => Graph!TypeOK
    /\ Graph!TypeOK /\ [Graph!Next]_(Graph!vars) => Graph!TypeOK'
<1>1. Graph!Init => Graph!TypeOK
    BY TaskGraphAssumption DEF Graph!Init, Graph!TypeOK, Graph!Status
<1>2. ASSUME Graph!TypeOK, Graph!Submit
      PROVE  Graph!TypeOK'
    BY <1>2, TaskGraphAssumption DEF Graph!Submit, Graph!TypeOK
<1>3. ASSUME Graph!TypeOK, NEW n \in Node, Graph!Take(n)
      PROVE  Graph!TypeOK'
    BY <1>3 DEF Graph!Take, Graph!TypeOK, Graph!Status
<1>4. ASSUME Graph!TypeOK, NEW n \in Node, Graph!CallHandler(n)
      PROVE  Graph!TypeOK'
    BY <1>4 DEF Graph!CallHandler, Graph!TypeOK, Graph!Status
<1>5. ASSUME Graph!TypeOK, NEW n \in Node, Graph!Finish(n)
      PROVE  Graph!TypeOK'
    <2>1. status' = [status EXCEPT ![n] = "done"] /\ outputs' \subseteq Node /\ UNCHANGED <<depends_on, max_parallel, submitted, inputs>>
        BY <1>5 DEF Graph!Finish, Graph!TypeOK, Graph!Node, Node
    <2> QED
        BY <1>5, <2>1 DEF Graph!TypeOK, Graph!Status, Graph!Node, Node
<1>6. ASSUME Graph!TypeOK, UNCHANGED Graph!vars
      PROVE  Graph!TypeOK'
    BY <1>6 DEF Graph!vars, Graph!TypeOK
<1>7. ASSUME Graph!TypeOK, NEW n \in Node, Graph!Escape(n)
      PROVE  Graph!TypeOK'
    BY <1>7 DEF Graph!Escape, Graph!TypeOK, Graph!Status
<1> QED
    BY <1>1, <1>2, <1>3, <1>4, <1>5, <1>6, <1>7 DEF Graph!Next, Graph!Node, Node

\* The lease is held while the cycle works, and nothing is recorded ahead of the clock.
LeaseAndClock ==
    /\ cycle_now \in 0..Horizon
    /\ replay_lease \in [Cycle -> BOOLEAN]
    /\ \A c \in Cycle : replay_lease[c] => cycle_at[c] \in {"work", "finally"}
    /\ \A e \in events : e.ts <= cycle_now

LEMMA InitLeaseAndClock == Dream!Init => LeaseAndClock
BY DreamAssumption DEF Dream!Init, LeaseAndClock

LEMMA CycleStepKeepsClock ==
    ASSUME CycleInv, LeaseAndClock, NEW c \in Cycle, cycle_now' = cycle_now,
           events' = events \/ \E how \in Ending : Dream!Recorded(c, how)
    PROVE  cycle_now' \in 0..Horizon /\ \A e \in events' : e.ts <= cycle_now'
<1>1. cycle_now \in Nat
    BY DEF CycleInv, CycleTypes
<1> QED
    BY <1>1 DEF LeaseAndClock, Dream!Recorded

LEMMA NextLeaseAndClock == CycleInv /\ LeaseAndClock /\ [Dream!Next]_(Dream!vars) => LeaseAndClock'
<1> SUFFICES ASSUME CycleInv, LeaseAndClock, [Dream!Next]_(Dream!vars) PROVE LeaseAndClock'
    OBVIOUS
<1>1. /\ cycle_now \in Nat /\ cycle_at \in [Cycle -> Phases]
      /\ \A e \in events : e.ts \in Nat
    BY DEF CycleInv, CycleTypes
<1>2. CASE UNCHANGED Dream!vars
    BY <1>2 DEF Dream!vars, LeaseAndClock
<1>3. CASE Dream!Tick
    <2>1. /\ cycle_now' \in 0..Horizon /\ UNCHANGED <<replay_lease, cycle_at, events>>
          /\ \A e \in events : e.ts <= cycle_now'
        BY <1>1, <1>3, DreamAssumption DEF Dream!Tick, LeaseAndClock
    <2> QED
        BY <2>1 DEF LeaseAndClock
<1>4. ASSUME NEW c \in Cycle, Dream!Check(c) \/ Dream!Acquire(c) \/ Dream!Work(c) \/ Dream!Finally(c) \/ Dream!Kill(c)
      PROVE  LeaseAndClock'
    <2>1. cycle_now' = cycle_now /\ (events' = events \/ \E how \in Ending : Dream!Recorded(c, how))
        BY <1>4 DEF Dream!Check, Dream!Acquire, Dream!Work, Dream!Finally, Dream!Kill, Ending
    <2>2. cycle_now' \in 0..Horizon /\ \A e \in events' : e.ts <= cycle_now'
        BY <2>1, CycleStepKeepsClock
    <2>3. PICK place : cycle_at' = [cycle_at EXCEPT ![c] = place]
        BY <1>4 DEF Dream!Check, Dream!Acquire, Dream!Work, Dream!Finally, Dream!Kill, Dream!Goes
    <2>4. /\ replay_lease' \in [Cycle -> BOOLEAN]
          /\ \A d \in Cycle : replay_lease'[d] => cycle_at'[d] \in {"work", "finally"}
        <3>1. CASE Dream!Check(c)
            BY <1>1, <3>1 DEF Dream!Check, Dream!Goes, LeaseAndClock
        <3>2. CASE Dream!Acquire(c)
            BY <1>1, <3>2 DEF Dream!Acquire, Dream!Goes, LeaseAndClock
        <3>3. CASE Dream!Work(c)
            BY <1>1, <3>3 DEF Dream!Work, Dream!Goes, LeaseAndClock
        <3>4. CASE Dream!Finally(c)
            BY <1>1, <3>4 DEF Dream!Finally, Dream!Goes, LeaseAndClock
        <3>5. CASE Dream!Kill(c)
            BY <1>1, <3>5 DEF Dream!Kill, Dream!Goes, LeaseAndClock
        <3> QED
            BY <1>4, <3>1, <3>2, <3>3, <3>4, <3>5
    <2> QED
        BY <2>2, <2>4 DEF LeaseAndClock
<1> QED
    BY <1>2, <1>3, <1>4 DEF Dream!Next

\* The cycle's state has the types TypeOK lists, whatever stops a cycle (run_dream_cycle.py).
THEOREM DreamTypeOK == Dream!Spec => []Dream!TypeOK
<1>1. CycleInv /\ LeaseAndClock => Dream!TypeOK
    <2> SUFFICES ASSUME CycleInv, LeaseAndClock PROVE Dream!TypeOK
        OBVIOUS
    <2>1. \A e \in events : e.cycle \in Cycle /\ e.ts \in 0..cycle_now
        BY DEF CycleInv, CycleTypes, LeaseAndClock
    <2> QED
        BY <2>1 DEF CycleInv, CycleTypes, LeaseAndClock, Dream!TypeOK, Phases
<1> QED
    BY <1>1, InitCycleInv, NextCycleInv, InitLeaseAndClock, NextLeaseAndClock, PTL DEF Dream!Spec

\* Messages are published with a budget the publisher may give, before the clock's bound.
GivenBudgets == now \in 0..MaxTime /\ \A e \in origin : e.budget \in Budgets

\* The endpoint whose presence is kept.
PresenceTypes ==
    /\ link \in {"open", "stopping", "leaving", "closed"}
    /\ stop \in BOOLEAN /\ excused \in BOOLEAN
    /\ beat \in {"waits", "announces"}
    /\ retained \in {"none", "online", "offline"}

LEMMA MeshKeepsTypes ==
    /\ Network!Init => GivenBudgets
    /\ GivenBudgets /\ [Network!Next]_meshVars => GivenBudgets'
<1>1. Network!Init => GivenBudgets
    BY MeshAssumption DEF Network!Init, GivenBudgets
<1>2. ASSUME GivenBudgets, Network!Tick
      PROVE  GivenBudgets'
    BY <1>2, MeshAssumption DEF Network!Tick, GivenBudgets
<1>3. ASSUME GivenBudgets, Network!Publish
      PROVE  GivenBudgets'
    BY <1>3 DEF Network!Publish, GivenBudgets
<1>4. ASSUME GivenBudgets, NEW p \in Endpoint,
             Network!Arrive(p) \/ Network!Return(p) \/ Network!Forward(p) \/ Network!Send(p)
      PROVE  GivenBudgets'
    BY <1>4 DEF Network!Arrive, Network!Return, Network!Forward, Network!Send, GivenBudgets
<1>5. ASSUME GivenBudgets, UNCHANGED meshVars
      PROVE  GivenBudgets'
    BY <1>5 DEF meshVars, GivenBudgets
<1> QED
    BY <1>1, <1>2, <1>3, <1>4, <1>5 DEF Network!Next

LEMMA PresenceKeepsTypes ==
    /\ Network!PresenceInit => PresenceTypes
    /\ PresenceTypes /\ [Network!PresenceNext]_(Network!presenceVars) => PresenceTypes'
<1>1. Network!PresenceInit => PresenceTypes
    BY DEF Network!PresenceInit, PresenceTypes
<1>2. PresenceTypes /\ (Network!Beat \/ Network!Announce) => PresenceTypes'
    BY DEF Network!Beat, Network!Announce, PresenceTypes
<1>3. PresenceTypes /\ (Network!Close \/ Network!SayOffline \/ Network!Disconnect) => PresenceTypes'
    BY DEF Network!Close, Network!SayOffline, Network!Disconnect, PresenceTypes
<1>4. PresenceTypes /\ UNCHANGED Network!presenceVars => PresenceTypes'
    BY DEF Network!presenceVars, PresenceTypes
<1> QED
    BY <1>1, <1>2, <1>3, <1>4 DEF Network!PresenceNext

LEMMA MeshTypes == MeshInv /\ GivenBudgets /\ PresenceTypes => Network!TypeOK
<1> SUFFICES ASSUME MeshInv, GivenBudgets, PresenceTypes PROVE Network!TypeOK
    OBVIOUS
<1>1. Copies \subseteq Copy
    BY DEF MeshInv, Copies, Sent, Works
<1>2. ASSUME NEW copy \in Copies
      PROVE  /\ copy.envelope.budget \in Nat \cup {NoLimit}
             /\ ToSet(copy.envelope.visited) \subseteq Endpoint
    <2>1. copy \in Copy
        BY <1>1
    <2>2. copy.envelope.visited \in Seq(Endpoint) /\ copy.route \in Seq(Endpoint)
        BY <2>1 DEF Copy, Envelope
    <2>3. PICK e \in origin : IsCopyOf(copy, e)
        BY DEF MeshInv
    <2>4. e.budget \in Nat \cup {NoLimit}
        BY MeshAssumption DEF GivenBudgets
    <2>5. CASE copy.route = <<>>
        <3>1. e.budget # NoLimit => copy.envelope.budget = e.budget - 0
            BY <2>3, <2>5 DEF IsCopyOf
        <3> QED
            BY <2>2, <2>3, <2>4, <3>1 DEF IsCopyOf, ToSet
    <2>6. CASE copy.route # <<>>
        <3>1. e.budget # NoLimit /\ Len(copy.route) < e.budget /\ copy.envelope.budget = e.budget - Len(copy.route)
            BY <2>3, <2>6 DEF IsCopyOf
        <3>2. Len(copy.route) \in Nat
            BY <2>2
        <3>3. copy.envelope.budget \in Nat
            BY <2>4, <3>1, <3>2
        <3> QED
            BY <2>2, <3>3 DEF ToSet
    <2> QED
        BY <2>5, <2>6
<1> QED
    BY <1>2 DEF Network!TypeOK, Network!Copies, Network!Sent, Network!Works, Network!ToSet, Network!NoLimit,
        Copies, Sent, Works, ToSet, NoLimit, GivenBudgets, PresenceTypes

\* The replica i places after s.
Turn(s, i) == IF s + i < Replicas THEN s + i ELSE (s + i) - Replicas

LEMMA TurnAfter ==
    ASSUME NEW s \in Router!Replica, NEW i \in 0..(Replicas - 1)
    PROVE  (s + i) % Replicas = Turn(s, i) /\ Turn(s, i) \in Router!Replica
<1>1. s \in Nat /\ s < Replicas /\ i \in Nat /\ i < Replicas /\ Replicas \in Nat \ {0}
    BY RouterAssumption DEF Router!Replica
<1>2. \A m, n \in Nat : m < n => m % n = m
    OBVIOUS
<1>3. \A m, n \in Nat : n <= m /\ m < n + n => m % n = m - n
    OBVIOUS
<1>4. CASE s + i < Replicas
    BY <1>1, <1>2, <1>4 DEF Turn, Router!Replica
<1>5. CASE Replicas <= s + i
    <2>1. s + i \in Nat /\ s + i < Replicas + Replicas
        BY <1>1
    <2>2. (s + i) % Replicas = (s + i) - Replicas
        BY <1>1, <1>3, <1>5, <2>1
    <2> QED
        BY <1>1, <1>5, <2>1, <2>2 DEF Turn, Router!Replica
<1> QED
    BY <1>1, <1>4, <1>5

\* The replicas that come first after s, k of them.
FirstAfter(s, k) == {Turn(s, i) : i \in 0..(k - 1)}

\* Each is another one, as long as there are enough.
LEMMA AnotherReplica ==
    ASSUME NEW s \in Router!Replica, NEW k \in 0..(Replicas - 1)
    PROVE  Turn(s, k) \notin FirstAfter(s, k) /\ FirstAfter(s, k + 1) = FirstAfter(s, k) \cup {Turn(s, k)}
<1>1. s \in Nat /\ s < Replicas /\ k \in Nat /\ k < Replicas /\ Replicas \in Nat
    BY RouterAssumption DEF Router!Replica
<1>2. ASSUME NEW i \in 0..(k - 1)
      PROVE  Turn(s, k) # Turn(s, i)
    <2>1. i \in Nat /\ i < k
        BY <1>1
    <2> QED
        BY <1>1, <2>1 DEF Turn
<1>3. 0..((k + 1) - 1) = (0..(k - 1)) \cup {k}
    BY <1>1
<1> QED
    BY <1>2, <1>3 DEF FirstAfter

\* Calls at replica r, by the last one they tried.
OpenAt(r) == {c \in Chat : chat_at[c] = "open" /\ tried[c] # {} /\ r = Router!Current(c)}

\* A call tries the replicas in turn, each once, and at most Limit of them.
TriesInTurn ==
    /\ tried \in [Chat -> SUBSET Router!Replica]
    /\ \A c \in Chat :
        /\ Cardinality(tried[c]) \in 0..Router!Limit
        /\ tried[c] = FirstAfter(start[c], Cardinality(tried[c]))
        /\ chat_at[c] \in {"idle", "ordered"} => tried[c] = {}
        /\ chat_at[c] = "open" => tried[c] # {}

\* What was asked of a replica was answered, failed, or is open.
AnswersAreAsked ==
    /\ asked \in [Router!Replica -> Nat] /\ served \in [Router!Replica -> Nat] /\ failed \in [Router!Replica -> Nat]
    /\ \A r \in Router!Replica : served[r] + failed[r] + Cardinality(OpenAt(r)) <= asked[r]

TriesInv == RouterTypes /\ TriesInTurn /\ AnswersAreAsked

LEMMA OpenIsFinite == \A r : IsFiniteSet(OpenAt(r)) /\ Cardinality(OpenAt(r)) \in Nat
BY RouterAssumption, FS_Subset, FS_CardinalityType DEF OpenAt

LEMMA LimitIs == Router!Limit \in Nat /\ Router!Limit <= Replicas
BY RouterAssumption DEF Router!Limit

LEMMA RouterCounts == \A S : Router!Cardinality(S) = Cardinality(S)
BY DEF Cardinality, Router!Cardinality

LEMMA InitTriesInv == Router!Init => TriesInv
<1> SUFFICES ASSUME Router!Init PROVE TriesInv
    OBVIOUS
<1>1. RouterTypes
    BY InitRouterInv DEF RouterInv
<1>2. \A c \in Chat : chat_at[c] = "idle" /\ tried[c] = {} /\ Cardinality(tried[c]) = 0
    BY FS_EmptySet DEF Router!Init
<1>3. \A s : FirstAfter(s, 0) = {}
    BY DEF FirstAfter
<1>4. TriesInTurn
    BY <1>2, <1>3, LimitIs DEF TriesInTurn, Router!Init
<1>5. \A r \in Router!Replica : OpenAt(r) = {} /\ Cardinality(OpenAt(r)) = 0
    BY <1>2, FS_EmptySet DEF OpenAt
<1>6. AnswersAreAsked
    <2>1. /\ asked \in [Router!Replica -> Nat] /\ served \in [Router!Replica -> Nat] /\ failed \in [Router!Replica -> Nat]
          /\ \A r \in Router!Replica : asked[r] = 0 /\ served[r] = 0 /\ failed[r] = 0
        BY DEF Router!Init
    <2> QED
        BY <1>5, <2>1 DEF AnswersAreAsked
<1> QED
    BY <1>1, <1>4, <1>6 DEF TriesInv

\* Where an open call is: at the last replica it tried.
LEMMA CurrentIs ==
    ASSUME TriesInv, NEW c \in Chat, chat_at[c] = "open"
    PROVE  Router!Current(c) \in Router!Replica /\ c \in OpenAt(Router!Current(c))
<1> DEFINE k == Cardinality(tried[c])
<1>1. /\ k \in 0..Router!Limit /\ tried[c] = FirstAfter(start[c], k) /\ tried[c] # {}
      /\ start[c] \in Router!Replica
    BY DEF TriesInv, TriesInTurn, RouterTypes
<1>2. k # 0
    BY <1>1 DEF FirstAfter
<1>3. k - 1 \in 0..(Replicas - 1) /\ start[c] \in Nat
    BY <1>1, <1>2, LimitIs, ReplicasExist, RouterAssumption
<1>4. Router!Current(c) = (start[c] + (k - 1)) % Replicas
    <2>1. (start[c] + k) - 1 = start[c] + (k - 1)
        BY <1>1, <1>3, LimitIs
    <2> QED
        BY <2>1, RouterCounts DEF Router!Current
<1>5. Router!Current(c) \in Router!Replica
    BY <1>1, <1>3, <1>4, TurnAfter
<1> QED
    BY <1>1, <1>5 DEF OpenAt

\* A call that does not try another replica.
LEMMA TriesStay ==
    ASSUME TriesInv, NEW c \in Chat, tried' = tried, \A d \in Chat \ {c} : chat_at'[d] = chat_at[d] /\ start'[d] = start[d],
           chat_at'[c] # "open", tried[c] # {} => start'[c] = start[c],
           chat_at'[c] \in {"idle", "ordered"} => tried[c] = {}
    PROVE  TriesInTurn' /\ \A r : OpenAt(r)' = OpenAt(r) \ {c}
<1>1. ASSUME NEW d \in Chat
      PROVE  /\ Cardinality(tried'[d]) \in 0..Router!Limit
             /\ tried'[d] = FirstAfter(start'[d], Cardinality(tried'[d]))
             /\ chat_at'[d] \in {"idle", "ordered"} => tried'[d] = {}
             /\ chat_at'[d] = "open" => tried'[d] # {}
    <2>1. /\ Cardinality(tried[d]) \in 0..Router!Limit
          /\ tried[d] = FirstAfter(start[d], Cardinality(tried[d]))
          /\ chat_at[d] \in {"idle", "ordered"} => tried[d] = {}
          /\ chat_at[d] = "open" => tried[d] # {}
        BY DEF TriesInv, TriesInTurn
    <2>2. CASE d # c \/ tried[c] # {}
        BY <2>1, <2>2
    <2>3. CASE d = c /\ tried[c] = {}
        <3>1. Cardinality(tried[d]) = 0
            BY <2>3, FS_EmptySet
        <3>2. FirstAfter(start'[d], 0) = {}
            BY DEF FirstAfter
        <3> QED
            BY <2>1, <2>3, <3>1, <3>2
    <2> QED
        BY <2>2, <2>3
<1>2. TriesInTurn'
    BY <1>1 DEF TriesInv, TriesInTurn, FirstAfter, Turn, Router!Limit, Router!Replica
<1>3. \A d \in Chat \ {c} : Router!Current(d)' = Router!Current(d)
    BY DEF Router!Current
<1>4. ASSUME NEW r
      PROVE  OpenAt(r)' = OpenAt(r) \ {c}
    BY <1>3 DEF OpenAt
<1> QED
    BY <1>2, <1>4

LEMMA OrderTries == ASSUME TriesInv, NEW c \in Chat, Router!Order(c) PROVE TriesInTurn' /\ AnswersAreAsked'
<1>1. /\ chat_at[c] = "idle" /\ start' = [start EXCEPT ![c] = cursor] /\ chat_at' = [chat_at EXCEPT ![c] = "ordered"]
      /\ UNCHANGED <<tried, asked, served, failed>>
    BY DEF Router!Order, Router!Goes
<1>2. tried[c] = {}
    BY <1>1 DEF TriesInv, TriesInTurn
<1>3. /\ chat_at'[c] = "ordered"
      /\ \A d \in Chat \ {c} : chat_at'[d] = chat_at[d] /\ start'[d] = start[d]
    BY <1>1 DEF TriesInv, RouterTypes
<1>4. TriesInTurn' /\ \A r : OpenAt(r)' = OpenAt(r) \ {c}
    BY <1>1, <1>2, <1>3, TriesStay
<1>5. \A r : c \notin OpenAt(r)
    BY <1>1 DEF OpenAt
<1>6. AnswersAreAsked'
    BY <1>1, <1>4, <1>5 DEF TriesInv, AnswersAreAsked
<1> QED
    BY <1>4, <1>6

LEMMA TriedIsFinite == ASSUME TriesInv, NEW c \in Chat PROVE IsFiniteSet(tried[c])
<1>1. IsFiniteSet(Router!Replica)
    BY RouterAssumption, FS_Interval DEF Router!Replica
<1> QED
    BY <1>1, FS_Subset DEF TriesInv, TriesInTurn

\* A call asks a replica it has not tried.
LEMMA AskTries == ASSUME TriesInv, NEW c \in Chat, Router!Ask(c) PROVE TriesInTurn' /\ AnswersAreAsked'
<1>1. PICK k \in Nat : k = Cardinality(tried[c]) /\ k < Router!Limit
    BY RouterCounts, LimitIs DEF Router!Ask, TriesInv, TriesInTurn
<1>2. PICK r \in Router!Replica : r = Turn(start[c], k) /\ r = Router!Attempt(c)
    <2>1. start[c] \in Router!Replica /\ k \in 0..(Replicas - 1)
        BY <1>1, LimitIs, RouterAssumption DEF TriesInv, RouterTypes
    <2> QED
        BY <1>1, <2>1, TurnAfter, RouterCounts DEF Router!Attempt
<1>3. /\ chat_at[c] = "next" /\ chat_at' = [chat_at EXCEPT ![c] = "open"]
      /\ asked' = [asked EXCEPT ![r] = @ + 1] /\ tried' = [tried EXCEPT ![c] = @ \cup {r}]
      /\ UNCHANGED <<start, served, failed>>
    BY <1>2 DEF Router!Ask, Router!Goes
<1>4. /\ start[c] \in Router!Replica /\ chat_at \in [Chat -> Stations]
      /\ tried \in [Chat -> SUBSET Router!Replica] /\ tried[c] = FirstAfter(start[c], k)
    BY <1>1 DEF TriesInv, TriesInTurn, RouterTypes
<1>5. r \notin tried[c] /\ tried[c] \cup {r} = FirstAfter(start[c], k + 1)
    <2>1. k \in 0..(Replicas - 1)
        BY <1>1, LimitIs, RouterAssumption
    <2>2. start[c] \in Router!Replica
        BY <1>4
    <2>3. /\ Turn(start[c], k) \notin FirstAfter(start[c], k)
          /\ FirstAfter(start[c], k + 1) = FirstAfter(start[c], k) \cup {Turn(start[c], k)}
        BY <2>1, <2>2, AnotherReplica
    <2>4. r = Turn(start[c], k) /\ tried[c] = FirstAfter(start[c], k)
        BY <1>2, <1>4
    <2> QED
        BY <2>3, <2>4
<1>6. Cardinality(tried[c] \cup {r}) = k + 1
    BY <1>1, <1>5, TriedIsFinite, CountAdded
<1>7. /\ tried' \in [Chat -> SUBSET Router!Replica] /\ tried'[c] = tried[c] \cup {r} /\ chat_at'[c] = "open"
      /\ \A d \in Chat \ {c} : tried'[d] = tried[d] /\ chat_at'[d] = chat_at[d]
    BY <1>3, <1>4
<1>8. TriesInTurn'
    <2>1. ASSUME NEW d \in Chat
          PROVE  /\ Cardinality(tried'[d]) \in 0..Router!Limit
                 /\ tried'[d] = FirstAfter(start'[d], Cardinality(tried'[d]))
                 /\ chat_at'[d] \in {"idle", "ordered"} => tried'[d] = {}
                 /\ chat_at'[d] = "open" => tried'[d] # {}
        <3>1. CASE d = c
            <4>1. Cardinality(tried'[c]) = k + 1 /\ tried'[c] # {}
                BY <1>6, <1>7
            <4>2. k + 1 \in 0..Router!Limit
                BY <1>1, LimitIs
            <4>3. tried'[c] = FirstAfter(start'[c], k + 1)
                BY <1>3, <1>5, <1>7
            <4> QED
                BY <1>7, <3>1, <4>1, <4>2, <4>3
        <3>2. CASE d # c
            BY <1>3, <1>7, <3>2 DEF TriesInv, TriesInTurn
        <3> QED
            BY <3>1, <3>2
    <2> QED
        BY <1>7, <2>1 DEF TriesInTurn, FirstAfter, Turn, Router!Limit, Router!Replica
<1>9. Router!Current(c)' = r
    <2>1. (start[c] + (k + 1)) - 1 = start[c] + k
        BY <1>1, <1>4, ReplicasExist
    <2>2. Router!Current(c)' = ((start[c] + (k + 1)) - 1) % Replicas
        <3>1. Router!Cardinality(tried'[c]) = k + 1 /\ start'[c] = start[c]
            BY <1>3, <1>6, <1>7, RouterCounts
        <3>2. Router!Current(c)' = (start'[c] + Router!Cardinality(tried'[c]) - 1) % Replicas
            BY DEF Router!Current
        <3>3. start[c] \in Nat
            BY <1>4, ReplicasExist
        <3>4. start'[c] + Router!Cardinality(tried'[c]) - 1 = (start[c] + (k + 1)) - 1
            BY <3>1, <3>3
        <3> QED
            BY <3>2, <3>4
    <2>3. Router!Attempt(c) = (start[c] + k) % Replicas
        BY <1>1, RouterCounts DEF Router!Attempt
    <2> QED
        BY <1>2, <2>1, <2>2, <2>3
<1>10. \A d \in Chat \ {c} : Router!Current(d)' = Router!Current(d)
    BY <1>3, <1>7 DEF Router!Current
<1>11. \A x : OpenAt(x)' = IF x = r THEN OpenAt(x) \cup {c} ELSE OpenAt(x)
    BY <1>3, <1>7, <1>9, <1>10 DEF OpenAt
<1>12. c \notin OpenAt(r)
    BY <1>3 DEF OpenAt
<1>13. AnswersAreAsked'
    <2>1. /\ asked \in [Router!Replica -> Nat] /\ served \in [Router!Replica -> Nat] /\ failed \in [Router!Replica -> Nat]
          /\ \A x \in Router!Replica : served[x] + failed[x] + Cardinality(OpenAt(x)) <= asked[x]
        BY DEF TriesInv, AnswersAreAsked
    <2>2. /\ asked' \in [Router!Replica -> Nat] /\ asked'[r] = asked[r] + 1
          /\ \A x \in Router!Replica \ {r} : asked'[x] = asked[x]
        BY <1>3, <2>1
    <2>3. Cardinality(OpenAt(r)') = Cardinality(OpenAt(r)) + 1
        BY <1>11, <1>12, OpenIsFinite, CountAdded
    <2>4. ASSUME NEW x \in Router!Replica
          PROVE  served'[x] + failed'[x] + Cardinality(OpenAt(x)') <= asked'[x]
        <3>1. served[x] \in Nat /\ failed[x] \in Nat /\ asked[x] \in Nat /\ Cardinality(OpenAt(x)) \in Nat
            BY <2>1, OpenIsFinite
        <3>2. CASE x = r
            BY <1>3, <2>1, <2>2, <2>3, <3>1, <3>2
        <3>3. CASE x # r
            BY <1>3, <1>11, <2>1, <2>2, <3>3
        <3> QED
            BY <3>2, <3>3
    <2> QED
        BY <1>3, <2>1, <2>2, <2>4 DEF AnswersAreAsked, Router!Replica
<1> QED
    BY <1>8, <1>13

\* A call that is open no longer has counted what it met, or nobody does.
LEMMA OpenEnds ==
    ASSUME TriesInv, NEW c \in Chat, Router!Succeed(c) \/ Router!Fail(c) \/ Router!Escape(c)
    PROVE  TriesInTurn' /\ AnswersAreAsked'
<1>1. chat_at[c] = "open" /\ UNCHANGED <<start, tried, asked>>
    BY DEF Router!Succeed, Router!Fail, Router!Escape
<1>2. PICK place \in {"returned", "next", "escaped"} : chat_at' = [chat_at EXCEPT ![c] = place]
    BY DEF Router!Succeed, Router!Fail, Router!Escape, Router!Goes
<1>3. chat_at'[c] = place /\ \A d \in Chat \ {c} : chat_at'[d] = chat_at[d] /\ start'[d] = start[d]
    BY <1>1, <1>2 DEF TriesInv, RouterTypes
<1>4. TriesInTurn' /\ \A x : OpenAt(x)' = OpenAt(x) \ {c}
    BY <1>1, <1>3, TriesStay
<1>5. PICK r \in Router!Replica : r = Router!Current(c) /\ c \in OpenAt(r)
    BY <1>1, CurrentIs
<1>6. \A x : x # r => c \notin OpenAt(x)
    BY <1>5 DEF OpenAt
<1>7. /\ asked \in [Router!Replica -> Nat] /\ served \in [Router!Replica -> Nat] /\ failed \in [Router!Replica -> Nat]
      /\ \A x \in Router!Replica : served[x] + failed[x] + Cardinality(OpenAt(x)) <= asked[x]
    BY DEF TriesInv, AnswersAreAsked
<1>8. /\ served' \in [Router!Replica -> Nat] /\ failed' \in [Router!Replica -> Nat]
      /\ \A x \in Router!Replica \ {r} : served'[x] = served[x] /\ failed'[x] = failed[x]
      /\ \/ served'[r] = served[r] + 1 /\ failed'[r] = failed[r]
         \/ served'[r] = served[r] /\ failed'[r] = failed[r] + 1
         \/ served'[r] = served[r] /\ failed'[r] = failed[r]
    <2>1. \/ served' = [served EXCEPT ![r] = @ + 1] /\ failed' = failed
          \/ served' = served /\ failed' = [failed EXCEPT ![r] = @ + 1]
          \/ served' = served /\ failed' = failed
        BY <1>5 DEF Router!Succeed, Router!Fail, Router!Escape
    <2> QED
        BY <1>7, <2>1
<1>9. Cardinality(OpenAt(r)') = Cardinality(OpenAt(r)) - 1
    BY <1>4, <1>5, OpenIsFinite, CountRemoved
<1>10. ASSUME NEW x \in Router!Replica
       PROVE  served'[x] + failed'[x] + Cardinality(OpenAt(x)') <= asked'[x]
    <2>1. /\ served[x] \in Nat /\ failed[x] \in Nat /\ asked[x] \in Nat /\ Cardinality(OpenAt(x)) \in Nat
          /\ served[x] + failed[x] + Cardinality(OpenAt(x)) <= asked[x] /\ asked'[x] = asked[x]
        BY <1>1, <1>7, OpenIsFinite
    <2>2. CASE x = r
        BY <1>8, <1>9, <2>1, <2>2
    <2>3. CASE x # r
        <3>1. OpenAt(x)' = OpenAt(x)
            BY <1>4, <1>6, <2>3
        <3> QED
            BY <1>8, <2>1, <2>3, <3>1
    <2> QED
        BY <2>2, <2>3
<1>11. AnswersAreAsked'
    BY <1>1, <1>7, <1>8, <1>10 DEF AnswersAreAsked, Router!Replica
<1> QED
    BY <1>4, <1>11

\* A call that counts itself, or that has no try left.
LEMMA CountsTries ==
    ASSUME TriesInv, NEW c \in Chat, Router!Count(c) \/ Router!GiveUp(c)
    PROVE  TriesInTurn' /\ AnswersAreAsked'
<1>1. chat_at[c] \in {"ordered", "next"} /\ UNCHANGED <<start, tried, asked, served, failed>>
    BY DEF Router!Count, Router!GiveUp
<1>2. PICK place \in {"next", "raised"} : chat_at' = [chat_at EXCEPT ![c] = place]
    BY DEF Router!Count, Router!GiveUp, Router!Goes
<1>3. chat_at'[c] = place /\ \A d \in Chat \ {c} : chat_at'[d] = chat_at[d] /\ start'[d] = start[d]
    BY <1>1, <1>2 DEF TriesInv, RouterTypes
<1>4. TriesInTurn' /\ \A x : OpenAt(x)' = OpenAt(x) \ {c}
    BY <1>1, <1>3, TriesStay
<1>5. \A x : c \notin OpenAt(x)
    BY <1>1 DEF OpenAt
<1>6. AnswersAreAsked'
    BY <1>1, <1>4, <1>5 DEF TriesInv, AnswersAreAsked
<1> QED
    BY <1>4, <1>6

LEMMA NextTriesInv == RouterInv /\ TriesInv /\ [Router!Next]_(Router!vars) => TriesInv'
<1> SUFFICES ASSUME RouterInv, TriesInv, [Router!Next]_(Router!vars) PROVE TriesInv'
    OBVIOUS
<1>1. RouterTypes'
    BY NextRouterInv DEF RouterInv
<1>2. CASE UNCHANGED Router!vars
    <2>1. UNCHANGED <<chat_at, start, tried, asked, served, failed>>
        BY <1>2 DEF Router!vars
    <2>2. \A x : OpenAt(x)' = OpenAt(x)
        BY <2>1 DEF OpenAt, Router!Current
    <2>3. TriesInTurn'
        BY <2>1 DEF TriesInv, TriesInTurn
    <2>4. AnswersAreAsked'
        BY <2>1, <2>2 DEF TriesInv, AnswersAreAsked
    <2> QED
        BY <1>1, <2>3, <2>4 DEF TriesInv
<1>3. CASE Router!Next
    BY <1>1, <1>3, OrderTries, AskTries, OpenEnds, CountsTries DEF Router!Next, TriesInv
<1> QED
    BY <1>2, <1>3

\* A call tries no replica twice and no more than it may, and of no replica more answers and
\* failures are counted than it was asked for (vllm_router.py, completion).
THEOREM RouterTypeOK == Router!Spec => []Router!TypeOK
<1>1. RouterInv /\ TriesInv => Router!TypeOK
    <2> SUFFICES ASSUME RouterInv, TriesInv PROVE Router!TypeOK
        OBVIOUS
    <2>1. \A c \in Chat : tried[c] \subseteq Router!Replica /\ Router!Cardinality(tried[c]) <= Router!Limit
        BY RouterCounts, LimitIs DEF TriesInv, TriesInTurn
    <2>2. ASSUME NEW r \in Router!Replica
          PROVE  served[r] + failed[r] <= asked[r]
        <3>1. /\ served[r] \in Nat /\ failed[r] \in Nat /\ asked[r] \in Nat
              /\ served[r] + failed[r] + Cardinality(OpenAt(r)) <= asked[r]
            BY DEF TriesInv, AnswersAreAsked
        <3> QED
            BY <3>1, OpenIsFinite
    <2> QED
        BY <2>1, <2>2 DEF RouterInv, RouterTypes, Stations, Router!TypeOK
<1> QED
    BY <1>1, InitRouterInv, NextRouterInv, InitTriesInv, NextTriesInv, PTL DEF Router!Spec

-----------------------------------------------------------------------------
(* The run itself: a behaviour of MCWork is a behaviour of each component.   *)

CacheProved == INSTANCE CacheProofs

\* The module of the run and the module of the theorems mean the same cache.
LEMMA SameEntries ==
    /\ Cache!Revision = CacheProved!Revision /\ Cache!CacheKey = CacheProved!CacheKey /\ Cache!At = CacheProved!At
    /\ Cache!NoResult = CacheProved!NoResult
    /\ \A c : Cache!EntryKey(c) = CacheProved!EntryKey(c)
    /\ \A k : Cache!Fresh(k) = CacheProved!Fresh(k)
    /\ \A k : Cache!InL2(k) = CacheProved!InL2(k)
    /\ \A result : Cache!Entry(result) = CacheProved!Entry(result)
    /\ \A f, K : Cache!Without(f, K) = CacheProved!Without(f, K)
    /\ \A f, k, x : Cache!With(f, k, x) = CacheProved!With(f, k, x)
    /\ \A c, place : Cache!Goto(c, place) = CacheProved!Goto(c, place)
    /\ \A c : Cache!Done(c) = CacheProved!Done(c)
    /\ \A c, result : Cache!Return(c, result) = CacheProved!Return(c, result)
BY DEF Cache!Revision, Cache!CacheKey, Cache!At, Cache!NoResult, Cache!EntryKey, Cache!Fresh, Cache!InL2, Cache!Entry,
    Cache!Without, Cache!With, Cache!Goto, Cache!Done, Cache!Return,
    CacheProved!Revision, CacheProved!CacheKey, CacheProved!At, CacheProved!NoResult, CacheProved!EntryKey,
    CacheProved!Fresh, CacheProved!InL2, CacheProved!Entry, CacheProved!Without, CacheProved!With, CacheProved!Goto,
    CacheProved!Done, CacheProved!Return

LEMMA SameEviction == \A f, pins : Cache!Evicting(f, pins) = CacheProved!Evicting(f, pins)
<1>1. \A S : Cache!Cardinality(S) = CacheProved!Cardinality(S)
    BY DEF Cache!Cardinality, CacheProved!Cardinality
<1>2. \A S : Cache!Min(S) = CacheProved!Min(S)
    BY DEF Cache!Min, CacheProved!Min
<1>3. \A f, E : Cache!Without(f, E) = CacheProved!Without(f, E)
    BY SameEntries
<1> QED
    BY <1>1, <1>2, <1>3 DEF Cache!Evicting, CacheProved!Evicting

LEMMA SameCacheStep == ASSUME NEW c, Cache!Step(c) PROVE CacheProved!Step(c)
<1>1. \/ Cache!Own(c) \/ Cache!Raise(c) \/ Cache!Release(c) \/ Cache!Hit(c) \/ Cache!Wait(c) \/ Cache!Wake(c)
      \/ Cache!MissL2(c) \/ Cache!Search(c) \/ Cache!Repin(c) \/ Cache!Pin(c) \/ Cache!DropStale(c) \/ Cache!HitL2(c)
      \/ Cache!Share(c) \/ Cache!Store(c)
    BY DEF Cache!Step
<1>2. Cache!Own(c) => CacheProved!Own(c)
    BY SameEntries DEF Cache!Own, CacheProved!Own
<1>3. Cache!Raise(c) => CacheProved!Raise(c)
    BY SameEntries DEF Cache!Raise, CacheProved!Raise
<1>4. Cache!Release(c) => CacheProved!Release(c)
    BY SameEntries DEF Cache!Release, CacheProved!Release
<1>5. Cache!Hit(c) => CacheProved!Hit(c)
    BY SameEntries DEF Cache!Hit, CacheProved!Hit
<1>6. Cache!Wait(c) => CacheProved!Wait(c)
    BY SameEntries DEF Cache!Wait, CacheProved!Wait
<1>7. Cache!Wake(c) => CacheProved!Wake(c)
    BY SameEntries DEF Cache!Wake, CacheProved!Wake
<1>8. Cache!MissL2(c) => CacheProved!MissL2(c)
    BY SameEntries DEF Cache!MissL2, CacheProved!MissL2
<1>9. Cache!Search(c) => CacheProved!Search(c)
    BY SameEntries DEF Cache!Search, CacheProved!Search
<1>10. Cache!Repin(c) => CacheProved!Repin(c)
    BY SameEntries DEF Cache!Repin, CacheProved!Repin
<1>11. Cache!Pin(c) => CacheProved!Pin(c)
    BY SameEntries DEF Cache!Pin, CacheProved!Pin
<1>12. Cache!DropStale(c) => CacheProved!DropStale(c)
    BY SameEntries DEF Cache!DropStale, CacheProved!DropStale
<1>13. Cache!HitL2(c) => CacheProved!HitL2(c)
    BY SameEntries DEF Cache!HitL2, CacheProved!HitL2
<1>14. Cache!Share(c) => CacheProved!Share(c)
    BY SameEntries DEF Cache!Share, CacheProved!Share
<1>15. Cache!Store(c) => CacheProved!Store(c)
    BY SameEntries, SameEviction DEF Cache!Store, CacheProved!Store
<1> QED
    BY <1>1, <1>2, <1>3, <1>4, <1>5, <1>6, <1>7, <1>8, <1>9, <1>10, <1>11, <1>12, <1>13, <1>14, <1>15
       DEF CacheProved!Step

LEMMA SameCacheSteps == Cache!Next => CacheProved!Next
<1>1. ASSUME NEW c, Cache!Begin(c)
      PROVE  CacheProved!Begin(c)
    BY <1>1 DEF Cache!Begin, CacheProved!Begin
<1>2. ASSUME NEW Q, Cache!Invalidate(Q)
      PROVE  CacheProved!Invalidate(Q)
    BY <1>2, SameEntries DEF Cache!Invalidate, CacheProved!Invalidate
<1>3. ASSUME NEW Q, Cache!Unpin(Q)
      PROVE  CacheProved!Unpin(Q)
    BY <1>3, SameEviction DEF Cache!Unpin, CacheProved!Unpin
<1>4. ASSUME NEW k, Cache!Expire(k)
      PROVE  CacheProved!Expire(k)
    BY <1>4, SameEntries DEF Cache!Expire, CacheProved!Expire
<1>5. Cache!WriteNamespace => CacheProved!WriteNamespace
    BY DEF Cache!WriteNamespace, CacheProved!WriteNamespace
<1> QED
    BY <1>1, <1>2, <1>3, <1>4, <1>5, SameCacheStep, SameEntries DEF Cache!Next, CacheProved!Next

\* What the cache keeps and where its calls are, in this run (pod_cache.py).
LEMMA CacheHolds == Cache!Init /\ [][Cache!Next]_(Cache!vars) => []Cache!TypeOK
<1>1. Cache!Init => CacheProved!Init
    BY SameEntries DEF Cache!Init, CacheProved!Init
<1>2. [Cache!Next]_(Cache!vars) => [CacheProved!Next]_(CacheProved!vars)
    BY SameCacheSteps DEF Cache!vars, CacheProved!vars
<1>3. CacheProved!TypeOK => Cache!TypeOK
    BY SameEntries DEF Cache!TypeOK, CacheProved!TypeOK
<1>4. CacheProved!Init => CacheProved!CacheInv
    BY CacheAssumption, CacheProved!InitCacheInv
<1>5. CacheProved!CacheInv /\ [CacheProved!Next]_(CacheProved!vars) => CacheProved!CacheInv'
    BY CacheAssumption, CacheProved!NextCacheInv
<1>6. CacheProved!CacheInv => CacheProved!TypeOK
    BY DEF CacheProved!CacheInv
<1> QED
    BY <1>1, <1>2, <1>3, <1>4, <1>5, <1>6, PTL

runVars == <<vars, governorVars, graphVars, transportVars, routerVars, cacheVars, dreamVars, meshVars, presenceVars, service>>

\* One component steps, the others stand still.
LEMMA EachComponent ==
    /\ MCSpec => Spec
    /\ MCSpec => Governor!Spec
    /\ MCSpec => Graph!Spec
    /\ MCSpec => Transport!Spec
    /\ MCSpec => Router!Spec
    /\ MCSpec => Cache!Init /\ [][Cache!Next]_(Cache!vars)
    /\ MCSpec => Dream!Spec
    /\ MCSpec => Network!Spec
    /\ MCSpec => Network!PresenceSpec
<1>1. MCInit => /\ Init /\ Governor!Init /\ Graph!Init /\ Transport!Init /\ Router!Init /\ Cache!Init /\ Dream!Init
                /\ Network!Init /\ Network!PresenceInit
    BY DEF MCInit
<1>2. [MCNext]_runVars => [Next]_vars
    BY DEF MCNext, runVars, vars
<1>3. [MCNext]_runVars => [Governor!Next]_(Governor!vars)
    BY DEF MCNext, runVars, governorVars, Governor!vars
<1>4. [MCNext]_runVars => [Graph!Next]_(Graph!vars)
    BY DEF MCNext, runVars, graphVars, Graph!vars
<1>5. [MCNext]_runVars => [Transport!Next]_(Transport!vars)
    BY DEF MCNext, runVars, transportVars, Transport!vars
<1>6. [MCNext]_runVars => [Router!Next]_(Router!vars)
    BY DEF MCNext, runVars, routerVars, Router!vars
<1>7. [MCNext]_runVars => [Cache!Next]_(Cache!vars)
    BY DEF MCNext, runVars, cacheVars, Cache!vars
<1>8. [MCNext]_runVars => [Dream!Next]_(Dream!vars)
    BY DEF MCNext, runVars, dreamVars, Dream!vars
<1>9. [MCNext]_runVars => [Network!Next]_(Network!vars)
    BY DEF MCNext, runVars, meshVars, Network!vars
<1>10. [MCNext]_runVars => [Network!PresenceNext]_(Network!presenceVars)
    BY DEF MCNext, runVars, presenceVars, Network!presenceVars
<1> QED
    BY <1>1, <1>2, <1>3, <1>4, <1>5, <1>6, <1>7, <1>8, <1>9, <1>10, PTL
       DEF MCSpec, runVars, Spec, Governor!Spec, Graph!Spec, Transport!Spec, Router!Spec, Dream!Spec, Network!Spec,
           Network!PresenceSpec

\* Offers, budgets, graphs, receipts, replicas, results, cycles and envelopes keep their
\* shape, whichever component runs: the type invariant the run checks (household.py,
\* resource_runtime.py, taskgraph.py, pod_protocol.py, vllm_router.py, pod_cache.py,
\* dream.py, mesh.py).
THEOREM WorkTypeOK == MCSpec => []TypesOK
<1>1. TransportInv => Transport!TypeOK
    BY DEF TransportInv
<1>2. Transport!Spec => []Transport!TypeOK
    BY <1>1, InitTransportInv, NextTransportInv, PTL DEF Transport!Spec
<1>3. Graph!Spec => []Graph!TypeOK
    BY GraphKeepsTypes, PTL DEF Graph!Spec
<1>4. Network!Spec => [](MeshInv /\ GivenBudgets)
    BY InitMeshInv, NextMeshInv, MeshKeepsTypes, PTL DEF Network!Spec, Network!vars, meshVars
<1>5. Network!PresenceSpec => []PresenceTypes
    BY PresenceKeepsTypes, PTL DEF Network!PresenceSpec
<1>6. MCSpec => []Network!TypeOK
    BY <1>4, <1>5, EachComponent, MeshTypes, PTL
<1> QED
    BY <1>2, <1>3, <1>6, EachComponent, HouseholdTypeOK, GovernorTypeOK, RouterTypeOK, CacheHolds, DreamTypeOK, PTL
       DEF TypesOK

=============================================================================
