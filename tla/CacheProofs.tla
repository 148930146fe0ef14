----------------------------- MODULE CacheProofs -----------------------------
(***************************************************************************)
(* Lookups in the cache, for any calls, queries and bounds, with and       *)
(* without a shared tier.                                                  *)
(***************************************************************************)
EXTENDS PodCache, FiniteSetTheorems, TLAPS

-----------------------------------------------------------------------------
(* The cache.  FreshResults follows from where results come from: every      *)
(* result that is kept, in an entry, in the shared tier or in a call on its  *)
(* way to either, is at least as new as the revision in its key, and that    *)
(* revision at least as new as the one its call began at (FreshInv).         *)
(* SingleFlight is inductive once it is known that only a cache with a       *)
(* shared tier works on it, and BoundedCache once the entries are known to   *)
(* be finitely many.                                                         *)

OwnerAt == {"l2", "search", "share", "store", "release"}
\* Where a call has its result.
Answered == {"share", "store", "release", "repin", "pin", "returned"}

\* No result is older than the key it is kept under, or than its call.
FreshInv ==
    /\ \A k \in DOMAIN data : k.revision <= data[k].result
    /\ \A k \in DOMAIN shared : k.revision <= shared[k]
    /\ \A c \in Lookup :
        /\ calls[c].began <= calls[c].key.revision /\ calls[c].key.revision <= revision
        /\ calls[c].at \in Answered => calls[c].began <= calls[c].result
        /\ calls[c].at \in {"share", "store"} => calls[c].key.revision <= calls[c].result

\* The calls at work on a key are one, and its key is in flight as long as they are.
FlightInv ==
    /\ \A c, d \in Lookup : calls[c].at \in OwnerAt /\ calls[d].at \in OwnerAt /\ EntryKey(c) = EntryKey(d) => c = d
    /\ \A c \in Lookup : calls[c].at \in OwnerAt => EntryKey(c) \in inflight
    /\ ~redis => \A k \in inflight : \E c \in Lookup : calls[c].at \in OwnerAt /\ EntryKey(c) = k
    /\ \A c \in Lookup : calls[c].at \in {"l2", "share"} => redis

BoundInv == IsFiniteSet(DOMAIN data) /\ BoundedCache

CacheInv == TypeOK /\ FreshInv /\ FlightInv /\ BoundInv

-----------------------------------------------------------------------------
(* The two ways entries are made and taken away. *)

LEMMA WithoutKeeps ==
    ASSUME NEW f, NEW K
    PROVE  /\ DOMAIN Without(f, K) = DOMAIN f \ K
           /\ \A j \in DOMAIN f \ K : Without(f, K)[j] = f[j]
BY DEF Without

\* Min of the library, of a number and another one.
LEMMA MinOfTwo ==
    ASSUME NEW m \in Nat, NEW n \in Nat
    PROVE  Min({m, n}) \in {m, n} /\ Min({m, n}) <= m /\ Min({m, n}) <= n
<1>1. \E x \in {m, n} : \A y \in {m, n} : x <= y
    OBVIOUS
<1> QED
    BY <1>1 DEF Min

\* The eviction loop takes away only entries that are not pinned, and as many as are
\* over the bound when there are so many.
LEMMA EvictingLeaves ==
    ASSUME NEW f, NEW pins, IsFiniteSet(DOMAIN f), NEW g \in Evicting(f, pins), MaxEntries \in Nat
    PROVE  /\ DOMAIN g \subseteq DOMAIN f
           /\ DOMAIN f \cap pins \subseteq DOMAIN g
           /\ \A k \in DOMAIN g : g[k] = f[k]
           /\ IsFiniteSet(DOMAIN g)
           /\ Cardinality(DOMAIN f) <= MaxEntries => DOMAIN g = DOMAIN f
           /\ Cardinality(DOMAIN f) <= MaxEntries + 1 /\ DOMAIN f \ pins # {}
                => Cardinality(DOMAIN g) <= MaxEntries
<1> DEFINE free == DOMAIN f \ pins
           n    == Cardinality(DOMAIN f)
           out  == IF n > MaxEntries THEN Min({n - MaxEntries, Cardinality(free)}) ELSE 0
<1>1. PICK E \in SUBSET free : Cardinality(E) = out /\ g = Without(f, E)
    BY DEF Evicting
<1>2. DOMAIN g = DOMAIN f \ E /\ \A k \in DOMAIN f \ E : g[k] = f[k]
    BY <1>1, WithoutKeeps
<1>3. /\ IsFiniteSet(free) /\ Cardinality(free) \in Nat /\ n \in Nat
      /\ IsFiniteSet(E) /\ IsFiniteSet(DOMAIN g)
    <2>1. IsFiniteSet(free) /\ free \subseteq DOMAIN f
        BY FS_Subset
    <2>2. IsFiniteSet(E) /\ IsFiniteSet(DOMAIN g)
        BY <1>2, <2>1, FS_Subset
    <2> QED
        BY <2>1, <2>2, FS_CardinalityType
<1>4. n <= MaxEntries => DOMAIN g = DOMAIN f
    <2> SUFFICES ASSUME n <= MaxEntries PROVE E = {}
        BY <1>2
    <2>1. out = 0
        BY <1>3
    <2> HIDE DEF out
    <2> QED
        BY <1>1, <1>3, <2>1, FS_EmptySet
<1>5. ASSUME n <= MaxEntries + 1, free # {} PROVE Cardinality(DOMAIN g) <= MaxEntries
    <2>1. CASE n <= MaxEntries
        BY <1>4, <2>1
    <2>2. CASE n = MaxEntries + 1
        <3>1. Cardinality(free) >= 1
            BY <1>3, <1>5, FS_EmptySet
        <3>2. out = 1
            <4>1. n - MaxEntries = 1 /\ n > MaxEntries
                BY <2>2
            <4>2. Min({1, Cardinality(free)}) = 1
                <5> PICK m : m = Cardinality(free)
                    OBVIOUS
                <5>1. m \in Nat /\ m >= 1
                    BY <1>3, <3>1
                <5>2. Min({1, m}) \in {1, m} /\ Min({1, m}) <= 1 /\ Min({1, m}) <= m
                    BY <5>1, MinOfTwo
                <5> QED
                    BY <5>1, <5>2
            <4> QED
                BY <4>1, <4>2
        <3> HIDE DEF out
        <3>3. E # {}
            BY <1>1, <3>2, FS_EmptySet
        <3>4. PICK k \in E : TRUE
            BY <3>3
        <3>5. Cardinality(DOMAIN f \ {k}) = n - 1
            BY <3>4, FS_RemoveElement
        <3>6. IsFiniteSet(DOMAIN f \ {k}) /\ DOMAIN g \subseteq DOMAIN f \ {k}
            BY <1>2, <3>4, FS_RemoveElement
        <3>7. Cardinality(DOMAIN g) <= Cardinality(DOMAIN f \ {k})
            BY <3>6, FS_Subset
        <3> QED
            BY <2>2, <3>5, <3>7, <1>3
    <2> QED
        BY <1>3, <1>5, <2>1, <2>2
<1> QED
    BY <1>1, <1>2, <1>3, <1>4, <1>5

\* What a result makes of the entries once it is stored: the invariants about entries
\* hold when it is no older than its key.
LEMMA StoringKeeps ==
    ASSUME TypeOK, BoundInv, FreshInv, NEW k \in CacheKey, NEW result \in Revision, k.revision <= result,
           NEW f, f = With(data, k, Entry(result)), NEW g \in Evicting(f, pinned)
    PROVE  /\ DOMAIN g \subseteq CacheKey /\ \A j \in DOMAIN g : g[j] \in [result : Revision, running : BOOLEAN]
           /\ \A j \in DOMAIN g : j.revision <= g[j].result
           /\ IsFiniteSet(DOMAIN g) /\ pinned \subseteq DOMAIN g
           /\ ~redis => Cardinality(DOMAIN g) <= MaxEntries
<1>1. DOMAIN f = DOMAIN data \cup {k} /\ f[k] = Entry(result) /\ \A j \in DOMAIN data : j # k => f[j] = data[j]
    BY DEF With
<1>2. IsFiniteSet(DOMAIN f) /\ Cardinality(DOMAIN data) \in Nat
      /\ Cardinality(DOMAIN f) = IF k \in DOMAIN data THEN Cardinality(DOMAIN data) ELSE Cardinality(DOMAIN data) + 1
    BY <1>1, FS_AddElement, FS_CardinalityType DEF BoundInv
<1>3. MaxEntries \in Nat
    BY CacheAssumption
<1>4. /\ DOMAIN g \subseteq DOMAIN f
      /\ DOMAIN f \cap pinned \subseteq DOMAIN g
      /\ \A j \in DOMAIN g : g[j] = f[j]
      /\ IsFiniteSet(DOMAIN g)
      /\ Cardinality(DOMAIN f) <= MaxEntries => DOMAIN g = DOMAIN f
      /\ Cardinality(DOMAIN f) <= MaxEntries + 1 /\ DOMAIN f \ pinned # {}
                => Cardinality(DOMAIN g) <= MaxEntries
    BY <1>2, <1>3, EvictingLeaves
<1>5. Entry(result) \in [result : Revision, running : BOOLEAN] /\ Entry(result).result = result
    BY DEF Entry
<1>6. \A j \in DOMAIN f : f[j] \in [result : Revision, running : BOOLEAN] /\ j.revision <= f[j].result
    BY <1>1, <1>5 DEF TypeOK, FreshInv
<1>7. DOMAIN f \subseteq CacheKey
    BY <1>1 DEF TypeOK
<1>8. ASSUME ~redis PROVE Cardinality(DOMAIN g) <= MaxEntries
    <2>1. Cardinality(DOMAIN data) <= MaxEntries
        BY <1>8 DEF BoundInv, BoundedCache
    <2>2. CASE k \in DOMAIN data
        BY <1>2, <1>4, <2>1, <2>2
    <2>3. CASE k \notin DOMAIN data
        <3>1. k \in DOMAIN f \ pinned
            BY <1>1, <2>3 DEF BoundInv, BoundedCache
        <3> QED
            BY <1>2, <1>3, <1>4, <2>1, <2>3, <3>1
    <2> QED
        BY <2>2, <2>3
<1> QED
    BY <1>1, <1>4, <1>6, <1>7, <1>8 DEF BoundInv, BoundedCache
-----------------------------------------------------------------------------
(* Where a step leaves the calls. *)

CallRow == [at : At, key : CacheKey, began : Revision, result : 0..MaxRev]

\* A call moves on with its key and its result.
LEMMA GotoMoves ==
    ASSUME TypeOK, NEW c \in Lookup, NEW a \in At, Goto(c, a)
    PROVE  /\ calls' \in [Lookup -> CallRow]
           /\ calls'[c].at = a /\ calls'[c].key = calls[c].key
           /\ calls'[c].began = calls[c].began /\ calls'[c].result = calls[c].result
           /\ \A d \in Lookup : d # c => calls'[d] = calls[d]
BY DEF TypeOK, Goto, CallRow

\* A call has its result.
LEMMA ReturnMoves ==
    ASSUME TypeOK, NEW c \in Lookup, NEW result \in Revision, Return(c, result)
    PROVE  /\ calls' \in [Lookup -> CallRow]
           /\ calls'[c].at \in {"repin", "returned"} /\ calls'[c].key = calls[c].key
           /\ calls'[c].began = calls[c].began /\ calls'[c].result = result
           /\ \A d \in Lookup : d # c => calls'[d] = calls[d]
<1>1. result \in 0..MaxRev /\ Done(c) \in {"repin", "returned"} /\ {"repin", "returned"} \subseteq At
    BY CacheAssumption DEF Revision, Done, At
<1> QED
    BY <1>1 DEF TypeOK, Return, CallRow

\* A call takes the revision of this moment into its key.
LEMMA RekeyMoves ==
    ASSUME TypeOK, NEW c \in Lookup, NEW a \in At, NEW began \in Revision,
           calls' = [calls EXCEPT ![c].at = a, ![c].key.revision = revision, ![c].began = began]
    PROVE  /\ calls' \in [Lookup -> CallRow]
           /\ calls'[c].at = a /\ calls'[c].key.revision = revision
           /\ calls'[c].began = began /\ calls'[c].result = calls[c].result
           /\ \A d \in Lookup : d # c => calls'[d] = calls[d]
<1>1. calls[c] \in CallRow
    BY DEF TypeOK, CallRow
<1>2. [calls[c].key EXCEPT !.revision = revision] \in CacheKey
    BY <1>1 DEF CallRow, CacheKey, TypeOK
<1> QED
    BY <1>1, <1>2 DEF TypeOK, CallRow, CacheKey

LEMMA SearchMoves ==
    ASSUME TypeOK, NEW c \in Lookup, Search(c)
    PROVE  /\ calls' \in [Lookup -> CallRow]
           /\ calls'[c].at = (IF redis THEN "share" ELSE "store") /\ calls'[c].key = calls[c].key
           /\ calls'[c].began = calls[c].began /\ calls'[c].result = revision
           /\ \A d \in Lookup : d # c => calls'[d] = calls[d]
<1>1. revision \in 0..MaxRev /\ (IF redis THEN "share" ELSE "store") \in At
    BY CacheAssumption DEF TypeOK, Revision, At
<1> QED
    BY <1>1 DEF TypeOK, Search, CallRow

\* What L2 gives for a key is no older than the key.
LEMMA L2IsFresh ==
    ASSUME TypeOK, FreshInv, NEW k \in CacheKey, NEW result \in InL2(k)
    PROVE  result \in Revision /\ k.revision <= result
<1>1. CASE k \in DOMAIN shared /\ result = shared[k]
    BY <1>1 DEF TypeOK, FreshInv
<1>2. CASE result \in k.revision..revision
    BY <1>2, CacheAssumption DEF TypeOK, Revision, CacheKey
<1> QED
    BY <1>1, <1>2 DEF InL2
-----------------------------------------------------------------------------
(* Every step keeps the invariant. *)

LEMMA InitCacheInv == Init => CacheInv
<1> SUFFICES ASSUME Init PROVE CacheInv
    OBVIOUS
<1>1. DOMAIN data = {} /\ DOMAIN shared = {} /\ 1 \in Revision
    BY CacheAssumption DEF Init, Revision
<1>2. TypeOK
    BY <1>1, CacheAssumption DEF Init, TypeOK, NoResult, CacheKey, At
<1>3. FreshInv
    BY <1>1 DEF Init, FreshInv, Answered
<1>4. FlightInv
    BY DEF Init, FlightInv, OwnerAt
<1>5. BoundInv
    BY <1>1, FS_EmptySet, CacheAssumption DEF Init, BoundInv, BoundedCache
<1> QED
    BY <1>2, <1>3, <1>4, <1>5 DEF CacheInv

\* Steps that only move a call on: it neither becomes an owner nor gets a result.
LEMMA MoveKeeps ==
    ASSUME CacheInv, NEW c \in Lookup, NEW a \in At, Goto(c, a), UNCHANGED <<redis, revision, data, inflight, shared>>,
           pinned' = pinned \/ pinned' = pinned \cup ({EntryKey(c)} \cap DOMAIN data),
           calls[c].at \in OwnerAt <=> a \in OwnerAt,
           a \in Answered => calls[c].at \in Answered,
           a \notin {"l2", "share", "store"}
    PROVE  CacheInv'
<1>1. /\ calls' \in [Lookup -> CallRow]
      /\ calls'[c].at = a /\ calls'[c].key = calls[c].key
      /\ calls'[c].began = calls[c].began /\ calls'[c].result = calls[c].result
      /\ \A d \in Lookup : d # c => calls'[d] = calls[d]
    BY GotoMoves DEF CacheInv
<1>2. TypeOK'
    BY <1>1 DEF CacheInv, TypeOK, CallRow
<1>3. FreshInv'
    BY <1>1 DEF CacheInv, FreshInv
<1>4. FlightInv'
    BY <1>1 DEF CacheInv, FlightInv, EntryKey
<1>5. BoundInv'
    BY DEF CacheInv, BoundInv, BoundedCache
<1> QED
    BY <1>2, <1>3, <1>4, <1>5 DEF CacheInv

LEMMA BeginKeeps == ASSUME CacheInv, NEW c \in Lookup, Begin(c) PROVE CacheInv'
<1>1. /\ TypeOK /\ FreshInv /\ FlightInv /\ BoundInv /\ revision \in Revision /\ calls[c].at = "idle"
      /\ UNCHANGED <<redis, revision, data, inflight, pinned, shared>>
    BY DEF CacheInv, TypeOK, Begin
<1>2. /\ calls' \in [Lookup -> CallRow]
      /\ calls'[c].at = "drop" /\ calls'[c].key.revision = revision
      /\ calls'[c].began = revision /\ calls'[c].result = calls[c].result
      /\ \A d \in Lookup : d # c => calls'[d] = calls[d]
    <2>1. "drop" \in At
        BY DEF At
    <2>2. calls' = [calls EXCEPT ![c].at = "drop", ![c].key.revision = revision, ![c].began = revision]
        BY DEF Begin
    <2> QED
        BY <1>1, <2>1, <2>2, RekeyMoves
<1>3. TypeOK'
    BY <1>1, <1>2 DEF TypeOK, CallRow
<1>4. FreshInv'
    BY <1>1, <1>2 DEF FreshInv, Answered, Revision
<1>5. FlightInv'
    BY <1>1, <1>2 DEF FlightInv, OwnerAt, EntryKey
<1>6. BoundInv'
    BY <1>1 DEF BoundInv, BoundedCache
<1> QED
    BY <1>3, <1>4, <1>5, <1>6 DEF CacheInv

LEMMA RepinKeeps == ASSUME CacheInv, NEW c \in Lookup, Repin(c) PROVE CacheInv'
<1>1. /\ TypeOK /\ FreshInv /\ FlightInv /\ BoundInv /\ revision \in Revision /\ calls[c].at = "repin"
      /\ UNCHANGED <<redis, revision, data, inflight, pinned, shared>>
    BY DEF CacheInv, TypeOK, Repin
<1>2. calls[c] \in CallRow
    BY <1>1 DEF TypeOK, CallRow
<1>3. /\ calls' \in [Lookup -> CallRow]
      /\ calls'[c].at = "pin" /\ calls'[c].key.revision = revision
      /\ calls'[c].began = calls[c].began /\ calls'[c].result = calls[c].result
      /\ \A d \in Lookup : d # c => calls'[d] = calls[d]
    <2>1. "pin" \in At /\ calls[c].began \in Revision
        BY <1>2 DEF At, CallRow
    <2>2. calls' = [calls EXCEPT ![c].at = "pin", ![c].key.revision = revision, ![c].began = calls[c].began]
        BY <1>1, <1>2 DEF Repin, TypeOK, CallRow
    <2> QED
        BY <1>1, <2>1, <2>2, RekeyMoves
<1>4. TypeOK'
    BY <1>1, <1>3 DEF TypeOK, CallRow
<1>5. FreshInv'
    <2>1. /\ calls[c].began <= calls[c].key.revision /\ calls[c].key.revision <= revision
          /\ calls[c].began <= calls[c].result
        BY <1>1 DEF FreshInv, Answered
    <2>2. calls[c].began <= revision /\ revision <= revision
        BY <2>1, <1>1, <1>2, CacheAssumption DEF CallRow, CacheKey, Revision
    <2> QED
        BY <1>1, <1>3, <2>1, <2>2 DEF FreshInv, Answered
<1>6. FlightInv'
    BY <1>1, <1>3 DEF FlightInv, OwnerAt, EntryKey
<1>7. BoundInv'
    BY <1>1 DEF BoundInv, BoundedCache
<1> QED
    BY <1>4, <1>5, <1>6, <1>7 DEF CacheInv

\* Entries, and pins of entries, go, and a call may move on without having become an owner.
LEMMA DroppingKeeps ==
    ASSUME CacheInv, NEW K, data' = Without(data, K), pinned' = pinned \ K,
           UNCHANGED <<redis, revision, inflight, shared>>,
           UNCHANGED calls \/ \E c \in Lookup : calls[c].at = "drop" /\ Goto(c, "look")
    PROVE  CacheInv'
<1>1. /\ DOMAIN data' = DOMAIN data \ K /\ \A k \in DOMAIN data \ K : data'[k] = data[k]
    BY WithoutKeeps
<1>2. TypeOK /\ FreshInv /\ FlightInv /\ BoundInv
    BY DEF CacheInv
<1>3. \A c \in Lookup : "look" \in At /\ (calls[c].at = "drop" /\ Goto(c, "look") =>
              /\ calls' \in [Lookup -> CallRow]
              /\ calls'[c].at = "look" /\ calls'[c].key = calls[c].key
              /\ calls'[c].began = calls[c].began /\ calls'[c].result = calls[c].result
              /\ \A d \in Lookup : d # c => calls'[d] = calls[d])
    <2>1. "look" \in At
        BY DEF At
    <2> QED
        BY <1>2, <2>1, GotoMoves
<1>4. calls' \in [Lookup -> CallRow]
    BY <1>2, <1>3 DEF TypeOK, CallRow
<1>5. \A c \in Lookup :
        /\ calls'[c].key = calls[c].key /\ calls'[c].began = calls[c].began /\ calls'[c].result = calls[c].result
        /\ calls'[c].at = calls[c].at \/ (calls[c].at = "drop" /\ calls'[c].at = "look")
    BY <1>3
<1>6. TypeOK'
    BY <1>1, <1>2, <1>4 DEF TypeOK, CallRow
<1>7. FreshInv'
    BY <1>1, <1>2, <1>5 DEF FreshInv, Answered
<1>8. FlightInv'
    BY <1>2, <1>5 DEF FlightInv, EntryKey, OwnerAt
<1>9. BoundInv'
    <2>1. IsFiniteSet(DOMAIN data') /\ Cardinality(DOMAIN data') <= Cardinality(DOMAIN data)
          /\ Cardinality(DOMAIN data') \in Nat /\ Cardinality(DOMAIN data) \in Nat
        BY <1>1, <1>2, FS_Subset, FS_CardinalityType DEF BoundInv
    <2>2. ~redis => Cardinality(DOMAIN data') <= MaxEntries
        BY <1>2, <2>1, CacheAssumption DEF BoundInv, BoundedCache
    <2> QED
        BY <1>1, <1>2, <2>1, <2>2 DEF BoundInv, BoundedCache
<1> QED
    BY <1>6, <1>7, <1>8, <1>9 DEF CacheInv

\* A call that finds the entry, or the shared tier's, returns it.
LEMMA HitKeeps == ASSUME CacheInv, NEW c \in Lookup, Hit(c) PROVE CacheInv'
<1> PICK result : result = data[EntryKey(c)].result
    OBVIOUS
<1>1. /\ TypeOK /\ FreshInv /\ FlightInv /\ BoundInv /\ calls[c].at = "look"
      /\ Return(c, result) /\ EntryKey(c) \in DOMAIN data
      /\ UNCHANGED <<redis, revision, data, inflight, pinned, shared>>
    BY DEF CacheInv, Hit, Fresh
<1>2. calls[c] \in CallRow /\ result \in Revision
    BY <1>1 DEF TypeOK, CallRow
<1>3. /\ calls' \in [Lookup -> CallRow]
      /\ calls'[c].at \in {"repin", "returned"} /\ calls'[c].key = calls[c].key
      /\ calls'[c].began = calls[c].began /\ calls'[c].result = result
      /\ \A d \in Lookup : d # c => calls'[d] = calls[d]
    BY <1>1, <1>2, ReturnMoves
<1>4. calls[c].began <= result
    <2>1. calls[c].began <= calls[c].key.revision /\ calls[c].key.revision <= result
        BY <1>1 DEF FreshInv, EntryKey
    <2> QED
        BY <1>2, <2>1, CacheAssumption DEF CallRow, CacheKey, Revision
<1>5. TypeOK'
    BY <1>1, <1>3 DEF TypeOK, CallRow
<1>6. FreshInv'
    BY <1>1, <1>3, <1>4 DEF FreshInv, Answered
<1>7. FlightInv'
    BY <1>1, <1>3 DEF FlightInv, EntryKey, OwnerAt
<1>8. BoundInv'
    BY <1>1 DEF BoundInv, BoundedCache
<1> QED
    BY <1>5, <1>6, <1>7, <1>8 DEF CacheInv

LEMMA HitL2Keeps == ASSUME CacheInv, NEW c \in Lookup, HitL2(c) PROVE CacheInv'
<1>1. /\ TypeOK /\ FreshInv /\ FlightInv /\ BoundInv /\ calls[c].at = "l2"
      /\ UNCHANGED <<redis, revision, inflight, pinned, shared>>
    BY DEF CacheInv, HitL2
<1> PICK k : k = EntryKey(c)
    OBVIOUS
<1>2. PICK result \in InL2(k) : data' = With(data, k, Entry(result)) /\ Return(c, result)
    BY DEF HitL2
<1>3. calls[c] \in CallRow /\ k \in CacheKey
    BY <1>1 DEF TypeOK, CallRow, EntryKey
<1>4. result \in Revision /\ k.revision <= result
    BY <1>1, <1>2, <1>3, L2IsFresh
<1>5. /\ calls' \in [Lookup -> CallRow]
      /\ calls'[c].at \in {"repin", "returned"} /\ calls'[c].key = calls[c].key
      /\ calls'[c].began = calls[c].began /\ calls'[c].result = result
      /\ \A d \in Lookup : d # c => calls'[d] = calls[d]
    BY <1>1, <1>2, <1>4, ReturnMoves
<1>6. /\ DOMAIN data' = DOMAIN data \cup {k} /\ data'[k] = Entry(result)
      /\ \A j \in DOMAIN data : j # k => data'[j] = data[j]
    BY <1>2 DEF With
<1>7. Entry(result) \in [result : Revision, running : BOOLEAN] /\ Entry(result).result = result
    BY <1>4 DEF Entry
<1>8. TypeOK'
    BY <1>1, <1>3, <1>5, <1>6, <1>7 DEF TypeOK, CallRow
<1>9. FreshInv'
    <2>1. calls[c].began <= k.revision
        BY <1>1 DEF FreshInv, EntryKey
    <2>2. calls[c].began <= result
        BY <1>3, <1>4, <2>1, CacheAssumption DEF CallRow, CacheKey, Revision
    <2> QED
        BY <1>1, <1>4, <1>5, <1>6, <1>7, <2>2 DEF FreshInv, Answered
<1>10. redis
    BY <1>1 DEF FlightInv
<1>11. FlightInv'
    BY <1>1, <1>5, <1>10 DEF FlightInv, EntryKey, OwnerAt
<1>12. BoundInv'
    BY <1>1, <1>6, <1>10, FS_AddElement DEF BoundInv, BoundedCache
<1> QED
    BY <1>8, <1>9, <1>11, <1>12 DEF CacheInv

LEMMA OwnKeeps == ASSUME CacheInv, NEW c \in Lookup, Own(c) PROVE CacheInv'
<1> PICK a : a = IF redis THEN "l2" ELSE "search"
    OBVIOUS
<1>1. /\ TypeOK /\ FreshInv /\ FlightInv /\ BoundInv /\ calls[c].at = "look"
      /\ EntryKey(c) \notin inflight /\ inflight' = inflight \cup {EntryKey(c)} /\ Goto(c, a)
      /\ UNCHANGED <<redis, revision, data, pinned, shared>>
    BY DEF CacheInv, Own
<1>2. a \in At /\ a \in OwnerAt /\ a \notin Answered /\ a \notin {"share", "store"} /\ (a = "l2" => redis)
    BY DEF At, OwnerAt, Answered
<1>3. /\ calls' \in [Lookup -> CallRow]
      /\ calls'[c].at = a /\ calls'[c].key = calls[c].key
      /\ calls'[c].began = calls[c].began /\ calls'[c].result = calls[c].result
      /\ \A d \in Lookup : d # c => calls'[d] = calls[d]
    BY <1>1, <1>2, GotoMoves
<1>4. TypeOK'
    BY <1>1, <1>3 DEF TypeOK, CallRow, EntryKey
<1>5. FreshInv'
    BY <1>1, <1>2, <1>3 DEF FreshInv
<1>6. FlightInv'
    BY <1>1, <1>2, <1>3 DEF FlightInv, EntryKey
<1>7. BoundInv'
    BY <1>1 DEF BoundInv, BoundedCache
<1> QED
    BY <1>4, <1>5, <1>6, <1>7 DEF CacheInv

LEMMA SearchKeeps == ASSUME CacheInv, NEW c \in Lookup, Search(c) PROVE CacheInv'
<1>1. /\ TypeOK /\ FreshInv /\ FlightInv /\ BoundInv /\ calls[c].at = "search"
      /\ UNCHANGED <<redis, revision, data, inflight, pinned, shared>>
    BY DEF CacheInv, Search
<1>2. /\ calls' \in [Lookup -> CallRow]
      /\ calls'[c].at = (IF redis THEN "share" ELSE "store") /\ calls'[c].key = calls[c].key
      /\ calls'[c].began = calls[c].began /\ calls'[c].result = revision
      /\ \A d \in Lookup : d # c => calls'[d] = calls[d]
    BY <1>1, SearchMoves
<1>3. calls[c].began <= revision /\ calls[c].key.revision <= revision
    <2>1. calls[c].began <= calls[c].key.revision /\ calls[c].key.revision <= revision /\ calls[c] \in CallRow
        BY <1>1 DEF FreshInv, TypeOK, CallRow
    <2> QED
        BY <1>1, <2>1, CacheAssumption DEF CallRow, CacheKey, Revision, TypeOK
<1>4. TypeOK'
    BY <1>1, <1>2 DEF TypeOK, CallRow
<1>5. FreshInv'
    BY <1>1, <1>2, <1>3 DEF FreshInv
<1>6. FlightInv'
    BY <1>1, <1>2 DEF FlightInv, EntryKey, OwnerAt
<1>7. BoundInv'
    BY <1>1 DEF BoundInv, BoundedCache
<1> QED
    BY <1>4, <1>5, <1>6, <1>7 DEF CacheInv

\* The owner leaves, and takes its key out of flight: nobody else works on it.
LEMMA LeavingKeeps ==
    ASSUME CacheInv, NEW c \in Lookup, NEW a \in At \ OwnerAt, Goto(c, a), calls[c].at \in OwnerAt,
           inflight' = inflight \ {EntryKey(c)}, a \in Answered => calls[c].at \in Answered,
           UNCHANGED <<redis, revision, data, pinned, shared>>
    PROVE  CacheInv'
<1>1. TypeOK /\ FreshInv /\ FlightInv /\ BoundInv
    BY DEF CacheInv
<1>2. /\ calls' \in [Lookup -> CallRow]
      /\ calls'[c].at = a /\ calls'[c].key = calls[c].key
      /\ calls'[c].began = calls[c].began /\ calls'[c].result = calls[c].result
      /\ \A d \in Lookup : d # c => calls'[d] = calls[d]
    BY <1>1, GotoMoves
<1>3. TypeOK'
    BY <1>1, <1>2 DEF TypeOK, CallRow
<1>4. FreshInv'
    BY <1>1, <1>2 DEF FreshInv, OwnerAt
<1>5. FlightInv'
    <2>1. \A d \in Lookup : calls'[d].at \in OwnerAt => d # c /\ EntryKey(d) # EntryKey(c) /\ EntryKey(d)' = EntryKey(d)
        BY <1>1, <1>2 DEF FlightInv, EntryKey
    <2> QED
        BY <1>1, <1>2, <2>1 DEF FlightInv, EntryKey, OwnerAt
<1>6. BoundInv'
    BY <1>1 DEF BoundInv, BoundedCache
<1> QED
    BY <1>3, <1>4, <1>5, <1>6 DEF CacheInv

LEMMA ShareKeeps == ASSUME CacheInv, NEW c \in Lookup, Share(c) PROVE CacheInv'
<1>1. /\ TypeOK /\ FreshInv /\ FlightInv /\ BoundInv /\ calls[c].at = "share" /\ Goto(c, "store")
      /\ UNCHANGED <<redis, revision, data, inflight, pinned>>
      /\ "store" \in At
    BY DEF CacheInv, Share, At
<1>2. /\ calls' \in [Lookup -> CallRow]
      /\ calls'[c].at = "store" /\ calls'[c].key = calls[c].key
      /\ calls'[c].began = calls[c].began /\ calls'[c].result = calls[c].result
      /\ \A d \in Lookup : d # c => calls'[d] = calls[d]
    BY <1>1, GotoMoves
<1>3. calls[c].result \in Revision /\ EntryKey(c) \in CacheKey /\ EntryKey(c).revision <= calls[c].result
    <2>1. calls[c].key.revision <= calls[c].result /\ calls[c] \in CallRow
        BY <1>1 DEF FreshInv, TypeOK, CallRow
    <2> QED
        BY <2>1, CacheAssumption DEF CallRow, EntryKey, CacheKey, Revision
<1>4. ASSUME shared' = shared PROVE TypeOK' /\ FreshInv'
    <2>1. TypeOK'
        BY <1>1, <1>2, <1>4 DEF TypeOK, CallRow
    <2>2. FreshInv'
        BY <1>1, <1>2, <1>4 DEF FreshInv, Answered
    <2> QED
        BY <2>1, <2>2
<1>5. ASSUME shared' = With(shared, EntryKey(c), calls[c].result) PROVE TypeOK' /\ FreshInv'
    <2>1. /\ DOMAIN shared' = DOMAIN shared \cup {EntryKey(c)} /\ shared'[EntryKey(c)] = calls[c].result
          /\ \A j \in DOMAIN shared : j # EntryKey(c) => shared'[j] = shared[j]
        BY <1>5 DEF With
    <2>2. TypeOK'
        BY <1>1, <1>2, <1>3, <2>1 DEF TypeOK, CallRow
    <2>3. FreshInv'
        BY <1>1, <1>2, <1>3, <2>1 DEF FreshInv, Answered
    <2> QED
        BY <2>2, <2>3
<1>6. TypeOK' /\ FreshInv'
    BY <1>4, <1>5 DEF Share
<1>7. FlightInv'
    BY <1>1, <1>2 DEF FlightInv, EntryKey, OwnerAt
<1>8. BoundInv'
    BY <1>1 DEF BoundInv, BoundedCache
<1> QED
    BY <1>6, <1>7, <1>8 DEF CacheInv

LEMMA StoreKeeps == ASSUME CacheInv, NEW c \in Lookup, Store(c) PROVE CacheInv'
<1>1. /\ TypeOK /\ FreshInv /\ FlightInv /\ BoundInv /\ calls[c].at = "store" /\ Goto(c, "release")
      /\ UNCHANGED <<redis, revision, inflight, pinned, shared>>
      /\ "release" \in At
    BY DEF CacheInv, Store, At
<1>2. /\ calls' \in [Lookup -> CallRow]
      /\ calls'[c].at = "release" /\ calls'[c].key = calls[c].key
      /\ calls'[c].began = calls[c].began /\ calls'[c].result = calls[c].result
      /\ \A d \in Lookup : d # c => calls'[d] = calls[d]
    BY <1>1, GotoMoves
<1> PICK k : k = EntryKey(c)
    OBVIOUS
<1> PICK result : result = calls[c].result
    OBVIOUS
<1>3. result \in Revision /\ k \in CacheKey /\ k.revision <= result
    <2>1. calls[c].key.revision <= calls[c].result /\ calls[c] \in CallRow
        BY <1>1 DEF FreshInv, TypeOK, CallRow
    <2> QED
        BY <2>1, CacheAssumption DEF CallRow, EntryKey, CacheKey, Revision
<1> PICK f : f = With(data, k, Entry(result))
    OBVIOUS
<1>4. data' \in Evicting(f, pinned)
    BY DEF Store
<1> PICK g : g = data'
    OBVIOUS
<1>5. /\ DOMAIN g \subseteq CacheKey /\ \A j \in DOMAIN g : g[j] \in [result : Revision, running : BOOLEAN]
      /\ \A j \in DOMAIN g : j.revision <= g[j].result
      /\ IsFiniteSet(DOMAIN g) /\ pinned \subseteq DOMAIN g
      /\ ~redis => Cardinality(DOMAIN g) <= MaxEntries
    BY <1>1, <1>3, <1>4, StoringKeeps
<1>6. TypeOK'
    BY <1>1, <1>2, <1>5 DEF TypeOK, CallRow
<1>7. FreshInv'
    BY <1>1, <1>2, <1>5 DEF FreshInv, Answered
<1>8. FlightInv'
    BY <1>1, <1>2 DEF FlightInv, EntryKey, OwnerAt
<1>9. BoundInv'
    BY <1>1, <1>5 DEF BoundInv, BoundedCache
<1> QED
    BY <1>6, <1>7, <1>8, <1>9 DEF CacheInv

LEMMA UnpinKeeps == ASSUME CacheInv, NEW Q \in SUBSET Query, Unpin(Q) PROVE CacheInv'
<1> PICK kept : kept = {k \in pinned : k.query \notin Q}
    OBVIOUS
<1>1. /\ TypeOK /\ FreshInv /\ FlightInv /\ BoundInv /\ MaxEntries \in Nat
      /\ pinned' = kept /\ data' \in Evicting(data, kept)
      /\ UNCHANGED <<redis, revision, inflight, shared, calls>>
    BY CacheAssumption DEF CacheInv, Unpin
<1> PICK g : g = data'
    OBVIOUS
<1>2. kept \subseteq pinned /\ kept \subseteq DOMAIN data
    BY <1>1 DEF BoundInv, BoundedCache
<1>3. /\ DOMAIN g \subseteq DOMAIN data /\ DOMAIN data \cap kept \subseteq DOMAIN g
      /\ \A k \in DOMAIN g : g[k] = data[k]
      /\ IsFiniteSet(DOMAIN g)
      /\ Cardinality(DOMAIN data) <= MaxEntries => DOMAIN g = DOMAIN data
    BY <1>1, EvictingLeaves DEF BoundInv
<1>4. TypeOK'
    BY <1>1, <1>2, <1>3 DEF TypeOK
<1>5. FreshInv'
    BY <1>1, <1>3 DEF FreshInv
<1>6. FlightInv'
    BY <1>1 DEF FlightInv, EntryKey
<1>7. BoundInv'
    BY <1>1, <1>2, <1>3 DEF BoundInv, BoundedCache
<1> QED
    BY <1>4, <1>5, <1>6, <1>7 DEF CacheInv

LEMMA ExpireKeeps == ASSUME CacheInv, NEW k \in CacheKey, Expire(k) PROVE CacheInv'
<1>1. /\ TypeOK /\ FreshInv /\ FlightInv /\ BoundInv
      /\ UNCHANGED <<redis, revision, inflight, pinned, shared, calls>>
      /\ k \in DOMAIN data /\ data' = [data EXCEPT ![k].running = FALSE]
    BY DEF CacheInv, Expire, Fresh
<1>2. /\ DOMAIN data' = DOMAIN data
      /\ \A j \in DOMAIN data : data'[j] \in [result : Revision, running : BOOLEAN] /\ data'[j].result = data[j].result
    BY <1>1 DEF TypeOK
<1>3. TypeOK'
    BY <1>1, <1>2 DEF TypeOK
<1>4. FreshInv'
    BY <1>1, <1>2 DEF FreshInv
<1>5. FlightInv'
    BY <1>1 DEF FlightInv, EntryKey
<1>6. BoundInv'
    BY <1>1, <1>2 DEF BoundInv, BoundedCache
<1> QED
    BY <1>3, <1>4, <1>5, <1>6 DEF CacheInv

LEMMA WriteNamespaceKeeps == ASSUME CacheInv, WriteNamespace PROVE CacheInv'
<1>1. /\ TypeOK /\ FreshInv /\ FlightInv /\ BoundInv
      /\ UNCHANGED <<redis, data, inflight, pinned, shared, calls>>
      /\ revision \in Revision /\ revision < MaxRev /\ revision' = revision + 1
    BY DEF CacheInv, WriteNamespace, TypeOK
<1>2. revision' \in Revision /\ \A r \in Revision : r <= revision => r <= revision'
    BY <1>1, CacheAssumption DEF Revision
<1>3. \A c \in Lookup : calls[c].key.revision \in Revision
    BY <1>1 DEF TypeOK, CacheKey
<1>4. TypeOK'
    BY <1>1, <1>2 DEF TypeOK
<1>5. FreshInv'
    BY <1>1, <1>2, <1>3 DEF FreshInv
<1>6. FlightInv'
    BY <1>1 DEF FlightInv, EntryKey
<1>7. BoundInv'
    BY <1>1 DEF BoundInv, BoundedCache
<1> QED
    BY <1>4, <1>5, <1>6, <1>7 DEF CacheInv

LEMMA StepKeeps == ASSUME CacheInv, NEW c \in Lookup, Step(c) PROVE CacheInv'
<1>1. CASE DropStale(c)
    <2> PICK K : K = {k \in DOMAIN data : k.revision # EntryKey(c).revision}
        OBVIOUS
    <2>1. /\ data' = Without(data, K) /\ pinned' = pinned \ K
          /\ calls[c].at = "drop" /\ Goto(c, "look") /\ UNCHANGED <<redis, revision, inflight, shared>>
        BY <1>1 DEF DropStale
    <2> QED
        BY <2>1, DroppingKeeps
<1>2. CASE Wait(c)
    <2>1. "wait" \in At /\ "look" \notin OwnerAt /\ "wait" \notin OwnerAt /\ "wait" \notin Answered
        BY DEF At, OwnerAt, Answered
    <2> QED
        BY <1>2, <2>1, MoveKeeps DEF Wait
<1>3. CASE Wake(c)
    <2>1. "look" \in At /\ "look" \notin OwnerAt /\ "wait" \notin OwnerAt /\ "look" \notin Answered
        BY DEF At, OwnerAt, Answered
    <2> QED
        BY <1>3, <2>1, MoveKeeps DEF Wake
<1>4. CASE MissL2(c)
    <2>1. "search" \in At /\ "search" \in OwnerAt /\ "l2" \in OwnerAt /\ "search" \notin Answered
        BY DEF At, OwnerAt, Answered
    <2> QED
        BY <1>4, <2>1, MoveKeeps DEF MissL2
<1>5. CASE Pin(c)
    <2>1. "returned" \in At /\ "returned" \notin OwnerAt /\ "pin" \notin OwnerAt /\ "pin" \in Answered
        BY DEF At, OwnerAt, Answered
    <2> QED
        BY <1>5, <2>1, MoveKeeps DEF Pin
<1>6. CASE Raise(c)
    <2>1. "raised" \in At \ OwnerAt /\ "search" \in OwnerAt /\ "raised" \notin Answered
        BY DEF At, OwnerAt, Answered
    <2> QED
        BY <1>6, <2>1, LeavingKeeps DEF Raise
<1>7. CASE Release(c)
    <2>1. Done(c) \in At \ OwnerAt /\ "release" \in OwnerAt /\ "release" \in Answered
        BY DEF At, OwnerAt, Answered, Done
    <2> QED
        BY <1>7, <2>1, LeavingKeeps DEF Release
<1> QED
    BY <1>1, <1>2, <1>3, <1>4, <1>5, <1>6, <1>7, HitKeeps, OwnKeeps, HitL2Keeps, SearchKeeps, ShareKeeps,
       StoreKeeps, RepinKeeps DEF Step

LEMMA NextCacheInv == CacheInv /\ [Next]_vars => CacheInv'
<1> SUFFICES ASSUME CacheInv, [Next]_vars PROVE CacheInv'
    OBVIOUS
<1>1. ASSUME NEW Q \in SUBSET Query, Invalidate(Q) PROVE CacheInv'
    <2> PICK K : K = {k \in DOMAIN data : k.query \in Q}
        OBVIOUS
    <2>1. data' = Without(data, K) /\ pinned' = pinned \ K /\ UNCHANGED <<redis, revision, inflight, shared, calls>>
        BY <1>1 DEF Invalidate
    <2> QED
        BY <2>1, DroppingKeeps
<1>2. CASE UNCHANGED vars
    <2>1. UNCHANGED <<redis, revision, data, inflight, pinned, shared, calls>>
        BY <1>2 DEF vars
    <2> QED
        BY <2>1 DEF CacheInv, TypeOK, FreshInv, FlightInv, BoundInv, BoundedCache, EntryKey
<1> QED
    BY <1>1, <1>2, BeginKeeps, StepKeeps, UnpinKeeps, ExpireKeeps, WriteNamespaceKeeps DEF Next

-----------------------------------------------------------------------------
(* The theorems. *)

\* The invariant gives what is promised.
LEMMA InvGivesPromises == CacheInv => TypeOK /\ CacheIsSound
<1> SUFFICES ASSUME CacheInv PROVE TypeOK /\ CacheIsSound
    OBVIOUS
<1>1. TypeOK /\ FreshInv /\ FlightInv /\ BoundInv
    BY DEF CacheInv
<1>2. FreshResults
    <2> SUFFICES ASSUME NEW c \in Lookup, calls[c].at = "returned" PROVE calls[c].result >= calls[c].began
        BY DEF FreshResults
    <2>1. calls[c].began <= calls[c].result /\ calls[c] \in CallRow
        BY <1>1 DEF FreshInv, Answered, TypeOK, CallRow
    <2> QED
        BY <2>1, CacheAssumption DEF CallRow, Revision
<1>3. SingleFlight
    <2> SUFFICES ASSUME NEW k \in CacheKey
                 PROVE  /\ Cardinality(Owning(k)) <= 1
                        /\ Owning(k) # {} => k \in inflight
                        /\ k \in inflight /\ ~redis => Owning(k) # {}
        BY DEF SingleFlight
    <2>1. \A c, d \in Owning(k) : c = d
        BY <1>1 DEF FlightInv, Owning, OwnerAt
    <2>2. Cardinality(Owning(k)) <= 1
        <3>1. CASE Owning(k) = {}
            BY <3>1, FS_EmptySet
        <3>2. ASSUME NEW c \in Owning(k) PROVE Cardinality(Owning(k)) <= 1
            <4>1. Owning(k) = {c}
                BY <2>1, <3>2
            <4>2. Cardinality({c}) = 1
                BY FS_Singleton
            <4> QED
                BY <4>1, <4>2
        <3> QED
            BY <3>1, <3>2
    <2> QED
        BY <1>1, <2>2 DEF FlightInv, Owning, OwnerAt
<1> QED
    BY <1>1, <1>2, <1>3 DEF CacheIsSound, BoundInv

\* Every variable has its type.
THEOREM CacheTypeOK == Spec => []TypeOK
BY InitCacheInv, NextCacheInv, InvGivesPromises, PTL DEF Spec

\* No call returns what was computed before the last write it could have seen, one call
\* at most reads the backend for a key, nobody waits for an owner that left unless there
\* is a shared tier, and then the entries are within their bound.
THEOREM CacheKeepsItsPromises == Spec => []CacheIsSound
BY InitCacheInv, NextCacheInv, InvGivesPromises, PTL DEF Spec

=============================================================================
