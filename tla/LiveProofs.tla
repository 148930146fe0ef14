----------------------------- MODULE LiveProofs -----------------------------
(***************************************************************************)
(* What the components whose threads owe somebody an answer never do, for  *)
(* every value of the constants.                                           *)
(*                                                                         *)
(* batcher: the state and the accounts.  What makes them inductive: a      *)
(* request waits in the queue of its own key, so that the queues are       *)
(* disjoint; a new request is nowhere; the worker holds a batch only       *)
(* between _select and the end of _run; and of a batch in progress the     *)
(* requests before `next` are answered (BatchInv).                         *)
(* stream: a drain() that returned True saw its events delivered, since    *)
(* the queue holds the last ones and every event that left it was handled  *)
(* or is in flight (StreamInv).                                            *)
(***************************************************************************)
EXTENDS MCLive, SequenceTheorems, FiniteSetTheorems, TLAPS

-----------------------------------------------------------------------------
(* batcher *)

-----------------------------------------------------------------------------
(* Numbers and enumerations. *)

\* Every set of natural numbers that has an element has a least one.
LEMMA LeastNumber ==
    ASSUME NEW T, T \subseteq Nat, T # {}
    PROVE  \E x \in T : \A y \in T : x <= y
<1>1. PICK x \in T : \A y \in T : ~ (<<y, x>> \in OpToRel(<, Nat))
    BY WFMin, NatLessThanWellFounded
<1>2. \A y \in T : ~ (y < x)
    BY <1>1 DEF OpToRel
<1> QED
    BY <1>2

\* Min of the library, of numbers.
LEMMA MinIsLeast ==
    ASSUME NEW T, T \subseteq Nat, T # {}
    PROVE  Min(T) \in T /\ \A y \in T : Min(T) <= y
BY LeastNumber DEF Min

Monotone(p) == \A i, j \in DOMAIN p : i < j => p[i] < p[j]

\* A finite set of numbers can be listed in its order, and the list leaves nothing out.
LEMMA SetsCanBeListed ==
    ASSUME NEW L \in Nat, NEW K, K \subseteq 1..L
    PROVE  /\ IsFiniteSet(K) /\ Cardinality(K) \in Nat
           /\ \E p \in [1..Cardinality(K) -> K] : Monotone(p)
           /\ \A p \in [1..Cardinality(K) -> K] : Monotone(p) => \A k \in K : \E i \in 1..Cardinality(K) : p[i] = k
<1> DEFINE n == Cardinality(K)
           upto(j) == K \cap (1..j)
           rank == [j \in K |-> Cardinality(upto(j))]
<1>1. IsFiniteSet(K) /\ n \in Nat
    <2>1. IsFiniteSet(1..L)
        BY FS_Interval
    <2> QED
        BY <2>1, FS_Subset, FS_CardinalityType
<1>2. ASSUME NEW j \in K
      PROVE  IsFiniteSet(upto(j)) /\ Cardinality(upto(j)) \in Nat /\ Cardinality(upto(j)) <= n
    BY <1>1, FS_Subset, FS_CardinalityType
<1>3. ASSUME NEW j \in K
      PROVE  rank[j] \in 1..n
    <2>1. j \in upto(j)
        OBVIOUS
    <2>2. Cardinality(upto(j)) # 0
        BY <2>1, <1>2, FS_EmptySet
    <2> QED
        BY <2>2, <1>2, <1>1
<1>4. ASSUME NEW i \in K, NEW j \in K, i < j
      PROVE  rank[i] < rank[j]
    <2>1. upto(i) \subseteq upto(j) /\ j \in upto(j) /\ j \notin upto(i)
        BY <1>4
    <2>2. Cardinality(upto(i)) <= Cardinality(upto(j)) /\ Cardinality(upto(i)) # Cardinality(upto(j))
        BY <2>1, <1>2, FS_Subset
    <2> QED
        BY <2>2, <1>2
<1>5. rank \in [K -> 1..n] /\ \A i, j \in K : rank[i] = rank[j] => i = j
    <2>1. rank \in [K -> 1..n]
        BY <1>3
    <2>2. ASSUME NEW i \in K, NEW j \in K, rank[i] = rank[j]
          PROVE  i = j
        <3>1. ~(i < j) /\ ~(j < i)
            BY <2>2, <1>4, <1>3
        <3> QED
            BY <3>1
    <2> QED
        BY <2>1, <2>2
<1>6. IsFiniteSet(1..n) /\ Cardinality(1..n) = n
    BY <1>1, FS_Interval
<1>7. rank \in Surjection(K, 1..n)
    <2>1. rank \in Injection(K, 1..n)
        BY <1>5 DEF Injection, IsInjective
    <2> QED
        BY <2>1, <1>6, FS_Injection
<1>8. \E p \in [1..n -> K] : Monotone(p)
    <2> DEFINE p == [i \in 1..n |-> CHOOSE k \in K : rank[k] = i]
    <2>1. \A i \in 1..n : p[i] \in K /\ rank[p[i]] = i
        BY <1>7 DEF Surjection
    <2>2. ASSUME NEW i \in 1..n, NEW j \in 1..n, i < j
          PROVE  p[i] < p[j]
        <3>1. p[i] \in K /\ p[j] \in K /\ rank[p[i]] = i /\ rank[p[j]] = j
            BY <2>1
        <3> HIDE DEF p, rank
        <3>2. p[i] # p[j]
            BY <3>1, <2>2
        <3>3. ASSUME p[j] < p[i]
              PROVE  FALSE
            <4>1. rank[p[j]] < rank[p[i]]
                BY <3>3, <3>1, <1>4
            <4> QED
                BY <4>1, <3>1, <2>2
        <3>4. p[i] \in Nat /\ p[j] \in Nat
            <4>1. K \subseteq Nat
                OBVIOUS
            <4> QED
                BY <4>1, <3>1
        <3> QED
            BY <3>2, <3>3, <3>4
    <2>3. p \in [1..n -> K] /\ Monotone(p)
        BY <2>1, <2>2 DEF Monotone
    <2> QED
        BY <2>3
<1>9. ASSUME NEW p \in [1..n -> K], Monotone(p)
      PROVE  \A k \in K : \E i \in 1..n : p[i] = k
    <2>1. \A i, j \in 1..n : p[i] = p[j] => i = j
        <3> SUFFICES ASSUME NEW i \in 1..n, NEW j \in 1..n, p[i] = p[j]
                     PROVE  i = j
            OBVIOUS
        <3>1. p[i] \in 1..L /\ p[j] \in 1..L
            OBVIOUS
        <3>2. ~(i < j) /\ ~(j < i)
            BY <3>1, <1>9 DEF Monotone
        <3> QED
            BY <3>2
    <2>2. p \in Injection(1..n, K)
        BY <2>1 DEF Injection, IsInjective
    <2>3. p \in Surjection(1..n, K)
        BY <2>2, <1>1, <1>6, FS_Injection
    <2> QED
        BY <2>3 DEF Surjection
<1> QED
    BY <1>1, <1>8, <1>9

-----------------------------------------------------------------------------
(* Queues: what popping, appending and filtering leave. *)

\* The first n elements of a queue and the rest are its elements, each once.
LEMMA SplitQueue ==
    ASSUME NEW q \in Seq(Request), IsInjective(q), NEW n \in 0..Len(q)
    PROVE  LET a == SubSeq(q, 1, n)
               b == SubSeq(q, n + 1, Len(q))
           IN  /\ a \in Seq(Request) /\ b \in Seq(Request) /\ IsInjective(a) /\ IsInjective(b)
               /\ Len(a) = n /\ Range(a) \subseteq Range(q) /\ Range(b) = Range(q) \ Range(a)
               /\ \A i \in 1..n : a[i] = q[i]
               /\ IsFiniteSet(Range(a)) /\ Cardinality(Range(a)) = n
<1> DEFINE a == SubSeq(q, 1, n)
           b == SubSeq(q, n + 1, Len(q))
<1>1. /\ a \in Seq(Request) /\ Len(a) = n /\ DOMAIN a = 1..n
      /\ \A i \in 1..n : a[i] = q[i] /\ q[i] \in Request
    OBVIOUS
<1>2. /\ b \in Seq(Request) /\ DOMAIN b = 1..(Len(q) - n)
      /\ \A i \in 1..(Len(q) - n) : b[i] = q[n + i]
    OBVIOUS
<1> HIDE DEF a, b
<1>3. IsInjective(a) /\ Range(a) = {q[i] : i \in 1..n}
    BY <1>1 DEF IsInjective, Range
<1>4. IsInjective(b) /\ Range(b) = {q[i] : i \in (n + 1)..Len(q)}
    <2>1. IsInjective(b)
        <3> SUFFICES ASSUME NEW i \in 1..(Len(q) - n), NEW j \in 1..(Len(q) - n), b[i] = b[j]
                     PROVE  i = j
            BY <1>2 DEF IsInjective
        <3>1. n + i \in 1..Len(q) /\ n + j \in 1..Len(q)
            OBVIOUS
        <3>2. q[n + i] = q[n + j]
            BY <1>2
        <3>3. n + i = n + j
            BY <3>1, <3>2 DEF IsInjective
        <3> QED
            BY <3>3
    <2>2. ASSUME NEW i \in (n + 1)..Len(q)
          PROVE  q[i] \in Range(b)
        <3>1. i - n \in 1..(Len(q) - n) /\ n + (i - n) = i
            OBVIOUS
        <3> QED
            BY <3>1, <1>2 DEF Range
    <2>3. ASSUME NEW j \in 1..(Len(q) - n)
          PROVE  b[j] \in {q[i] : i \in (n + 1)..Len(q)}
        <3>1. n + j \in (n + 1)..Len(q)
            OBVIOUS
        <3> QED
            BY <3>1, <1>2
    <2>4. Range(b) = {b[j] : j \in 1..(Len(q) - n)}
        BY <1>2 DEF Range
    <2> QED
        BY <2>1, <2>2, <2>3, <2>4
<1>5. Range(q) = {q[i] : i \in 1..Len(q)} /\ \A i, j \in 1..Len(q) : q[i] = q[j] => i = j
    BY DEF Range, IsInjective
<1>6. Range(a) \subseteq Range(q) /\ Range(b) = Range(q) \ Range(a)
    <2>1. Range(a) \cup Range(b) = Range(q)
        BY <1>3, <1>4, <1>5
    <2>2. Range(a) \cap Range(b) = {}
        BY <1>3, <1>4, <1>5
    <2> QED
        BY <2>1, <2>2
<1>7. IsFiniteSet(Range(a)) /\ Cardinality(Range(a)) = n
    <2>1. IsFiniteSet(1..n) /\ Cardinality(1..n) = n
        BY FS_Interval
    <2>2. a \in [1..n -> Range(a)]
        BY <1>1, <1>3
    <2>3. a \in Surjection(1..n, Range(a)) /\ a \in Injection(1..n, Range(a))
        BY <2>2, <1>1, <1>3 DEF Surjection, Injection, Range
    <2> QED
        BY <2>1, <2>3, FS_Surjection
<1> QED
    BY <1>1, <1>2, <1>3, <1>4, <1>6, <1>7 DEF a, b

\* The head of a queue and its tail, likewise.
LEMMA PopQueue ==
    ASSUME NEW q \in Seq(Request), IsInjective(q), q # <<>>
    PROVE  /\ Head(q) \in Range(q) /\ Head(q) \in Request
           /\ Tail(q) \in Seq(Request) /\ IsInjective(Tail(q))
           /\ Range(Tail(q)) = Range(q) \ {Head(q)}
<1>1. /\ Head(q) = q[1] /\ Len(q) \in Nat \ {0} /\ 1 \in DOMAIN q /\ q[1] \in Request
      /\ Tail(q) \in Seq(Request) /\ Len(Tail(q)) = Len(q) - 1
      /\ \A i \in 1..(Len(q) - 1) : Tail(q)[i] = q[i + 1]
    OBVIOUS
<1>2. DOMAIN Tail(q) = 1..(Len(q) - 1) /\ DOMAIN q = 1..Len(q)
    BY <1>1
<1>3. IsInjective(Tail(q))
    BY <1>1, <1>2 DEF IsInjective
<1>4. Head(q) \in Range(q)
    BY <1>1 DEF Range
<1>5. Range(Tail(q)) \subseteq Range(q) \ {Head(q)}
    BY <1>1, <1>2 DEF IsInjective, Range
<1>6. ASSUME NEW i \in 1..Len(q), q[i] # q[1]
      PROVE  q[i] \in Range(Tail(q))
    <2>1. i - 1 \in 1..(Len(q) - 1) /\ (i - 1) + 1 = i
        BY <1>6
    <2> QED
        BY <2>1, <1>1, <1>2 DEF Range
<1>7. Range(q) \ {Head(q)} \subseteq Range(Tail(q))
    BY <1>1, <1>2, <1>6 DEF Range
<1> QED
    BY <1>1, <1>3, <1>4, <1>5, <1>7

\* A request that is not queued yet.
LEMMA AppendQueue ==
    ASSUME NEW q \in Seq(Request), IsInjective(q), NEW r \in Request, r \notin Range(q)
    PROVE  Append(q, r) \in Seq(Request) /\ IsInjective(Append(q, r)) /\ Range(Append(q, r)) = Range(q) \cup {r}
<1> DEFINE t == Append(q, r)
<1>1. t \in Seq(Request) /\ DOMAIN t = 1..(Len(q) + 1) /\ DOMAIN q = 1..Len(q) /\ Len(q) \in Nat
    OBVIOUS
<1>2. (\A i \in 1..Len(q) : t[i] = q[i]) /\ t[Len(q) + 1] = r
    OBVIOUS
<1> HIDE DEF t
<1>3. \A i \in 1..(Len(q) + 1) : i \in 1..Len(q) \/ i = Len(q) + 1
    BY <1>1
<1>4. \A i \in 1..Len(q) : q[i] # r
    BY <1>1 DEF Range
<1>5. IsInjective(t)
    BY <1>1, <1>2, <1>3, <1>4 DEF IsInjective
<1>6. Range(t) = Range(q) \cup {r}
    BY <1>1, <1>2, <1>3 DEF Range
<1> QED
    BY <1>1, <1>5, <1>6 DEF t

Kept(s) == {i \in DOMAIN s : future[s[i]] # "cancelled"}

\* Filtering keeps the requests that are not cancelled, all of them and no other.
LEMMA LiveKeeps ==
    ASSUME NEW s \in Seq(Request)
    PROVE  /\ Live(s) \in Seq(Request) /\ Len(Live(s)) = Cardinality(Kept(s))
           /\ Range(Live(s)) = {r \in Range(s) : future[r] # "cancelled"}
           /\ IsFiniteSet(Kept(s)) /\ Cardinality(Kept(s)) \in Nat
<1> DEFINE K == Kept(s)
           n == Cardinality(K)
           pos == CHOOSE p \in [1..n -> K] : \A i, j \in DOMAIN p : i < j => p[i] < p[j]
<1>1. Len(s) \in Nat /\ DOMAIN s = 1..Len(s) /\ \A i \in 1..Len(s) : s[i] \in Request
    OBVIOUS
<1>2. K \subseteq 1..Len(s)
    BY <1>1 DEF Kept
<1>3. /\ IsFiniteSet(K) /\ n \in Nat
      /\ \E p \in [1..n -> K] : Monotone(p)
      /\ \A p \in [1..n -> K] : Monotone(p) => \A k \in K : \E i \in 1..n : p[i] = k
    BY <1>1, <1>2, SetsCanBeListed
<1>4. pos \in [1..n -> K] /\ Monotone(pos)
    BY <1>3 DEF Monotone
<1>5. Live(s) = [i \in 1..n |-> s[pos[i]]]
    BY <1>4 DEF Live, Kept
<1> HIDE DEF pos
<1>6. \A i \in 1..n : pos[i] \in K /\ pos[i] \in 1..Len(s)
    BY <1>4, <1>2
<1>7. Live(s) \in Seq(Request) /\ Len(Live(s)) = n
    BY <1>1, <1>3, <1>5, <1>6
<1>8. Range(Live(s)) = {s[k] : k \in K}
    <2>1. Range(Live(s)) = {s[pos[i]] : i \in 1..n}
        BY <1>5 DEF Range
    <2>2. \A k \in K : \E i \in 1..n : pos[i] = k
        BY <1>3, <1>4
    <2> HIDE DEF K, n
    <2> QED
        BY <2>1, <2>2, <1>6
<1>9. {s[k] : k \in K} = {r \in Range(s) : future[r] # "cancelled"}
    BY DEF Kept, Range
<1> QED
    BY <1>3, <1>7, <1>8, <1>9

\* The popping loop ends within the queue, with no more than MaxBatch live requests.
LEMMA TakenIsBounded ==
    ASSUME NEW k \in Key, queues[k] \in Seq(Request), queues[k] # <<>>
    PROVE  /\ Taken(k) \in 1..Len(queues[k])
           /\ Cardinality(Kept(SubSeq(queues[k], 1, Taken(k)))) <= MaxBatch
<1> DEFINE q == queues[k]
           kept(n) == {i \in 1..n : future[q[i]] # "cancelled"}
           live(n) == Cardinality(kept(n))
           full == {n \in DOMAIN q : live(n) = MaxBatch}
<1>1. Len(q) \in Nat \ {0} /\ DOMAIN q = 1..Len(q) /\ MaxBatch \in Nat \ {0}
    BY BatcherAssumption
<1>2. Taken(k) = Min(full \cup {Len(q)})
    BY DEF Taken
<1>3. ASSUME NEW n \in Nat
      PROVE  IsFiniteSet(kept(n)) /\ live(n) \in Nat
    <2>1. IsFiniteSet(1..n) /\ kept(n) \in SUBSET (1..n)
        BY FS_Interval
    <2> QED
        BY <2>1, FS_Subset, FS_CardinalityType
<1>4. live(0) = 0
    <2>1. kept(0) = {}
        OBVIOUS
    <2> QED
        BY <2>1, FS_EmptySet
<1>5. ASSUME NEW n \in Nat \ {0}
      PROVE  live(n) <= live(n - 1) + 1 /\ n - 1 \in Nat
    <2>1. n - 1 \in Nat /\ 1..n = (1..(n - 1)) \cup {n}
        OBVIOUS
    <2>2. kept(n) = kept(n - 1) \/ kept(n) = kept(n - 1) \cup {n}
        BY <2>1
    <2>3. IsFiniteSet(kept(n - 1)) /\ live(n - 1) \in Nat
        BY <2>1, <1>3
    <2> HIDE DEF kept
    <2>4. Cardinality(kept(n - 1) \cup {n}) \in {live(n - 1), live(n - 1) + 1}
        BY <2>3, FS_AddElement
    <2>5. live(n) \in {live(n - 1), live(n - 1) + 1}
        BY <2>2, <2>4
    <2> HIDE DEF live
    <2> QED
        BY <2>1, <2>3, <2>5
<1> HIDE DEF kept, q
<1>6. /\ Taken(k) \in full \cup {Len(q)} /\ Taken(k) \in 1..Len(q)
      /\ \A n \in full : Taken(k) <= n
    <2>1. full \cup {Len(q)} \subseteq 1..Len(q) /\ full \cup {Len(q)} # {}
        BY <1>1
    <2>2. full \cup {Len(q)} \subseteq Nat
        BY <2>1
    <2> QED
        BY <2>1, <2>2, <1>2, MinIsLeast
<1>7. live(Taken(k)) <= MaxBatch
    <2>1. CASE Taken(k) \in full
        BY <2>1, <1>1
    <2>2. CASE Taken(k) \notin full
        <3>1. Taken(k) = Len(q) /\ full = {}
            BY <2>2, <1>6, <1>1
        <3>2. SUFFICES ASSUME live(Len(q)) > MaxBatch
                       PROVE  FALSE
            BY <3>1, <1>1, <1>3
        <3> DEFINE over == {n \in 0..Len(q) : live(n) > MaxBatch}
        <3>3. PICK n \in over : \A m \in over : n <= m
            <4>1. over \subseteq Nat /\ Len(q) \in over
                BY <3>2, <1>1
            <4> QED
                BY <4>1, LeastNumber
        <3>4. n \in Nat \ {0} /\ n \in 1..Len(q)
            BY <1>4, <1>1, <3>3
        <3>5. n - 1 \in 0..Len(q) /\ n - 1 \notin over
            BY <3>3, <3>4, <1>1
        <3>6. live(n) <= live(n - 1) + 1 /\ live(n - 1) \in Nat /\ live(n) \in Nat
            BY <3>4, <3>5, <1>5, <1>3
        <3>7. live(n - 1) <= MaxBatch /\ live(n) > MaxBatch
            BY <3>3, <3>5, <3>6, <1>1
        <3>8. live(n - 1) = MaxBatch
            BY <3>6, <3>7, <1>1
        <3>9. n - 1 \in 1..Len(q)
            <4>1. n - 1 # 0
                BY <3>8, <1>4, <1>1
            <4> QED
                BY <4>1, <3>5, <3>4, <1>1
        <3>10. n - 1 \in full
            BY <3>8, <3>9, <1>1
        <3> QED
            BY <3>10, <3>1
    <2> QED
        BY <2>1, <2>2
<1>8. Kept(SubSeq(queues[k], 1, Taken(k))) = kept(Taken(k))
    <2>1. /\ DOMAIN SubSeq(queues[k], 1, Taken(k)) = 1..Taken(k)
          /\ \A i \in 1..Taken(k) : SubSeq(queues[k], 1, Taken(k))[i] = queues[k][i]
        BY <1>6 DEF q
    <2> QED
        BY <2>1 DEF Kept, kept, q
<1> QED
    BY <1>6, <1>7, <1>8 DEF q

-----------------------------------------------------------------------------
(* The inductive invariant. *)

\* Every queue holds requests of its key, each once: the queues are disjoint.
Filed(Q) ==
    /\ Q \in [Key -> Seq(Request)]
    /\ \A k \in Key : IsInjective(Q[k]) /\ \A r \in Range(Q[k]) : KeyOf[r] = k

\* What the accounts say, once it is known where requests wait.
Accounts ==
    /\ Filed(queues)
    /\ QueuedIsExact
    /\ OpenRequestsAreHeld
    /\ \A r \in Request : future[r] = "new" => r \notin Queued \cup Range(batch)

\* What the worker holds, and how far it is.
WorkerInv ==
    /\ worker \in {"idle", "scan", "exited"} => batch = <<>>
    /\ worker \in {"deliver", "fail"} =>
         next <= Len(batch) + 1 /\ \A i \in 1..(next - 1) : future[batch[i]] # "pending"

BatcherInv == TypeOK /\ Accounts /\ WorkerInv

\* What no step but submit() does to a future.
Closes == \A r \in Request : /\ future'[r] = "pending" => future[r] = "pending"
                             /\ future'[r] = "new" => future[r] = "new"

LEMMA RequestsAreFinite ==
    ASSUME NEW S, S \subseteq Request
    PROVE  IsFiniteSet(S) /\ Cardinality(S) \in Nat
<1>1. IsFiniteSet(Request)
    BY BatcherAssumption, FS_Interval DEF Request
<1> QED
    BY <1>1, FS_Subset, FS_CardinalityType

LEMMA QueuedAreRequests ==
    ASSUME Filed(queues)
    PROVE  Queued \subseteq Request /\ IsFiniteSet(Queued) /\ Cardinality(Queued) \in Nat
<1>1. \A k \in Key : Range(queues[k]) \subseteq Request
    BY DEF Filed, Range
<1>2. Queued \subseteq Request
    BY <1>1 DEF Queued
<1> QED
    BY <1>2, RequestsAreFinite

\* A step that takes the requests G out of their queues keeps the accounts, if it counts
\* them and if it keeps in the batch what it does not answer.
LEMMA TakingOut ==
    ASSUME TypeOK, Accounts, NEW G, G \subseteq Queued,
           queues' \in [Key -> Seq(Request)],
           \A k \in Key : IsInjective(queues'[k]) /\ Range(queues'[k]) = Range(queues[k]) \ G,
           queued' = queued - Cardinality(G),
           Range(batch') \subseteq Range(batch) \cup G,
           Closes,
           \A r \in Range(batch) \cup G : r \in Request /\ future'[r] = "pending" => r \in Range(batch')
    PROVE  Accounts' /\ queued' \in Nat
<1>1. Queued' = Queued \ G
    BY DEF Queued
<1>2. Filed(queues')
    BY DEF Filed, Accounts
<1>3. /\ Queued \subseteq Request /\ IsFiniteSet(Queued) /\ Cardinality(Queued) \in Nat
      /\ IsFiniteSet(G) /\ Cardinality(G) \in Nat
    BY QueuedAreRequests, RequestsAreFinite, FS_Subset DEF Accounts
<1>4. Cardinality(Queued') = Cardinality(Queued) - Cardinality(G) /\ Cardinality(Queued') \in Nat
    <2>1. Queued \cap G = G
        OBVIOUS
    <2>2. Cardinality(Queued \ G) = Cardinality(Queued) - Cardinality(G)
        BY <2>1, <1>3, FS_Difference
    <2>3. Cardinality(Queued \ G) \in Nat
        BY <1>3, FS_Difference, FS_CardinalityType
    <2> QED
        BY <2>2, <2>3, <1>1
<1>5. queued' = Cardinality(Queued') /\ queued' <= MaxQueue /\ queued' \in Nat
    BY <1>3, <1>4, BatcherAssumption DEF Accounts, QueuedIsExact
<1>6. ASSUME NEW r \in Request, future'[r] = "pending"
      PROVE  r \in Queued' \cup Range(batch')
    <2>1. r \in Queued \cup Range(batch)
        BY <1>6 DEF Closes, Accounts, OpenRequestsAreHeld
    <2> QED
        BY <2>1, <1>1, <1>6
<1>7. Queued' \cap Range(batch') = {}
    BY <1>1 DEF Accounts, OpenRequestsAreHeld
<1>8. ASSUME NEW r \in Request, future'[r] = "new"
      PROVE  r \notin Queued' \cup Range(batch')
    <2>1. r \notin Queued \cup Range(batch)
        BY <1>8 DEF Closes, Accounts
    <2> QED
        BY <2>1, <1>1
<1> QED
    BY <1>2, <1>5, <1>6, <1>7, <1>8 DEF Accounts, QueuedIsExact, OpenRequestsAreHeld

\* A step that leaves the queues alone.
LEMMA LeavingQueues ==
    ASSUME TypeOK, Accounts, UNCHANGED <<queues, queued>>,
           Range(batch') \subseteq Range(batch),
           Closes,
           \A r \in Range(batch) : r \in Request /\ future'[r] = "pending" => r \in Range(batch')
    PROVE  Accounts'
<1>1. Cardinality({}) = 0 /\ queued \in Nat
    BY FS_EmptySet DEF TypeOK
<1>2. queued' = queued - Cardinality({})
    BY <1>1
<1> QED
    BY <1>2, TakingOut DEF Accounts, Filed

LEMMA InitBatcherInv == Init => BatcherInv
<1> SUFFICES ASSUME Init PROVE BatcherInv
    OBVIOUS
<1>1. /\ Range(<<>>) = {} /\ IsInjective(<<>>) /\ <<>> \in Seq(Request) /\ Len(<<>>) = 0
    BY DEF Range, IsInjective
<1>2. Queued = {}
    BY <1>1 DEF Init, Queued
<1>3. TypeOK
    <2>1. 0 <= MaxBatch /\ 1 \in 1..(MaxBatch + 1)
        BY BatcherAssumption
    <2>2. "new" \in Future /\ "modelError" \in Failure /\ "idle" \in Worker
        BY DEF Future, Failure, Worker
    <2> QED
        BY <1>1, <2>1, <2>2 DEF Init, TypeOK
<1>4. Accounts
    <2>1. Filed(queues)
        BY <1>1 DEF Init, Filed
    <2>2. QueuedIsExact
        BY <1>2, FS_EmptySet, BatcherAssumption DEF Init, QueuedIsExact
    <2>3. OpenRequestsAreHeld
        BY <1>1, <1>2 DEF Init, OpenRequestsAreHeld
    <2> QED
        BY <1>1, <1>2, <2>1, <2>2, <2>3 DEF Init, Accounts
<1>5. WorkerInv
    BY DEF Init, WorkerInv
<1> QED
    BY <1>3, <1>4, <1>5 DEF BatcherInv

-----------------------------------------------------------------------------
(* Callers. *)

LEMMA SubmitKeepsInv ==
    ASSUME BatcherInv, NEW r \in Request, Submit(r)
    PROVE  BatcherInv'
<1> DEFINE k == KeyOf[r]
<1>1. k \in Key /\ future \in [Request -> Future] /\ Filed(queues) /\ queued \in Nat /\ r \notin Queued \cup Range(batch)
    BY BatcherAssumption DEF BatcherInv, TypeOK, Accounts, Submit
<1>2. UNCHANGED <<stopping, worker, scanned, batch, next, failure, ripe, expired>> /\ future[r] = "new"
    BY DEF Submit
<1>3. \E how \in {"rejected", "pending"} : future' = [future EXCEPT ![r] = how]
    BY DEF Submit, Complete
<1>4. \A x \in Request : x # r => future'[x] = future[x]
    BY <1>1, <1>3
<1>5. future'[r] \in {"rejected", "pending"}
    BY <1>1, <1>3
<1>6. WorkerInv'
    <2>1. \A i \in DOMAIN batch : batch[i] # r
        BY <1>1 DEF Range
    <2>2. \A i \in DOMAIN batch : batch[i] \in Request
        BY DEF BatcherInv, TypeOK
    <2>3. \A i \in DOMAIN batch : future'[batch[i]] = future[batch[i]]
        BY <2>1, <2>2, <1>4
    <2>4. next \in Nat /\ Len(batch) \in Nat /\ DOMAIN batch = 1..Len(batch)
        BY BatcherAssumption DEF BatcherInv, TypeOK
    <2> QED
        BY <2>3, <2>4, <1>2 DEF BatcherInv, WorkerInv
<1>7. CASE stopping \/ queued >= MaxQueue
    <2>1. future' = [future EXCEPT ![r] = "rejected"] /\ UNCHANGED <<queues, queued>>
        BY <1>7 DEF Submit, Complete
    <2>2. Closes
        BY <2>1, <1>1 DEF Closes
    <2>3. Accounts'
        BY <2>1, <2>2, <1>2, <1>4, <1>5, LeavingQueues DEF BatcherInv, Closes, Accounts, OpenRequestsAreHeld
    <2>4. TypeOK'
        BY <2>1, <1>2 DEF BatcherInv, TypeOK, Future
    <2> QED
        BY <2>3, <2>4, <1>6 DEF BatcherInv
<1>8. CASE ~(stopping \/ queued >= MaxQueue)
    <2>1. /\ future' = [future EXCEPT ![r] = "pending"]
          /\ queues' = [queues EXCEPT ![k] = Append(queues[k], r)]
          /\ queued' = queued + 1
        BY <1>8 DEF Submit, Complete
    <2>2. queues[k] \in Seq(Request) /\ IsInjective(queues[k]) /\ r \notin Range(queues[k])
        BY <1>1 DEF Filed, Queued
    <2>3. /\ Append(queues[k], r) \in Seq(Request) /\ IsInjective(Append(queues[k], r))
          /\ Range(Append(queues[k], r)) = Range(queues[k]) \cup {r}
        BY <2>2, AppendQueue
    <2>4. /\ queues' \in [Key -> Seq(Request)]
          /\ queues'[k] = Append(queues[k], r)
          /\ \A other \in Key : other # k => queues'[other] = queues[other]
        BY <2>1, <2>3, <1>1 DEF Filed
    <2>5. Queued' = Queued \cup {r}
        <3>1. \A other \in Key : Range(queues'[other]) = IF other = k THEN Range(queues[k]) \cup {r} ELSE Range(queues[other])
            BY <2>3, <2>4
        <3> QED
            BY <3>1, <1>1 DEF Queued
    <2>6. Filed(queues')
        BY <2>3, <2>4, <1>1 DEF Filed
    <2>7. QueuedIsExact'
        <3>1. IsFiniteSet(Queued) /\ Cardinality(Queued) \in Nat
            BY <1>1, QueuedAreRequests
        <3>2. Cardinality(Queued') = Cardinality(Queued) + 1
            BY <2>5, <3>1, <1>1, FS_AddElement
        <3> QED
            BY <3>1, <3>2, <2>1, <1>1, <1>8, BatcherAssumption DEF BatcherInv, Accounts, QueuedIsExact
    <2>8. OpenRequestsAreHeld'
        BY <2>5, <2>3, <2>4, <1>1, <1>2, <1>4 DEF BatcherInv, Accounts, OpenRequestsAreHeld
    <2>9. \A x \in Request : future'[x] = "new" => x \notin Queued' \cup Range(batch')
        BY <2>5, <1>2, <1>4, <1>5 DEF BatcherInv, Accounts
    <2>10. TypeOK'
        BY <2>1, <2>4, <1>1, <1>2 DEF BatcherInv, TypeOK, Future
    <2> QED
        BY <2>6, <2>7, <2>8, <2>9, <2>10, <1>6 DEF BatcherInv, Accounts
<1> QED
    BY <1>7, <1>8

\* What the worker holds does not change, nor how far it is.
LEMMA WorkerStays ==
    ASSUME BatcherInv, Closes, UNCHANGED <<batch, next>>,
           worker' \in {"idle", "scan", "exited"} => batch = <<>>,
           worker' \in {"deliver", "fail"} => worker' = worker
    PROVE  WorkerInv'
<1>1. \A i \in DOMAIN batch : batch[i] \in Request
    BY DEF BatcherInv, TypeOK
<1>2. next \in Nat /\ Len(batch) \in Nat /\ DOMAIN batch = 1..Len(batch)
    BY BatcherAssumption DEF BatcherInv, TypeOK
<1> QED
    BY <1>1, <1>2 DEF BatcherInv, WorkerInv, Closes

LEMMA CancelKeepsInv ==
    ASSUME BatcherInv, NEW r \in Request, Cancel(r)
    PROVE  BatcherInv'
<1>1. /\ future' = [future EXCEPT ![r] = "cancelled"] /\ future \in [Request -> Future]
      /\ UNCHANGED <<queues, queued, stopping, worker, scanned, batch, next, failure, ripe, expired>>
    BY DEF Cancel, Complete, BatcherInv, TypeOK
<1>2. Closes
    BY <1>1 DEF Closes
<1>3. TypeOK'
    BY <1>1 DEF BatcherInv, TypeOK, Future
<1>4. Accounts'
    BY <1>1, <1>2, LeavingQueues DEF BatcherInv
<1>5. WorkerInv'
    BY <1>1, <1>2, WorkerStays DEF BatcherInv, WorkerInv
<1> QED
    BY <1>3, <1>4, <1>5 DEF BatcherInv

\* The requests close() takes out before it raises at the i-th of key k.
TakenBy(k, i, earlier) == (UNION {Range(queues[e]) : e \in earlier}) \cup Range(SubSeq(queues[k], 1, i))

\* close() answers every request it takes out, but for one that its caller cancels.
LEMMA CloseKeepsInv ==
    ASSUME BatcherInv, Close
    PROVE  BatcherInv'
<1>1. /\ stopping' = TRUE /\ UNCHANGED <<worker, scanned, batch, next, failure, ripe, expired>>
      /\ future \in [Request -> Future] /\ Filed(queues) /\ queued \in Nat /\ Accounts /\ TypeOK
    BY DEF Close, BatcherInv, TypeOK, Accounts
<1>2. ASSUME future' \in [Request -> Future], Closes, queues' \in [Key -> Seq(Request)], Accounts', queued' \in Nat
      PROVE  BatcherInv'
    <2>1. TypeOK'
        BY <1>1, <1>2 DEF TypeOK
    <2>2. WorkerInv'
        BY <1>1, <1>2, WorkerStays DEF BatcherInv, WorkerInv
    <2> QED
        BY <1>2, <2>1, <2>2 DEF BatcherInv
<1>3. ASSUME NEW S \in SUBSET Request
      PROVE  /\ Closing(S) \in [Request -> Future]
             /\ \A x \in Request : Closing(S)[x] = "pending" => future[x] = "pending" /\ x \notin S
             /\ \A x \in Request : Closing(S)[x] = "new" => future[x] = "new"
    <2>1. \A x \in Request : Closing(S)[x] = IF x \in S /\ future[x] = "pending" THEN "closed" ELSE future[x]
        BY DEF Closing
    <2>2. \A x \in Request : Closing(S)[x] \in Future
        BY <1>1, <2>1 DEF Future
    <2>3. Closing(S) \in [Request -> Future]
        BY <2>2 DEF Closing
    <2> QED
        BY <2>1, <2>3
<1>4. Queued \in SUBSET Request /\ \A x \in Range(batch) : x \notin Queued
    BY <1>1, QueuedAreRequests DEF Accounts, OpenRequestsAreHeld
<1>5. ASSUME UNCHANGED <<future, queues, queued>>
      PROVE  BatcherInv'
    <2>1. Closes
        BY <1>5 DEF Closes
    <2>2. Accounts'
        BY <1>1, <1>5, <2>1, LeavingQueues
    <2> QED
        BY <1>1, <1>2, <1>5, <2>1, <2>2 DEF TypeOK
<1>6. ASSUME future' = Closing(Queued), queues' = [k \in Key |-> <<>>], queued' = queued - Cardinality(Queued)
      PROVE  BatcherInv'
    <2>1. Closes
        BY <1>3, <1>4, <1>6 DEF Closes
    <2>2. /\ queues' \in [Key -> Seq(Request)]
          /\ \A k \in Key : IsInjective(queues'[k]) /\ Range(queues'[k]) = Range(queues[k]) \ Queued
        <3>1. <<>> \in Seq(Request) /\ Range(<<>>) = {} /\ IsInjective(<<>>)
            BY DEF Range, IsInjective
        <3>2. \A k \in Key : Range(queues[k]) \subseteq Queued
            BY DEF Queued
        <3> QED
            BY <1>6, <3>1, <3>2
    <2>3. \A r \in Range(batch) \cup Queued : r \in Request /\ future'[r] = "pending" => r \in Range(batch')
        BY <1>1, <1>3, <1>4, <1>6
    <2>4. Accounts' /\ queued' \in Nat
        BY <1>1, <1>6, <2>1, <2>2, <2>3, TakingOut
    <2> QED
        BY <1>2, <1>3, <1>4, <1>6, <2>1, <2>2, <2>4
<1>7. ASSUME NEW k \in Key, NEW i \in DOMAIN queues[k], NEW earlier \in SUBSET (Key \ {k}),
             future' = [Closing(TakenBy(k, i, earlier)) EXCEPT ![queues[k][i]] = "cancelled"],
             queues' = [e \in Key |-> IF e \in earlier THEN <<>>
                                      ELSE IF e = k THEN SubSeq(queues[k], i + 1, Len(queues[k]))
                                      ELSE queues[e]],
             queued' = queued - Cardinality(TakenBy(k, i, earlier))
      PROVE  BatcherInv'
    <2> DEFINE r == queues[k][i]
               E == UNION {Range(queues[e]) : e \in earlier}
               a == SubSeq(queues[k], 1, i)
               b == SubSeq(queues[k], i + 1, Len(queues[k]))
               gone == TakenBy(k, i, earlier)
    <2>0. gone = E \cup Range(a)
        BY DEF TakenBy
    <2>10. /\ future' = [Closing(gone) EXCEPT ![r] = "cancelled"]
           /\ queues' = [e \in Key |-> IF e \in earlier THEN <<>> ELSE IF e = k THEN b ELSE queues[e]]
           /\ queued' = queued - Cardinality(gone)
        BY <1>7
    <2>1. queues[k] \in Seq(Request) /\ IsInjective(queues[k]) /\ i \in 0..Len(queues[k])
        BY <1>1 DEF Filed
    <2>2. /\ b \in Seq(Request) /\ IsInjective(b)
          /\ Range(a) \subseteq Range(queues[k]) /\ Range(b) = Range(queues[k]) \ Range(a)
        BY <2>1, SplitQueue
    <2>11. \A x : x \in E <=> \E e \in earlier : x \in Range(queues[e])
        OBVIOUS
    <2> HIDE DEF a, b, E, gone
    <2>12. \A e \in Key : Range(queues[e]) \subseteq Queued
        BY DEF Queued
    <2>3. gone \subseteq Queued /\ gone \in SUBSET Request
        BY <1>4, <2>0, <2>2, <2>11, <2>12
    <2>4. future' \in [Request -> Future] /\ Closes
        BY <1>3, <2>10, <2>3 DEF Closes, Future
    <2>5. \A x \in gone : future'[x] # "pending"
        BY <1>3, <2>10, <2>3
    <2>6. ASSUME NEW e \in Key
          PROVE  /\ queues'[e] \in Seq(Request) /\ IsInjective(queues'[e])
                 /\ Range(queues'[e]) = Range(queues[e]) \ gone
        <3>1. \A x \in Range(queues[e]) : KeyOf[x] = e
            BY <1>1 DEF Filed
        <3>2. \A d \in Key : \A x \in Range(queues[d]) : KeyOf[x] = d
            BY <1>1 DEF Filed
        <3>3. CASE e \in earlier
            <4>1. queues'[e] = <<>> /\ Range(<<>>) = {} /\ IsInjective(<<>>) /\ <<>> \in Seq(Request)
                BY <2>10, <3>3 DEF Range, IsInjective
            <4>2. Range(queues[e]) \subseteq E
                BY <3>3, <2>11
            <4> QED
                BY <4>1, <4>2, <2>0
        <3>4. CASE e = k
            <4>1. queues'[e] = b
                BY <2>10, <3>4
            <4>2. \A d \in earlier : Range(queues[d]) \cap Range(queues[k]) = {}
                BY <3>2
            <4> QED
                BY <4>1, <4>2, <2>0, <2>2, <2>11, <3>4
        <3>5. CASE e \notin earlier /\ e # k
            <4>1. queues'[e] = queues[e] /\ queues[e] \in Seq(Request) /\ IsInjective(queues[e])
                BY <1>1, <2>10, <3>5 DEF Filed
            <4>2. \A d \in earlier : Range(queues[d]) \cap Range(queues[e]) = {}
                BY <3>2, <3>5
            <4>3. Range(a) \cap Range(queues[e]) = {}
                BY <3>2, <3>5, <2>2
            <4> QED
                BY <4>1, <4>2, <4>3, <2>0, <2>11
        <3> QED
            BY <3>3, <3>4, <3>5
    <2>7. queues' \in [Key -> Seq(Request)]
        BY <2>10, <2>6
    <2>8. \A x \in Range(batch) \cup gone : x \in Request /\ future'[x] = "pending" => x \in Range(batch')
        BY <1>1, <2>5
    <2>9. Accounts' /\ queued' \in Nat
        BY <1>1, <2>10, <2>3, <2>4, <2>6, <2>7, <2>8, TakingOut
    <2> QED
        BY <1>2, <2>4, <2>7, <2>9
<1>8. ASSUME NEW k \in Key, NEW i \in DOMAIN queues[k], NEW earlier \in SUBSET (Key \ {k}),
             LET r == queues[k][i]
                 gone == (UNION {Range(queues[e]) : e \in earlier}) \cup Range(SubSeq(queues[k], 1, i))
             IN  /\ r \in Cancellable /\ future[r] = "pending"
                 /\ future' = [Closing(gone) EXCEPT ![r] = "cancelled"]
                 /\ queues' = [e \in Key |-> IF e \in earlier THEN <<>>
                                           ELSE IF e = k THEN SubSeq(queues[k], i + 1, Len(queues[k]))
                                           ELSE queues[e]]
                 /\ queued' = queued - Cardinality(gone)
      PROVE  BatcherInv'
    <2>1. TakenBy(k, i, earlier) = (UNION {Range(queues[e]) : e \in earlier}) \cup Range(SubSeq(queues[k], 1, i))
        BY DEF TakenBy
    <2>2. /\ future' = [Closing(TakenBy(k, i, earlier)) EXCEPT ![queues[k][i]] = "cancelled"]
          /\ queues' = [e \in Key |-> IF e \in earlier THEN <<>>
                                    ELSE IF e = k THEN SubSeq(queues[k], i + 1, Len(queues[k]))
                                    ELSE queues[e]]
          /\ queued' = queued - Cardinality(TakenBy(k, i, earlier))
        BY <1>8, <2>1
    <2> QED
        BY <1>7, <2>2
<1>9. \/ UNCHANGED <<future, queues, queued>>
      \/ future' = Closing(Queued) /\ queues' = [k \in Key |-> <<>>] /\ queued' = queued - Cardinality(Queued)
      \/ BatcherInv'
    BY <1>8 DEF Close
<1> QED
    BY <1>5, <1>6, <1>9

\* Steps that move no request and answer none: time, and the worker's looks and decisions.
LEMMA QuietStepsKeepInv ==
    ASSUME BatcherInv, UNCHANGED <<future, queues, queued, stopping, batch, next>>, TypeOK',
           worker' \in {"idle", "scan", "exited"} => batch = <<>>,
           worker' \in {"deliver", "fail"} => worker' = worker
    PROVE  BatcherInv'
<1>1. Closes
    BY DEF Closes
<1>2. Accounts'
    BY <1>1, LeavingQueues DEF BatcherInv
<1>3. WorkerInv'
    BY <1>1, WorkerStays
<1> QED
    BY <1>2, <1>3 DEF BatcherInv

-----------------------------------------------------------------------------
(* The worker. *)

\* Popping the head of a queue, whose future is answered or was cancelled.
LEMMA DropKeepsInv ==
    ASSUME BatcherInv, NEW k \in Key, queues[k] # <<>>, Pop(k), worker = "scan", worker' \in {"scan", "dead"},
           \/ future[Head(queues[k])] = "cancelled" /\ UNCHANGED future
           \/ \E how \in {"deadline", "cancelled"} : Complete(Head(queues[k]), how),
           UNCHANGED <<stopping, scanned, batch, next, failure, ripe, expired>>
    PROVE  BatcherInv'
<1> DEFINE r == Head(queues[k])
<1>1. /\ TypeOK /\ Accounts /\ future \in [Request -> Future] /\ Filed(queues)
      /\ queues \in [Key -> Seq(Request)] /\ queues[k] \in Seq(Request) /\ IsInjective(queues[k])
    BY DEF BatcherInv, TypeOK, Accounts, Filed
<1>2. /\ r \in Range(queues[k]) /\ r \in Request /\ Tail(queues[k]) \in Seq(Request) /\ IsInjective(Tail(queues[k]))
      /\ Range(Tail(queues[k])) = Range(queues[k]) \ {r}
    BY <1>1, PopQueue
<1>3. queues' = [queues EXCEPT ![k] = Tail(queues[k])] /\ queued' = queued - 1
    BY DEF Pop
<1>4. queues' \in [Key -> Seq(Request)]
    BY <1>1, <1>2, <1>3
<1>5. \A j \in Key : IsInjective(queues'[j]) /\ Range(queues'[j]) = Range(queues[j]) \ {r}
    <2> SUFFICES ASSUME NEW j \in Key
                 PROVE  IsInjective(queues'[j]) /\ Range(queues'[j]) = Range(queues[j]) \ {r}
        OBVIOUS
    <2>1. CASE j = k
        BY <2>1, <1>1, <1>2, <1>3
    <2>2. CASE j # k
        <3>1. queues'[j] = queues[j] /\ IsInjective(queues[j])
            BY <2>2, <1>1, <1>3 DEF Filed
        <3>2. r \notin Range(queues[j])
            BY <2>2, <1>1, <1>2 DEF Filed
        <3> QED
            BY <3>1, <3>2
    <2> QED
        BY <2>1, <2>2
<1>6. {r} \subseteq Queued /\ Cardinality({r}) = 1
    <2>1. r \in Queued
        BY <1>2 DEF Queued
    <2> HIDE DEF r
    <2> QED
        BY <2>1, FS_Singleton
<1>7. future' \in [Request -> Future] /\ future'[r] # "pending" /\ Closes
    BY <1>1, <1>2 DEF Complete, Closes, Future
<1>8. \A x \in Range(batch) : x \in Request /\ future'[x] = "pending" => x \in Range(batch')
    OBVIOUS
<1>9. Accounts' /\ queued' \in Nat
    <2>1. queued' = queued - Cardinality({r})
        BY <1>3, <1>6
    <2>2. Range(batch') \subseteq Range(batch) \cup {r}
        OBVIOUS
    <2>3. \A x \in Range(batch) \cup {r} : x \in Request /\ future'[x] = "pending" => x \in Range(batch')
        BY <1>7, <1>8
    <2> HIDE DEF r
    <2> QED
        BY <1>1, <1>4, <1>5, <1>6, <1>7, <2>1, <2>2, <2>3, TakingOut
<1>10. TypeOK'
    BY <1>1, <1>4, <1>7, <1>9 DEF TypeOK, Worker
<1>11. WorkerInv'
    BY <1>7, WorkerStays DEF BatcherInv, WorkerInv
<1> QED
    BY <1>9, <1>10, <1>11 DEF BatcherInv

LEMMA SelectKeepsInv ==
    ASSUME BatcherInv, SelectBatch
    PROVE  BatcherInv'
<1>1. /\ TypeOK /\ Accounts /\ Filed(queues) /\ batch = <<>>
      /\ UNCHANGED <<future, stopping, scanned, next, failure, ripe, expired>>
    BY DEF BatcherInv, Accounts, WorkerInv, SelectBatch
<1>2. PICK k \in Selected :
         LET n    == Taken(k)
             live == Live(SubSeq(queues[k], 1, n))
         IN  /\ queues' = [queues EXCEPT ![k] = SubSeq(@, n + 1, Len(@))]
             /\ queued' = queued - n
             /\ batch' = live
             /\ worker' = IF live = <<>> THEN "idle" ELSE "filter"
    BY DEF SelectBatch
<1> DEFINE n == Taken(k)
           a == SubSeq(queues[k], 1, n)
           b == SubSeq(queues[k], n + 1, Len(queues[k]))
           G == Range(a)
<1>3. k \in Key /\ queues[k] # <<>> /\ queues[k] \in Seq(Request) /\ IsInjective(queues[k])
    BY <1>1 DEF Selected, Filed
<1>4. n \in 1..Len(queues[k]) /\ Cardinality(Kept(a)) <= MaxBatch /\ n \in 0..Len(queues[k])
    BY <1>3, TakenIsBounded
<1>5. /\ queues' = [queues EXCEPT ![k] = b] /\ queued' = queued - n
      /\ batch' = Live(a) /\ worker' = IF Live(a) = <<>> THEN "idle" ELSE "filter"
    BY <1>2
<1> HIDE DEF n
<1>6. /\ a \in Seq(Request) /\ b \in Seq(Request) /\ IsInjective(b)
      /\ G \subseteq Range(queues[k]) /\ Range(b) = Range(queues[k]) \ G /\ Cardinality(G) = n
    BY <1>3, <1>4, SplitQueue
<1> HIDE DEF a, b
<1>7. /\ batch' \in Seq(Request) /\ Len(batch') <= MaxBatch
      /\ Range(batch') = {r \in G : future[r] # "cancelled"}
    BY <1>4, <1>5, <1>6, LiveKeeps
<1> HIDE DEF G
<1>8. queues' \in [Key -> Seq(Request)]
    BY <1>1, <1>5, <1>6 DEF Filed
<1>9. \A j \in Key : IsInjective(queues'[j]) /\ Range(queues'[j]) = Range(queues[j]) \ G
    <2> SUFFICES ASSUME NEW j \in Key
                 PROVE  IsInjective(queues'[j]) /\ Range(queues'[j]) = Range(queues[j]) \ G
        OBVIOUS
    <2>1. CASE j = k
        BY <2>1, <1>1, <1>5, <1>6 DEF Filed
    <2>2. CASE j # k
        <3>1. queues'[j] = queues[j] /\ IsInjective(queues[j])
            BY <2>2, <1>1, <1>5 DEF Filed
        <3>2. G \cap Range(queues[j]) = {}
            BY <2>2, <1>1, <1>3, <1>6 DEF Filed
        <3> QED
            BY <3>1, <3>2
    <2> QED
        BY <2>1, <2>2
<1>10. G \subseteq Queued
    BY <1>3, <1>6 DEF Queued
<1>11. Closes /\ Range(batch) = {}
    BY <1>1 DEF Closes, Range
<1>12. Accounts' /\ queued' \in Nat
    <2>1. queued' = queued - Cardinality(G)
        BY <1>5, <1>6
    <2>2. Range(batch') \subseteq Range(batch) \cup G
        BY <1>7
    <2>3. \A x \in Range(batch) \cup G : x \in Request /\ future'[x] = "pending" => x \in Range(batch')
        BY <1>1, <1>7, <1>11
    <2> QED
        BY <1>1, <1>8, <1>9, <1>10, <1>11, <2>1, <2>2, <2>3, TakingOut
<1>13. TypeOK'
    BY <1>1, <1>5, <1>7, <1>8, <1>12 DEF TypeOK, Worker
<1>14. WorkerInv'
    BY <1>5 DEF WorkerInv
<1> QED
    BY <1>12, <1>13, <1>14 DEF BatcherInv

LEMMA FilterKeepsInv ==
    ASSUME BatcherInv, Filter
    PROVE  BatcherInv'
<1>1. /\ TypeOK /\ Accounts /\ batch \in Seq(Request) /\ Len(batch) <= MaxBatch
      /\ batch' = Live(batch) /\ worker' = (IF batch' = <<>> THEN "idle" ELSE "run")
      /\ UNCHANGED <<future, queues, queued, stopping, scanned, next, failure, ripe, expired>>
    BY DEF BatcherInv, TypeOK, Filter
<1>2. /\ batch' \in Seq(Request) /\ Range(batch') = {r \in Range(batch) : future[r] # "cancelled"}
      /\ Len(batch') = Cardinality(Kept(batch))
    BY <1>1, LiveKeeps
<1>3. Len(batch') <= MaxBatch
    <2>1. IsFiniteSet(1..Len(batch)) /\ Cardinality(1..Len(batch)) = Len(batch) /\ Kept(batch) \in SUBSET (1..Len(batch))
        BY <1>1, FS_Interval DEF Kept
    <2>2. Cardinality(Kept(batch)) <= Len(batch) /\ Cardinality(Kept(batch)) \in Nat
        BY <2>1, <1>1, FS_Subset, FS_CardinalityType
    <2> QED
        BY <2>2, <1>1, <1>2, BatcherAssumption
<1>4. Closes /\ \A r \in Range(batch) : r \in Request /\ future'[r] = "pending" => r \in Range(batch')
    BY <1>1, <1>2 DEF Closes
<1>5. Accounts'
    BY <1>1, <1>2, <1>4, LeavingQueues
<1>6. TypeOK'
    BY <1>1, <1>2, <1>3 DEF TypeOK, Worker
<1>7. WorkerInv'
    BY <1>1 DEF WorkerInv
<1> QED
    BY <1>5, <1>6, <1>7 DEF BatcherInv

\* One future of the batch is answered, or found answered.
LEMMA AnswerKeepsInv ==
    ASSUME BatcherInv, worker \in {"deliver", "fail"}, next <= Len(batch),
           \/ /\ future' = future \/ \E how \in Future \ {"new", "pending"} : Complete(batch[next], how)
              /\ future'[batch[next]] # "pending"
              /\ next' = next + 1 /\ worker' = worker
           \/ /\ Complete(batch[next], "cancelled")
              /\ (worker' = "fail" /\ next' = 1) \/ (worker' = "dead" /\ next' = next),
           failure' \in Failure,
           UNCHANGED <<queues, queued, stopping, scanned, batch, ripe, expired>>
    PROVE  BatcherInv'
<1>1. /\ TypeOK /\ Accounts /\ future \in [Request -> Future] /\ batch \in Seq(Request)
      /\ next \in Nat \ {0} /\ Len(batch) \in Nat /\ Len(batch) <= MaxBatch /\ DOMAIN batch = 1..Len(batch)
      /\ next \in DOMAIN batch /\ batch[next] \in Request /\ MaxBatch \in Nat
      /\ \A i \in 1..(next - 1) : future[batch[i]] # "pending"
    BY BatcherAssumption DEF BatcherInv, TypeOK, WorkerInv
<1>2. future' \in [Request -> Future] /\ Closes
    BY <1>1 DEF Complete, Closes, Future
<1>3. Accounts'
    BY <1>1, <1>2, LeavingQueues
<1>4. next' \in 1..(MaxBatch + 1) /\ worker' \in Worker
    BY <1>1 DEF Worker
<1>5. TypeOK'
    BY <1>1, <1>2, <1>4 DEF TypeOK
<1>6. WorkerInv'
    <2>1. \A i \in 1..(next - 1) : future'[batch[i]] # "pending"
        BY <1>1, <1>2 DEF Closes
    <2>2. CASE future'[batch[next]] # "pending" /\ next' = next + 1 /\ worker' = worker
        <3>1. \A i \in 1..(next' - 1) : i \in 1..(next - 1) \/ i = next
            BY <2>2, <1>1
        <3> QED
            BY <2>1, <2>2, <3>1, <1>1 DEF WorkerInv
    <2>3. CASE worker' = "fail" /\ next' = 1
        BY <2>3, <1>1 DEF WorkerInv
    <2>4. CASE worker' = "dead"
        BY <2>4 DEF WorkerInv
    <2> QED
        BY <2>2, <2>3, <2>4
<1> QED
    BY <1>3, <1>5, <1>6 DEF BatcherInv

LEMMA FinishKeepsInv ==
    ASSUME BatcherInv, FinishBatch
    PROVE  BatcherInv'
<1>1. /\ TypeOK /\ Accounts /\ batch \in Seq(Request) /\ next > Len(batch) /\ worker \in {"deliver", "fail"}
      /\ batch' = <<>> /\ worker' = "idle" /\ DOMAIN batch = 1..Len(batch) /\ Len(batch) \in Nat /\ next \in Nat
      /\ UNCHANGED <<future, queues, queued, stopping, scanned, next, failure, ripe, expired>>
      /\ next <= Len(batch) + 1 /\ \A i \in 1..(next - 1) : future[batch[i]] # "pending"
    BY BatcherAssumption DEF BatcherInv, TypeOK, WorkerInv, FinishBatch
<1>2. next - 1 = Len(batch) /\ \A r \in Range(batch) : future[r] # "pending"
    BY <1>1 DEF Range
<1>3. Closes /\ Range(batch') = {}
    BY <1>1 DEF Closes, Range
<1>4. Accounts'
    BY <1>1, <1>2, <1>3, LeavingQueues
<1>5. TypeOK'
    BY <1>1, BatcherAssumption DEF TypeOK, Worker
<1>6. WorkerInv'
    BY <1>1 DEF WorkerInv
<1> QED
    BY <1>4, <1>5, <1>6 DEF BatcherInv

LEMMA NextBatcherInv == BatcherInv /\ [Next]_vars => BatcherInv'
<1> SUFFICES ASSUME BatcherInv, [Next]_vars PROVE BatcherInv'
    OBVIOUS
<1> USE DEF BatcherInv
<1>1. TypeOK /\ WorkerInv
    OBVIOUS
<1>2. CASE \E r \in Request : Submit(r)
    BY <1>2, SubmitKeepsInv
<1>3. CASE \E r \in Request : Cancel(r)
    BY <1>3, CancelKeepsInv
<1>4. CASE Close
    BY <1>4, CloseKeepsInv
<1>5. CASE (\E r \in Request : Ripen(r) \/ Expire(r)) \/ UNCHANGED vars
    <2>1. TypeOK' /\ UNCHANGED <<future, queues, queued, stopping, batch, next, worker>>
        BY <1>1, <1>5 DEF Ripen, Expire, vars, TypeOK
    <2> QED
        BY <2>1, <1>1, QuietStepsKeepInv DEF WorkerInv
<1>6. CASE BeginSelect \/ Exit \/ SelectNothing \/ \E k \in Key : KeepHead(k)
    <2>1. TypeOK' /\ UNCHANGED <<future, queues, queued, stopping, batch, next>>
        BY <1>1, <1>6 DEF BeginSelect, Exit, SelectNothing, KeepHead, TypeOK, Worker
    <2>2. worker \in {"idle", "scan"} /\ worker' \in {"idle", "scan", "exited"}
        BY <1>6 DEF BeginSelect, Exit, SelectNothing, KeepHead
    <2> QED
        BY <2>1, <2>2, <1>1, QuietStepsKeepInv DEF WorkerInv
<1>7. CASE \E k \in Key : DropExpired(k)
    <2>1. PICK k \in Key : DropExpired(k)
        BY <1>7
    <2>2. /\ queues[k] # <<>> /\ Pop(k) /\ worker = "scan" /\ worker' \in {"scan", "dead"}
          /\ \E how \in {"deadline", "cancelled"} : Complete(Head(queues[k]), how)
          /\ UNCHANGED <<stopping, scanned, batch, next, failure, ripe, expired>>
        BY <2>1 DEF DropExpired
    <2> QED
        BY <2>2, DropKeepsInv
<1>8. CASE \E k \in Key : DropCancelled(k)
    <2>1. PICK k \in Key : DropCancelled(k)
        BY <1>8
    <2>2. /\ queues[k] # <<>> /\ Pop(k) /\ worker = "scan" /\ worker' \in {"scan", "dead"}
          /\ future[Head(queues[k])] = "cancelled"
          /\ UNCHANGED <<future, stopping, scanned, batch, next, failure, ripe, expired>>
        BY <2>1 DEF DropCancelled
    <2> QED
        BY <2>2, DropKeepsInv
<1>9. CASE SelectBatch
    BY <1>9, SelectKeepsInv
<1>10. CASE Filter
    BY <1>10, FilterKeepsInv
<1>11. CASE RunBatch
    <2>1. UNCHANGED <<future, queues, queued, stopping, scanned, batch, ripe, expired>> /\ next' = 1
        BY <1>11 DEF RunBatch
    <2>2. worker' \in {"deliver", "fail"} /\ failure' \in Failure /\ 1 \in 1..(MaxBatch + 1)
        BY <1>1, <1>11, BatcherAssumption DEF RunBatch, TypeOK, Failure
    <2>3. TypeOK'
        BY <1>1, <2>1, <2>2 DEF TypeOK, Worker
    <2>4. Accounts'
        BY <2>1, LeavingQueues DEF Closes
    <2>5. WorkerInv'
        BY <1>1, <2>1, <2>2 DEF WorkerInv, TypeOK
    <2> QED
        BY <2>3, <2>4, <2>5
<1>12. CASE Deliver \/ Fail
    <2>1. worker \in {"deliver", "fail"} /\ next <= Len(batch)
        BY <1>12 DEF Deliver, Fail
    <2>2. UNCHANGED <<queues, queued, stopping, scanned, batch, ripe, expired>> /\ failure' \in Failure
        BY <1>1, <1>12 DEF Deliver, Fail, TypeOK, Failure
    <2>3. batch[next] \in Request /\ future \in [Request -> Future] /\ failure \in Failure
        BY <1>1, <2>1, BatcherAssumption DEF TypeOK
    <2>4. \/ /\ future' = future \/ \E how \in Future \ {"new", "pending"} : Complete(batch[next], how)
             /\ future'[batch[next]] # "pending"
             /\ next' = next + 1 /\ worker' = worker
          \/ /\ Complete(batch[next], "cancelled")
             /\ (worker' = "fail" /\ next' = 1) \/ (worker' = "dead" /\ next' = next)
        <3>1. CASE UNCHANGED <<future, worker>> /\ future[batch[next]] # "pending" /\ next' = next + 1
            BY <3>1
        <3>2. CASE \/ worker' = worker /\ next' = next + 1 /\ Complete(batch[next], "result")
                   \/ worker' = worker /\ next' = next + 1 /\ Complete(batch[next], failure)
            <4>1. PICK how \in {"result"} \cup Failure : Complete(batch[next], how)
                BY <2>3, <3>2
            <4>2. future'[batch[next]] = how /\ how \in Future \ {"new", "pending"}
                BY <4>1, <2>3 DEF Complete, Future, Failure
            <4> QED
                BY <4>1, <4>2, <3>2
        <3>3. CASE /\ Complete(batch[next], "cancelled")
                   /\ (worker' = "fail" /\ next' = 1) \/ (worker' = "dead" /\ next' = next)
            BY <3>3
        <3>4. CASE Deliver
            <4>1. CASE Complete(batch[next], "result") /\ next' = next + 1 /\ UNCHANGED <<worker, failure>>
                BY <4>1, <3>2
            <4>2. CASE Complete(batch[next], "cancelled") /\ next' = 1 /\ worker' = "fail"
                BY <4>2, <3>3
            <4>3. CASE future[batch[next]] # "pending" /\ next' = next + 1 /\ UNCHANGED <<future, worker, failure>>
                BY <4>3, <3>1
            <4> QED
                BY <3>4, <4>1, <4>2, <4>3 DEF Deliver
        <3>5. CASE Fail
            <4>1. CASE Complete(batch[next], failure) /\ next' = next + 1 /\ UNCHANGED worker
                BY <4>1, <3>2
            <4>2. CASE Complete(batch[next], "cancelled") /\ worker' = "dead" /\ UNCHANGED next
                BY <4>2, <3>3
            <4>3. CASE future[batch[next]] # "pending" /\ next' = next + 1 /\ UNCHANGED <<future, worker>>
                BY <4>3, <3>1
            <4> QED
                BY <3>5, <4>1, <4>2, <4>3 DEF Fail
        <3> QED
            BY <1>12, <3>4, <3>5
    <2> QED
        BY <2>1, <2>2, <2>4, AnswerKeepsInv
<1>13. CASE FinishBatch
    BY <1>13, FinishKeepsInv
<1> QED
    BY <1>2, <1>3, <1>4, <1>5, <1>6, <1>7, <1>8, <1>9, <1>10, <1>11, <1>12, <1>13 DEF Next, WorkerStep

\* Every state of the batcher is well typed, and no batch is larger than max_batch_size.
THEOREM BatcherTypeOK == Spec => []TypeOK
<1>1. BatcherInv => TypeOK
    BY DEF BatcherInv
<1> QED
    BY <1>1, InitBatcherInv, NextBatcherInv, PTL DEF Spec

\* The admission counter is the number of queued requests, and every accepted request whose
\* future is open is in one queue or in the batch in progress (submit, _select, _run, close).
THEOREM BatcherAccounts == Spec => []RequestsAreAccounted
<1>1. BatcherInv => RequestsAreAccounted
    BY DEF BatcherInv, Accounts, RequestsAreAccounted
<1> QED
    BY <1>1, InitBatcherInv, NextBatcherInv, PTL DEF Spec

-----------------------------------------------------------------------------
(* stream *)

USE DEF Delivered, Stream!Delivered

\* What each part of the stream's state is.
StreamTypes ==
    /\ emitted \in 0..MaxEvent
    /\ queue \in Seq(1..MaxEvent) /\ Len(queue) <= Room /\ Len(queue) <= emitted
    /\ thread \in {"loop", "look", "consume", "ok", "failed", "dead", "exited"}
    /\ inflight = IF thread \in {"consume", "ok", "failed", "dead"} THEN 1 ELSE 0
    /\ current \in 0..emitted /\ (inflight = 1 => current \in 1..emitted)
    /\ consumed \subseteq 1..emitted /\ failed \subseteq 1..emitted
    /\ waiters \in [Waiter -> [at : {"idle", "waits", "drained", "timedOut"}, before : 0..MaxEvent]]

\* The queue holds the events accepted last, in order.
QueueIsLast == \A i \in 1..Len(queue) : queue[i] = emitted - Len(queue) + i

\* An event that left the queue was handled or is in flight.
PoppedIsHandled == \A e \in 1..(emitted - Len(queue)) : e \in Delivered \/ (inflight = 1 /\ e = current)

\* A drain() waits for events that were accepted before.
DrainsLookBack == \A w \in Waiter : waiters[w].before <= emitted

StreamInv == StreamTypes /\ QueueIsLast /\ PoppedIsHandled /\ DrainsLookBack /\ DrainedIsDelivered

-----------------------------------------------------------------------------
\* What taking the first event does to the queue.
LEMMA FirstEvent ==
    ASSUME NEW S, NEW s \in Seq(S), s # <<>>
    PROVE  /\ Len(s) \in Nat \ {0} /\ Head(s) = s[1] /\ Tail(s) \in Seq(S) /\ Len(Tail(s)) = Len(s) - 1
           /\ \A i \in 1..(Len(s) - 1) : Tail(s)[i] = s[i + 1]
BY EmptySeq, HeadTailProperties, LenProperties

\* What accepting an event does to the queue.
LEMMA LastEvent ==
    ASSUME NEW S, NEW s \in Seq(S), NEW x \in S
    PROVE  /\ Len(s) \in Nat /\ Append(s, x) \in Seq(S) /\ Len(Append(s, x)) = Len(s) + 1
           /\ Append(s, x)[Len(s) + 1] = x
           /\ \A i \in 1..Len(s) : Append(s, x)[i] = s[i]
BY AppendProperties, LenProperties

\* The invariant holds before the first event.
LEMMA StreamInit == Stream!Init => StreamInv
<1> SUFFICES ASSUME Stream!Init PROVE StreamInv
    OBVIOUS
<1>1. <<>> \in Seq(1..MaxEvent) /\ Len(<<>>) = 0
    OBVIOUS
<1>2. StreamTypes
    BY <1>1, StreamAssumption DEF Stream!Init, StreamTypes
<1>3. QueueIsLast /\ PoppedIsHandled
    BY <1>1 DEF Stream!Init, QueueIsLast, PoppedIsHandled
<1>4. DrainsLookBack /\ DrainedIsDelivered
    BY StreamAssumption DEF Stream!Init, DrainsLookBack, DrainedIsDelivered
<1> QED
    BY <1>2, <1>3, <1>4 DEF StreamInv

\* Every step keeps the invariant.
LEMMA NextStreamInv == StreamInv /\ [Stream!Next]_Stream!vars => StreamInv'
<1> SUFFICES ASSUME StreamInv, [Stream!Next]_Stream!vars PROVE StreamInv'
    OBVIOUS
<1> USE StreamAssumption
<1>1. /\ emitted \in 0..MaxEvent /\ emitted \in Nat /\ MaxEvent \in Nat
      /\ queue \in Seq(1..MaxEvent) /\ Len(queue) \in Nat /\ Len(queue) <= Room /\ Len(queue) <= emitted
      /\ StreamTypes /\ QueueIsLast /\ PoppedIsHandled /\ DrainsLookBack /\ DrainedIsDelivered
    BY LenProperties DEF StreamInv, StreamTypes
<1>2. ASSUME UNCHANGED <<queue, emitted, inflight, current, consumed, failed, waiters>>,
             thread' \in {"loop", "look", "consume", "ok", "failed", "dead", "exited"},
             thread' \in {"consume", "ok", "failed", "dead"} <=> thread \in {"consume", "ok", "failed", "dead"}
      PROVE  StreamInv'
    <2>1. StreamTypes'
        BY <1>1, <1>2 DEF StreamTypes
    <2> QED
        BY <1>1, <1>2, <2>1 DEF StreamInv, QueueIsLast, PoppedIsHandled, DrainsLookBack, DrainedIsDelivered, Delivered
<1>3. CASE UNCHANGED Stream!vars
    BY <1>1, <1>2, <1>3 DEF Stream!vars, StreamTypes
<1>4. CASE Stream!SetConsumer \/ Stream!Close \/ Stream!Look \/ Stream!Consume
    BY <1>1, <1>2, <1>4 DEF Stream!SetConsumer, Stream!Close, Stream!Look, Stream!Consume, StreamTypes
<1>5. CASE Stream!Emit
    <2>1. /\ emitted' = emitted + 1 /\ queue' = Append(queue, emitted + 1) /\ emitted < MaxEvent /\ Len(queue) < Room
          /\ UNCHANGED <<thread, inflight, current, consumed, failed, waiters>>
        BY <1>5 DEF Stream!Emit
    <2>2. /\ queue' \in Seq(1..MaxEvent) /\ Len(queue') = Len(queue) + 1 /\ queue'[Len(queue) + 1] = emitted + 1
          /\ \A i \in 1..Len(queue) : queue'[i] = queue[i]
        <3>1. emitted + 1 \in 1..MaxEvent
            BY <1>1, <2>1
        <3> QED
            BY <1>1, <2>1, <3>1, LastEvent
    <2>3. StreamTypes'
        BY <1>1, <2>1, <2>2 DEF StreamTypes
    <2>4. QueueIsLast'
        BY <1>1, <2>1, <2>2 DEF QueueIsLast
    <2>5. PoppedIsHandled' /\ DrainsLookBack' /\ DrainedIsDelivered'
        BY <1>1, <2>1, <2>2 DEF PoppedIsHandled, DrainsLookBack, DrainedIsDelivered, Delivered, StreamTypes
    <2> QED
        BY <2>3, <2>4, <2>5 DEF StreamInv
<1>6. CASE Stream!Take
    <2>1. CASE consumer /\ queue # <<>>
        <3>1. /\ queue' = Tail(queue) /\ current' = Head(queue) /\ inflight' = inflight + 1 /\ thread' = "consume"
              /\ thread = "look" /\ UNCHANGED <<emitted, consumed, failed, waiters>>
            BY <1>6, <2>1 DEF Stream!Take
        <3>2. /\ Len(queue) \in Nat \ {0} /\ current' = queue[1] /\ queue' \in Seq(1..MaxEvent) /\ Len(queue') = Len(queue) - 1
              /\ \A i \in 1..(Len(queue) - 1) : queue'[i] = queue[i + 1]
            BY <1>1, <2>1, <3>1, FirstEvent
        <3>3. inflight = 0 /\ inflight' = 1
            BY <1>1, <3>1 DEF StreamTypes
        <3>4. current' = emitted - Len(queue) + 1
            BY <1>1, <3>2 DEF QueueIsLast
        <3>5. StreamTypes'
            BY <1>1, <3>1, <3>2, <3>3, <3>4 DEF StreamTypes
        <3>6. QueueIsLast'
            BY <1>1, <3>1, <3>2 DEF QueueIsLast
        <3>7. PoppedIsHandled'
            BY <1>1, <3>1, <3>2, <3>3, <3>4 DEF PoppedIsHandled, Delivered
        <3>8. DrainsLookBack' /\ DrainedIsDelivered'
            BY <1>1, <3>1 DEF DrainsLookBack, DrainedIsDelivered, Delivered
        <3> QED
            BY <3>5, <3>6, <3>7, <3>8 DEF StreamInv
    <2>2. CASE ~ (consumer /\ queue # <<>>)
        BY <1>1, <1>2, <1>6, <2>2 DEF Stream!Take
    <2> QED
        BY <2>1, <2>2
<1>7. CASE Stream!Settle
    <2>1. /\ thread \in {"ok", "failed"} /\ thread' = "loop" /\ inflight' = inflight - 1
          /\ Delivered' = Delivered \cup {current}
          /\ UNCHANGED <<queue, emitted, current, waiters>>
        BY <1>7 DEF Stream!Settle, Delivered
    <2>2. inflight = 1 /\ inflight' = 0
        BY <1>1, <2>1 DEF StreamTypes
    <2>3. StreamTypes'
        BY <1>1, <1>7, <2>1, <2>2 DEF StreamTypes, Stream!Settle
    <2>4. PoppedIsHandled'
        BY <1>1, <2>1, <2>2 DEF PoppedIsHandled
    <2> QED
        BY <1>1, <2>1, <2>3, <2>4 DEF StreamInv, QueueIsLast, DrainsLookBack, DrainedIsDelivered
<1>8. ASSUME NEW w \in Waiter, Stream!BeginDrain(w) PROVE StreamInv'
    <2>1. /\ waiters' = [waiters EXCEPT ![w] = [at |-> "waits", before |-> emitted]]
          /\ UNCHANGED <<queue, emitted, thread, inflight, current, consumed, failed>>
        BY <1>8 DEF Stream!BeginDrain
    <2>2. StreamTypes'
        BY <1>1, <2>1 DEF StreamTypes
    <2>3. DrainsLookBack' /\ DrainedIsDelivered'
        BY <1>1, <2>1 DEF DrainsLookBack, DrainedIsDelivered, Delivered, StreamTypes
    <2> QED
        BY <1>1, <2>1, <2>2, <2>3 DEF StreamInv, QueueIsLast, PoppedIsHandled, Delivered
<1>9. ASSUME NEW w \in Waiter, Stream!EndDrain(w) PROVE StreamInv'
    <2>1. /\ waiters' = [waiters EXCEPT ![w].at = IF queue = <<>> /\ inflight = 0 THEN "drained" ELSE "timedOut"]
          /\ UNCHANGED <<queue, emitted, thread, inflight, current, consumed, failed>>
        BY <1>9 DEF Stream!EndDrain
    <2>2. StreamTypes'
        BY <1>1, <2>1 DEF StreamTypes
    <2>3. queue = <<>> /\ inflight = 0 => 1..emitted \subseteq Delivered
        BY <1>1 DEF PoppedIsHandled
    <2>4. DrainsLookBack' /\ DrainedIsDelivered'
        <3>1. ASSUME NEW v \in Waiter
              PROVE  waiters'[v].before = waiters[v].before /\ (v # w => waiters'[v].at = waiters[v].at)
            BY <1>1, <2>1 DEF StreamTypes
        <3>2. waiters'[w].at = "drained" => queue = <<>> /\ inflight = 0
            BY <1>1, <2>1 DEF StreamTypes
        <3>3. waiters[w].before \in Nat /\ waiters[w].before <= emitted
            BY <1>1 DEF StreamTypes, DrainsLookBack
        <3>4. waiters'[w].at = "drained" => 1..waiters'[w].before \subseteq Delivered
            BY <1>1, <2>3, <3>1, <3>2, <3>3
        <3> QED
            BY <1>1, <2>1, <3>1, <3>4 DEF DrainsLookBack, DrainedIsDelivered, Delivered
    <2> QED
        BY <1>1, <2>1, <2>2, <2>4 DEF StreamInv, QueueIsLast, PoppedIsHandled, Delivered
<1> QED
    BY <1>3, <1>4, <1>5, <1>6, <1>7, <1>8, <1>9 DEF Stream!Next, Stream!DrainStep

\* The stream's state is well typed.
THEOREM StreamTypeOK == Stream!Spec => []Stream!TypeOK
<1>1. StreamInv => Stream!TypeOK
    BY StreamAssumption DEF StreamInv, StreamTypes, Stream!TypeOK, Delivered
<1> QED
    BY <1>1, StreamInit, NextStreamInv, PTL DEF Stream!Spec

\* A drain() that returned True has seen everything emitted before it delivered.
THEOREM DrainsTellTheTruth == Stream!Spec => []DrainedIsDelivered
<1>1. StreamInv => DrainedIsDelivered
    BY DEF StreamInv
<1> QED
    BY <1>1, StreamInit, NextStreamInv, PTL DEF Stream!Spec

-----------------------------------------------------------------------------
(* The run itself: a behaviour of MCLive is a behaviour of each component. *)

CacheProved == INSTANCE CacheProofs WITH inflight <- cache_inflight

\* The instance meets the assumption under which the theorems of the cache hold.
LEMMA CacheAssumed == CacheProved!CacheAssumption
BY CallsAssumption DEF CacheProved!CacheAssumption

\* The module of the run and the module of the theorems mean the same cache.
LEMMA SameEntries ==
    /\ Cache!Revision = CacheProved!Revision /\ Cache!CacheKey = CacheProved!CacheKey /\ Cache!At = CacheProved!At
    /\ Cache!NoResult = CacheProved!NoResult
    /\ \A c : Cache!EntryKey(c) = CacheProved!EntryKey(c)
    /\ \A k : Cache!Fresh(k) = CacheProved!Fresh(k)
    /\ \A k : Cache!InL2(k) = CacheProved!InL2(k)
    /\ \A result : Cache!Entry(result) = CacheProved!Entry(result)
    /\ \A f, K : Cache!Without(f, K) = CacheProved!Without(f, K)
    /\ \A f, k, x : Cache!With(f, k, x) = CacheProved!With(f, k, x)
    /\ \A c, place : Cache!Goto(c, place) = CacheProved!Goto(c, place)
    /\ \A c : Cache!Done(c) = CacheProved!Done(c)
    /\ \A c, result : Cache!Return(c, result) = CacheProved!Return(c, result)
BY DEF Cache!Revision, Cache!CacheKey, Cache!At, Cache!NoResult, Cache!EntryKey, Cache!Fresh, Cache!InL2, Cache!Entry,
    Cache!Without, Cache!With, Cache!Goto, Cache!Done, Cache!Return,
    CacheProved!Revision, CacheProved!CacheKey, CacheProved!At, CacheProved!NoResult, CacheProved!EntryKey,
    CacheProved!Fresh, CacheProved!InL2, CacheProved!Entry, CacheProved!Without, CacheProved!With, CacheProved!Goto,
    CacheProved!Done, CacheProved!Return

LEMMA SameEviction == \A f, pins : Cache!Evicting(f, pins) = CacheProved!Evicting(f, pins)
<1>1. \A S : Cache!Cardinality(S) = CacheProved!Cardinality(S)
    BY DEF Cache!Cardinality, CacheProved!Cardinality
<1>2. \A S : Cache!Min(S) = CacheProved!Min(S)
    BY DEF Cache!Min, CacheProved!Min
<1>3. \A f, E : Cache!Without(f, E) = CacheProved!Without(f, E)
    BY SameEntries
<1> QED
    BY <1>1, <1>2, <1>3 DEF Cache!Evicting, CacheProved!Evicting

LEMMA SameCacheStep == ASSUME NEW c, Cache!Step(c) PROVE CacheProved!Step(c)
<1>1. \/ Cache!Own(c) \/ Cache!Raise(c) \/ Cache!Release(c) \/ Cache!Hit(c) \/ Cache!Wait(c) \/ Cache!Wake(c)
      \/ Cache!MissL2(c) \/ Cache!Search(c) \/ Cache!Repin(c) \/ Cache!Pin(c) \/ Cache!DropStale(c) \/ Cache!HitL2(c)
      \/ Cache!Share(c) \/ Cache!Store(c)
    BY DEF Cache!Step
<1>2. Cache!Own(c) => CacheProved!Own(c)
    BY SameEntries DEF Cache!Own, CacheProved!Own
<1>3. Cache!Raise(c) => CacheProved!Raise(c)
    BY SameEntries DEF Cache!Raise, CacheProved!Raise
<1>4. Cache!Release(c) => CacheProved!Release(c)
    BY SameEntries DEF Cache!Release, CacheProved!Release
<1>5. Cache!Hit(c) => CacheProved!Hit(c)
    BY SameEntries DEF Cache!Hit, CacheProved!Hit
<1>6. Cache!Wait(c) => CacheProved!Wait(c)
    BY SameEntries DEF Cache!Wait, CacheProved!Wait
<1>7. Cache!Wake(c) => CacheProved!Wake(c)
    BY SameEntries DEF Cache!Wake, CacheProved!Wake
<1>8. Cache!MissL2(c) => CacheProved!MissL2(c)
    BY SameEntries DEF Cache!MissL2, CacheProved!MissL2
<1>9. Cache!Search(c) => CacheProved!Search(c)
    BY SameEntries DEF Cache!Search, CacheProved!Search
<1>10. Cache!Repin(c) => CacheProved!Repin(c)
    BY SameEntries DEF Cache!Repin, CacheProved!Repin
<1>11. Cache!Pin(c) => CacheProved!Pin(c)
    BY SameEntries DEF Cache!Pin, CacheProved!Pin
<1>12. Cache!DropStale(c) => CacheProved!DropStale(c)
    BY SameEntries DEF Cache!DropStale, CacheProved!DropStale
<1>13. Cache!HitL2(c) => CacheProved!HitL2(c)
    BY SameEntries DEF Cache!HitL2, CacheProved!HitL2
<1>14. Cache!Share(c) => CacheProved!Share(c)
    BY SameEntries DEF Cache!Share, CacheProved!Share
<1>15. Cache!Store(c) => CacheProved!Store(c)
    BY SameEntries, SameEviction DEF Cache!Store, CacheProved!Store
<1> QED
    BY <1>1, <1>2, <1>3, <1>4, <1>5, <1>6, <1>7, <1>8, <1>9, <1>10, <1>11, <1>12, <1>13, <1>14, <1>15
       DEF CacheProved!Step

LEMMA SameCacheSteps == Cache!Next => CacheProved!Next
<1>1. ASSUME NEW c, Cache!Begin(c)
      PROVE  CacheProved!Begin(c)
    BY <1>1 DEF Cache!Begin, CacheProved!Begin
<1>2. ASSUME NEW Q, Cache!Invalidate(Q)
      PROVE  CacheProved!Invalidate(Q)
    BY <1>2, SameEntries DEF Cache!Invalidate, CacheProved!Invalidate
<1>3. ASSUME NEW Q, Cache!Unpin(Q)
      PROVE  CacheProved!Unpin(Q)
    BY <1>3, SameEviction DEF Cache!Unpin, CacheProved!Unpin
<1>4. ASSUME NEW k, Cache!Expire(k)
      PROVE  CacheProved!Expire(k)
    BY <1>4, SameEntries DEF Cache!Expire, CacheProved!Expire
<1>5. Cache!WriteNamespace => CacheProved!WriteNamespace
    BY DEF Cache!WriteNamespace, CacheProved!WriteNamespace
<1> QED
    BY <1>1, <1>2, <1>3, <1>4, <1>5, SameCacheStep, SameEntries DEF Cache!Next, CacheProved!Next

\* What the cache keeps and where its calls are, in this run (pod_cache.py).
LEMMA CacheHolds == Cache!Init /\ [][Cache!Next]_(Cache!vars) => []Cache!TypeOK
<1>1. Cache!Init => CacheProved!Init
    BY SameEntries DEF Cache!Init, CacheProved!Init
<1>2. [Cache!Next]_(Cache!vars) => [CacheProved!Next]_(CacheProved!vars)
    BY SameCacheSteps DEF Cache!vars, CacheProved!vars
<1>3. CacheProved!TypeOK => Cache!TypeOK
    BY SameEntries DEF Cache!TypeOK, CacheProved!TypeOK
<1>4. CacheProved!Init => CacheProved!CacheInv
    BY CacheAssumed, CacheProved!InitCacheInv DEF CacheProved!CacheAssumption
<1>5. CacheProved!CacheInv /\ [CacheProved!Next]_(CacheProved!vars) => CacheProved!CacheInv'
    BY CacheAssumed, CacheProved!NextCacheInv DEF CacheProved!CacheAssumption
<1>6. CacheProved!CacheInv => CacheProved!TypeOK
    BY DEF CacheProved!CacheInv
<1> QED
    BY <1>1, <1>2, <1>3, <1>4, <1>5, <1>6, PTL

runVars == <<vars, cacheVars, streamVars, service>>

\* Requests, results and events keep their shape, whichever component runs: the type
\* invariant the run checks (adaptive_batcher.py, pod_cache.py, perception.py).
THEOREM LiveTypeOK == MCSpec => []TypesOK
<1>1. MCInit => Init /\ Cache!Init /\ Stream!Init
    BY DEF MCInit
<1>2. [MCNext]_runVars => [Next]_vars
    BY DEF MCNext, runVars, vars
<1>3. [MCNext]_runVars => [Cache!Next]_(Cache!vars)
    BY DEF MCNext, runVars, cacheVars, Cache!vars
<1>4. [MCNext]_runVars => [Stream!Next]_(Stream!vars)
    BY DEF MCNext, runVars, streamVars, Stream!vars
<1>5. BatcherInv => TypeOK
    BY DEF BatcherInv
<1>6. StreamInv => Stream!TypeOK
    BY StreamAssumption DEF StreamInv, StreamTypes, Stream!TypeOK, Delivered
<1> QED
    BY <1>1, <1>2, <1>3, <1>4, <1>5, <1>6, InitBatcherInv, NextBatcherInv, CacheHolds, StreamInit, NextStreamInv, PTL
       DEF MCSpec, runVars, TypesOK

=============================================================================
