--------------------------- MODULE ClusterProofs ---------------------------
(***************************************************************************)
(* What hosts agree on, for every value of the constants.                  *)
(*                                                                         *)
(* lease: mutual exclusion by the leader lease, for every set of clients,  *)
(* every assignment of holder names and every lease length.                *)
(* replicator: acknowledged writes stay on a quorum and reads that meet    *)
(* every quorum return nothing older, for every number of replicas and     *)
(* every quorum.                                                           *)
(* raft: a node that is killed anywhere keeps what it promised its peers,  *)
(* for every set of candidates and every length of its log file.           *)
(* snapshots: what LATEST names is there after every crash, and what was   *)
(* acknowledged is logged, for every number of files kept.                 *)
(* placement: regions are on different nodes, spread over the zones, for   *)
(* all nodes, loads and zones and however heartbeats time out during a     *)
(* pass.                                                                   *)
(* transport: every frame reaches the callback once at most and in order,  *)
(* for every number of frames, attempts and broken connections.            *)
(***************************************************************************)
EXTENDS MCCluster, FiniteSetsExt,
        FiniteSetTheorems, SequenceTheorems, NaturalsInduction, WellFoundedInduction, TLAPS

-----------------------------------------------------------------------------
(* lease *)
\* A client's copy is no newer than the lease and was given under its own name.
CopiesAreOlder ==
    \A c \in Client :
      /\ belief[c].holder \in {Name[c], NoHolder}
      /\ belief[c].fence <= lease.fence
      /\ belief[c].expires <= lease.expires

\* A client that may still trust its copy has its name on the lease.
TrustedIsHolder == \A c \in Client : Trusts(c) => lease.holder = Name[c]

\* The lease is never longer than lease_s.
LeaseBounded == lease.expires <= now + LeaseLen

\* No two clients were given the same fence.
FencesDiffer ==
    /\ lease.holder # NoHolder => lease.fence > 0
    /\ \A c, d \in Client : belief[c].fence = belief[d].fence /\ belief[c].fence > 0 => c = d

LeaderInv == TypeOK /\ LeaseBounded /\ CopiesAreOlder /\ TrustedIsHolder /\ FencesDiffer

\* The invariant holds before the first acquire.
LEMMA LeaderInit == Init => LeaderInv
  <1> SUFFICES ASSUME Init PROVE LeaderInv
    OBVIOUS
  <1> USE LeaderAssumption DEF Init, NoLease
  <1>1. TypeOK
    BY DEF TypeOK, Lease, Holder
  <1>2. LeaseBounded /\ CopiesAreOlder /\ TrustedIsHolder /\ FencesDiffer
    BY DEF LeaseBounded, CopiesAreOlder, TrustedIsHolder, FencesDiffer, Trusts
  <1> QED
    BY <1>1, <1>2 DEF LeaderInv

\* acquire (165-174) keeps the invariant: whoever trusted an older copy under another
\* name has seen it expire, or the lease would not be free.
LEMMA LeaderAcquire ==
  ASSUME LeaderInv, NEW c \in Client, Acquire(c)
  PROVE  LeaderInv'
  <1> USE LeaderAssumption DEF LeaderInv
  <1> DEFINE l == [holder |-> Name[c], term |-> term + 1, fence |-> fence + 1, expires |-> now + LeaseLen]
  <1>1. /\ lease' = l /\ term' = term + 1 /\ fence' = fence + 1 /\ now' = now
        /\ belief' = [belief EXCEPT ![c] = l]
    BY DEF Acquire, Give
  <1>2. l \in Lease /\ l.fence = fence + 1 /\ l.holder = Name[c] /\ l.expires = now + LeaseLen
    BY DEF TypeOK, Lease, Holder
  <1>3. TypeOK'
    BY <1>1, <1>2 DEF TypeOK
  <1>4. \A d \in Client : belief'[d] = IF d = c THEN l ELSE belief[d]
    BY <1>1 DEF TypeOK
  <1>5. lease.expires <= now \/ lease.holder = Name[c]
    BY DEF Acquire, Free, NoLease, TypeOK
  <1>6. CopiesAreOlder'
    <2> SUFFICES ASSUME NEW d \in Client
                 PROVE  /\ belief'[d].holder \in {Name[d], NoHolder}
                        /\ belief'[d].fence <= lease'.fence
                        /\ belief'[d].expires <= lease'.expires
      BY DEF CopiesAreOlder
    <2>1. CASE d = c
      BY <2>1, <1>1, <1>2, <1>4 DEF TypeOK
    <2>2. CASE d # c
      <3>1. belief'[d] = belief[d] /\ belief[d] \in Lease
        BY <2>2, <1>4 DEF TypeOK
      <3> QED
        BY <3>1, <1>1, <1>2 DEF LeaseBounded, CopiesAreOlder, TypeOK, Lease
    <2> QED
      BY <2>1, <2>2
  <1>7. TrustedIsHolder'
    <2> SUFFICES ASSUME NEW d \in Client, Trusts(d)'
                 PROVE  lease'.holder = Name[d]
      BY DEF TrustedIsHolder
    <2>1. CASE d = c
      BY <2>1, <1>1, <1>2
    <2>2. CASE d # c
      <3>1. Trusts(d)
        BY <2>2, <1>1, <1>4 DEF Trusts
      <3>2. lease.holder = Name[d] /\ lease.expires > now
        BY <3>1 DEF TrustedIsHolder, CopiesAreOlder, Trusts, TypeOK, Lease
      <3> QED
        BY <3>2, <1>1, <1>2, <1>5 DEF TypeOK, Lease
    <2> QED
      BY <2>1, <2>2
  <1>8. FencesDiffer'
    <2>1. \A d \in Client : d # c => belief'[d].fence < l.fence
      BY <1>2, <1>4 DEF CopiesAreOlder, TypeOK, Lease
    <2>2. \A d, e \in Client : belief'[d].fence = belief'[e].fence /\ belief'[d].fence > 0 => d = e
      BY <2>1, <1>4, <1>2 DEF FencesDiffer, TypeOK, Lease
    <2> QED
      BY <2>2, <1>1, <1>2 DEF FencesDiffer, TypeOK
  <1>9. LeaseBounded'
    BY <1>1, <1>2 DEF LeaseBounded, TypeOK
  <1> QED
    BY <1>3, <1>6, <1>7, <1>8, <1>9

\* renew (176-183) keeps the invariant: the caller's fence is the lease's, so nobody
\* else's copy can be the current one.
LEMMA LeaderRenew ==
  ASSUME LeaderInv, NEW c \in Client, Renew(c)
  PROVE  LeaderInv'
  <1> USE LeaderAssumption DEF LeaderInv
  <1> DEFINE l == [lease EXCEPT !.expires = now + LeaseLen]
  <1>1. /\ lease' = l /\ term' = term /\ fence' = fence /\ now' = now
        /\ belief' = [belief EXCEPT ![c] = l]
        /\ lease.holder = Name[c] /\ lease.fence = belief[c].fence
    BY DEF Renew, CanRenew, Give
  <1>2. /\ l \in Lease /\ l.fence = lease.fence /\ l.holder = lease.holder /\ l.term = lease.term
        /\ l.expires = now + LeaseLen
    BY DEF TypeOK, Lease
  <1>3. TypeOK' /\ LeaseBounded'
    BY <1>1, <1>2 DEF TypeOK, LeaseBounded
  <1>4. \A d \in Client : belief'[d] = IF d = c THEN l ELSE belief[d]
    BY <1>1 DEF TypeOK
  <1>5. CopiesAreOlder'
    BY <1>1, <1>2, <1>4 DEF CopiesAreOlder, LeaseBounded, TypeOK, Lease
  <1>6. TrustedIsHolder'
    BY <1>1, <1>2, <1>4 DEF TrustedIsHolder, Trusts
  <1>7. FencesDiffer'
    <2>1. \A d \in Client : belief'[d].fence = belief[d].fence
      BY <1>1, <1>2, <1>4
    <2> QED
      BY <2>1, <1>1, <1>2 DEF FencesDiffer
  <1> QED
    BY <1>3, <1>5, <1>6, <1>7

\* The passing of time only makes clients trust less.
LEMMA LeaderTick ==
  ASSUME LeaderInv, Tick
  PROVE  LeaderInv'
  <1> USE LeaderAssumption DEF LeaderInv, Tick
  <1>1. TypeOK' /\ LeaseBounded' /\ CopiesAreOlder' /\ FencesDiffer'
    BY DEF TypeOK, Lease, LeaseBounded, CopiesAreOlder, FencesDiffer
  <1>2. TrustedIsHolder'
    BY DEF TypeOK, Lease, TrustedIsHolder, Trusts
  <1> QED
    BY <1>1, <1>2

\* What the invariant says of two clients: one holder name, and one valid fence.
LEMMA LeaderInvImplies == LeaderInv => TypeOK /\ LeadersAgree /\ OneClientValidates
  <1> SUFFICES ASSUME LeaderInv PROVE LeadersAgree /\ OneClientValidates
    BY DEF LeaderInv
  <1> USE LeaderAssumption DEF LeaderInv
  <1>1. LeadersAgree
    BY DEF LeadersAgree, TrustedIsHolder
  <1>2. \A c \in Client : Name[c] # NoHolder
    OBVIOUS
  <1>3. OneClientValidates
    BY <1>2 DEF OneClientValidates, Validates, FencesDiffer
  <1> QED
    BY <1>1, <1>3

\* The invariant is kept by every step, steps of other parts of the system included.
LEMMA LeaderInductive == LeaderInv /\ [Next]_vars => LeaderInv'
  <1> SUFFICES ASSUME LeaderInv, [Next]_vars PROVE LeaderInv'
    OBVIOUS
  <1>1. CASE \E c \in Client : Acquire(c)
    BY <1>1, LeaderAcquire
  <1>2. CASE \E c \in Client : Renew(c)
    BY <1>2, LeaderRenew
  <1>3. CASE Tick
    BY <1>3, LeaderTick
  <1>4. CASE UNCHANGED vars
    BY <1>4 DEF vars, LeaderInv, TypeOK, LeaseBounded, CopiesAreOlder, TrustedIsHolder, Trusts, FencesDiffer
  <1> QED
    BY <1>1, <1>2, <1>3, <1>4 DEF Next

\* Every reachable state is well typed, and the lease carries the current counters.
THEOREM LeaderTypeOK == Spec => []TypeOK
  BY LeaderInit, LeaderInductive, LeaderInvImplies, PTL DEF Spec

\* No two clients that rely on the expiry they were given lead under different names.
THEOREM LeasesExclude == Spec => []LeadersAgree
  BY LeaderInit, LeaderInductive, LeaderInvImplies, PTL DEF Spec

\* No two clients hold a fence that validates, whatever names they use.
THEOREM FencesExclude == Spec => []OneClientValidates
  BY LeaderInit, LeaderInductive, LeaderInvImplies, PTL DEF Spec

\* A lease in force keeps its holder, is never shortened and never goes back to an
\* older fence.
THEOREM LeasesAreKept == Spec => LeaseIsKept
  <1> DEFINE Kept == /\ lease.expires > now => lease'.holder = lease.holder
                     /\ lease'.expires >= lease.expires
                     /\ lease'.fence >= lease.fence
  <1>1. ASSUME LeaderInv, [Next]_vars PROVE [Kept]_vars
    <2> USE LeaderAssumption
    <2>1. CASE \E c \in Client : Acquire(c)
      BY <1>1, <2>1 DEF LeaderInv, TypeOK, Lease, LeaseBounded, Acquire, Free, Give, NoLease
    <2>2. CASE \E c \in Client : Renew(c)
      BY <1>1, <2>2 DEF LeaderInv, TypeOK, Lease, LeaseBounded, Renew, CanRenew, Give
    <2>3. CASE Tick
      BY <1>1, <2>3 DEF LeaderInv, TypeOK, Lease, Tick
    <2>4. CASE UNCHANGED vars
      BY <2>4
    <2> QED
      BY <1>1, <2>1, <2>2, <2>3, <2>4 DEF Next
  <1> QED
    BY <1>1, LeaderInit, LeaderInductive, PTL DEF Spec, LeaseIsKept

\* A client that is fenced off stays so until it acquires a new fence.
THEOREM FencingIsFinal == Spec => FencedForGood
  <1> DEFINE Final == \A c \in Client : CanRenew(c)' => CanRenew(c) \/ belief[c]'.fence > fence
  <1>1. ASSUME LeaderInv, [Next]_vars PROVE [Final]_vars
    <2> USE LeaderAssumption DEF CanRenew
    <2>1. CASE \E d \in Client : Acquire(d)
      <3> PICK d \in Client : Acquire(d)
        BY <2>1
      <3> SUFFICES ASSUME NEW c \in Client, CanRenew(c)'
                   PROVE  belief[c]'.fence > fence
        OBVIOUS
      <3>1. lease'.fence = fence + 1
        BY DEF Acquire, Give
      <3> QED
        BY <1>1, <3>1 DEF LeaderInv, TypeOK
    <2>2. CASE \E d \in Client : Renew(d)
      <3> PICK d \in Client : Renew(d)
        BY <2>2
      <3> SUFFICES ASSUME NEW c \in Client, CanRenew(c)'
                   PROVE  CanRenew(c)
        OBVIOUS
      <3>1. CASE c = d
        BY <3>1 DEF Renew
      <3>2. CASE c # d
        BY <1>1, <3>2 DEF Renew, Give, LeaderInv, TypeOK, Lease
      <3> QED
        BY <3>1, <3>2
    <2>3. CASE Tick
      BY <2>3 DEF Tick
    <2>4. CASE UNCHANGED vars
      BY <2>4
    <2> QED
      BY <1>1, <2>1, <2>2, <2>3, <2>4 DEF Next
  <1> QED
    BY <1>1, LeaderInit, LeaderInductive, PTL DEF Spec, FencedForGood

-----------------------------------------------------------------------------
(* replicator *)

USE DEF Replica, Replicator!Replica

\* The replicas that reported success have what they were sent, or newer.
PutsLanded == write.busy => \A r \in write.ok : stored[r].revision >= write.record.revision

\* A replica has only revisions that some write was begun with.
RowsWereBegun ==
    /\ \A r \in Replica : stored[r].revision \in begun \cup {0}
    /\ write.busy => write.record.revision \in begun

\* The first write of a revision is the only one its rows can come from.
FirstIsAlone ==
    write.busy /\ write.first =>
      \A r \in Replica : stored[r].revision = write.record.revision => stored[r] = write.record

\* For every record acknowledged before the read there is a quorum that has it, or
\* newer, and whose answers the read took into account.
ReadMeetsQuorum ==
    \A a \in read.before :
      \E S \in SUBSET Replica :
        /\ Cardinality(S) >= Quorum
        /\ \A r \in S : r \in read.answered => read.best.revision >= a.revision
        /\ \A r \in S : stored[r].revision >= a.revision

ReplInv ==
    /\ Replicator!TypeOK
    /\ PutsLanded /\ RowsWereBegun /\ FirstIsAlone
    /\ AckedOnQuorum /\ ReadMeetsQuorum

\* There are finitely many replicas.
LEMMA ReplicasFinite == IsFiniteSet(Replica) /\ Cardinality(Replica) = N
  BY ReplicatorAssumption, FS_Interval DEF Replica

\* Two sets of replicas that together outnumber the replicas meet.
LEMMA QuorumsMeet ==
  ASSUME NEW S \in SUBSET Replica, NEW T \in SUBSET Replica,
         Cardinality(S) + Cardinality(T) > N
  PROVE  S \cap T # {}
  <1>1. IsFiniteSet(S) /\ IsFiniteSet(T)
    BY ReplicasFinite, FS_Subset
  <1>2. Cardinality(S \cup T) = Cardinality(S) + Cardinality(T) - Cardinality(S \cap T)
    BY <1>1, FS_Union
  <1>3. Cardinality(S \cup T) <= N
    <2>1. S \cup T \in SUBSET Replica
      OBVIOUS
    <2> QED
      BY <2>1, ReplicasFinite, FS_Subset
  <1>4. Cardinality(S) \in Nat /\ Cardinality(T) \in Nat /\ N \in Nat
    BY <1>1, FS_CardinalityType, ReplicatorAssumption
  <1> SUFFICES ASSUME S \cap T = {} PROVE FALSE
    OBVIOUS
  <1>5. Cardinality(S \cap T) = 0
    BY FS_EmptySet
  <1> QED
    BY <1>2, <1>3, <1>4, <1>5

\* A larger set of replicas is at least as numerous.
LEMMA MoreReplicas ==
  ASSUME NEW S \in SUBSET Replica, NEW T \in SUBSET Replica, S \subseteq T
  PROVE  Cardinality(S) <= Cardinality(T) /\ Cardinality(S) \in Nat /\ Cardinality(T) \in Nat
  BY ReplicasFinite, FS_Subset, FS_CardinalityType

\* A write in progress, or none.
WriteSlot == [busy : BOOLEAN, record : Replicator!Record \cup {Replicator!NoRecord}, next : 1..(N + 1),
              ok : SUBSET Replica, first : BOOLEAN]

\* The invariant holds before the first write.
LEMMA ReplInit == Replicator!Init => ReplInv
  <1> SUFFICES ASSUME Replicator!Init PROVE ReplInv
    OBVIOUS
  <1> USE ReplicatorAssumption DEF Replicator!Init, Replicator!IdleWrite, Replicator!IdleRead, Replicator!NoRecord
  <1>1. Replicator!TypeOK
    BY DEF Replicator!TypeOK, Replicator!Record, Replica
  <1>2. PutsLanded /\ RowsWereBegun /\ FirstIsAlone /\ AckedOnQuorum /\ ReadMeetsQuorum
    BY DEF PutsLanded, RowsWereBegun, FirstIsAlone, AckedOnQuorum, ReadMeetsQuorum
  <1> QED
    BY <1>1, <1>2 DEF ReplInv

\* Every step keeps the types.
LEMMA ReplTypes == Replicator!TypeOK /\ [Replicator!Next]_Replicator!vars => Replicator!TypeOK'
  <1> SUFFICES ASSUME Replicator!TypeOK, [Replicator!Next]_Replicator!vars PROVE Replicator!TypeOK'
    OBVIOUS
  <1> USE ReplicatorAssumption DEF Replicator!TypeOK, WriteSlot, Replicator!Newer
  <1>0. \A r \in Replicator!Record : r.revision \in Nat
    BY DEF Replicator!Record
  <1>1. ASSUME NEW v \in 1..MaxRev, NEW x \in Value, Replicator!BeginWrite(v, x) PROVE Replicator!TypeOK'
    <2>1. [revision |-> v, value |-> x] \in Replicator!Record
      BY DEF Replicator!Record
    <2>2. 1 \in 1..(N + 1) /\ begun \cup {v} \subseteq Nat /\ (v \notin begun) \in BOOLEAN
      OBVIOUS
    <2>3. /\ write' = [busy |-> TRUE, record |-> [revision |-> v, value |-> x], next |-> 1, ok |-> {},
                       first |-> v \notin begun]
          /\ begun' = begun \cup {v}
          /\ UNCHANGED <<stored, revisions, acked, used, read, firsts>>
      BY <1>1 DEF Replicator!BeginWrite
    <2>4. write' \in WriteSlot /\ write'.record \in Replicator!Record /\ write'.ok = {}
      BY <2>1, <2>2, <2>3
    <2> QED
      BY <2>2, <2>3, <2>4
  <1>2. ASSUME write.busy, write.next <= N, Replicator!Store(write.next) \/ UNCHANGED stored
        PROVE  stored' \in [Replica -> Replicator!Record \cup {Replicator!NoRecord}]
    BY <1>2 DEF Replicator!Store
  <1>3. CASE Replicator!PutSucceeds
    <2>1. /\ write' = [write EXCEPT !.ok = @ \cup {write.next}, !.next = @ + 1]
          /\ write.next \in Replica /\ write.next + 1 \in 1..(N + 1) /\ UNCHANGED <<revisions, acked, used, read, begun, firsts>>
      BY <1>3 DEF Replicator!PutSucceeds, Replica
    <2>2. /\ write' \in WriteSlot
          /\ write'.busy = write.busy /\ write'.record = write.record
          /\ write'.ok = write.ok \cup {write.next} /\ write'.next = write.next + 1
      BY <2>1
    <2>3. \A r \in write'.ok : r < write'.next
      BY <2>1, <2>2 DEF Replica
    <2> QED
      BY <1>2, <1>3, <2>1, <2>2, <2>3 DEF Replicator!PutSucceeds
  <1>4. CASE Replicator!PutRaises
    <2>1. /\ write' = [write EXCEPT !.next = @ + 1] /\ write.next + 1 \in 1..(N + 1)
          /\ UNCHANGED <<revisions, acked, used, read, begun, firsts>>
      BY <1>4 DEF Replicator!PutRaises
    <2>2. /\ write' \in WriteSlot
          /\ write'.busy = write.busy /\ write'.record = write.record
          /\ write'.ok = write.ok /\ write'.next = write.next + 1
      BY <2>1
    <2>3. \A r \in write'.ok : r < write'.next
      BY <2>1, <2>2 DEF Replica
    <2> QED
      BY <1>2, <1>4, <2>1, <2>2, <2>3 DEF Replicator!PutRaises
  <1>5. /\ Replicator!IdleWrite \in WriteSlot
        /\ Replicator!IdleWrite.busy = FALSE /\ Replicator!IdleWrite.ok = {}
    BY DEF Replicator!IdleWrite
  <1>6. CASE Replicator!WriteReturns
    BY <1>0, <1>5, <1>6 DEF Replicator!WriteReturns
  <1>7. CASE Replicator!WriteRaises
    BY <1>5, <1>7 DEF Replicator!WriteRaises
  <1>8. Replicator!IdleRead \in [busy : BOOLEAN, next : 1..(N + 1), answered : SUBSET Replica,
                      best : Replicator!Record \cup {Replicator!NoRecord}, before : SUBSET acked]
    BY DEF Replicator!IdleRead
  <1>9. CASE Replicator!BeginRead
    BY <1>8, <1>9 DEF Replicator!BeginRead
  <1>10. CASE Replicator!GetSucceeds
    <2>1. read.next \in Replica /\ read.next + 1 \in 1..(N + 1)
      BY <1>10 DEF Replicator!GetSucceeds, Replica
    <2> QED
      BY <1>10, <2>1 DEF Replicator!GetSucceeds
  <1>11. CASE Replicator!GetRaises
    <2>1. read.next + 1 \in 1..(N + 1)
      BY <1>11 DEF Replicator!GetRaises
    <2> QED
      BY <1>11, <2>1 DEF Replicator!GetRaises
  <1>12. CASE Replicator!ReadReturns
    <2>1. read.best.revision \in Nat
      BY <1>0 DEF Replicator!NoRecord
    <2>2. Replicator!Newer(read.best.revision, revisions) \in Nat /\ Replicator!Newer(read.best.revision, used) \in Nat
      BY <2>1
    <2>3. /\ revisions' \in Nat /\ used' \in Nat /\ read' = Replicator!IdleRead
          /\ UNCHANGED <<stored, write, acked, begun, firsts>>
      BY <1>12, <2>2 DEF Replicator!ReadReturns
    <2> QED
      BY <1>8, <2>3
  <1>13. CASE Replicator!Restart
    BY <1>5, <1>8, <1>13 DEF Replicator!Restart
  <1>14. CASE UNCHANGED Replicator!vars
    BY <1>14 DEF Replicator!vars
  <1> QED
    BY <1>1, <1>3, <1>4, <1>6, <1>7, <1>9, <1>10, <1>11, <1>12, <1>13, <1>14 DEF Replicator!Next

\* The upsert never lowers a replica's revision, so neither does any step.
LEMMA StoredGrows ==
  ASSUME Replicator!TypeOK, [Replicator!Next]_Replicator!vars, NEW r \in Replica
  PROVE  /\ stored'[r].revision >= stored[r].revision
         /\ stored'[r].revision \in Nat /\ stored[r].revision \in Nat
  <1> USE DEF Replicator!TypeOK, Replicator!Record, Replicator!NoRecord
  <1>1. CASE UNCHANGED stored
    BY <1>1
  <1>2. ASSUME Replicator!Store(write.next) PROVE stored'[r].revision >= stored[r].revision
    BY <1>2 DEF Replicator!Store
  <1>3. Replicator!TypeOK'
    BY ReplTypes
  <1> QED
    BY <1>1, <1>2, <1>3 DEF Replicator!Next, Replicator!vars, Replicator!BeginWrite, Replicator!PutSucceeds, Replicator!PutRaises, Replicator!WriteReturns, Replicator!WriteRaises,
       Replicator!BeginRead, Replicator!GetSucceeds, Replicator!GetRaises, Replicator!ReadReturns, Replicator!Restart

\* put() of a record leaves the replica with it or with something newer.
LEMMA ReplPutsLanded == ReplInv /\ [Replicator!Next]_Replicator!vars => PutsLanded'
  <1> SUFFICES ASSUME ReplInv, [Replicator!Next]_Replicator!vars, write'.busy, NEW r \in write'.ok
               PROVE  stored'[r].revision >= write'.record.revision
    BY DEF PutsLanded
  <1> USE DEF ReplInv
  <1>0. Replicator!TypeOK' /\ r \in Replica
    BY ReplTypes DEF Replicator!TypeOK
  <1>a. /\ stored'[r].revision >= stored[r].revision
        /\ stored'[r].revision \in Nat /\ stored[r].revision \in Nat /\ write.record.revision \in Nat
    <2>1. write.record.revision \in Nat
      BY DEF Replicator!TypeOK, Replicator!Record, Replicator!NoRecord
    <2> QED
      BY <1>0, <2>1, StoredGrows
  <1>1. CASE write'.record = write.record /\ write'.busy = write.busy /\ write'.ok = write.ok
    <2>1. stored[r].revision >= write.record.revision
      BY <1>1 DEF PutsLanded
    <2> QED
      BY <1>0, <1>1, <1>a, <2>1
  <1>2. CASE Replicator!PutSucceeds
    <2>1. write'.record = write.record /\ write'.ok = write.ok \cup {write.next} /\ write.busy
      BY <1>2 DEF Replicator!PutSucceeds, Replicator!TypeOK
    <2>2. CASE r \in write.ok
      <3>1. stored[r].revision >= write.record.revision
        BY <2>1, <2>2 DEF PutsLanded
      <3> QED
        BY <1>a, <2>1, <3>1
    <2>3. CASE r = write.next
      BY <2>1, <2>3, <1>0, <1>2 DEF Replicator!PutSucceeds, Replicator!Store, Replicator!TypeOK, Replicator!Record, Replicator!NoRecord
    <2> QED
      BY <2>1, <2>2, <2>3
  <1>3. CASE Replicator!PutRaises
    BY <1>1, <1>3 DEF Replicator!PutRaises, Replicator!TypeOK
  <1>4. ASSUME NEW v \in 1..MaxRev, NEW x \in Value, Replicator!BeginWrite(v, x) PROVE FALSE
    BY <1>4, <1>0 DEF Replicator!BeginWrite
  <1>5. CASE write' = Replicator!IdleWrite
    BY <1>5 DEF Replicator!IdleWrite
  <1>6. CASE UNCHANGED write
    BY <1>1, <1>6
  <1> QED
    BY <1>2, <1>3, <1>4, <1>5, <1>6 DEF Replicator!Next, Replicator!vars, Replicator!WriteReturns, Replicator!WriteRaises,
       Replicator!BeginRead, Replicator!GetSucceeds, Replicator!GetRaises, Replicator!ReadReturns, Replicator!Restart

\* A row is of a write that was begun, and the rows of a revision whose first write is in
\* progress are all of that write.
LEMMA ReplBegun == ReplInv /\ [Replicator!Next]_Replicator!vars => RowsWereBegun' /\ FirstIsAlone'
  <1> SUFFICES ASSUME ReplInv, [Replicator!Next]_Replicator!vars PROVE RowsWereBegun' /\ FirstIsAlone'
    OBVIOUS
  <1>0. /\ Replicator!TypeOK /\ RowsWereBegun /\ FirstIsAlone
        /\ stored \in [Replica -> Replicator!Record \cup {Replicator!NoRecord}]
    BY DEF ReplInv, Replicator!TypeOK
  <1>1. CASE UNCHANGED <<stored, begun>> /\ (write' = write \/ ~write'.busy)
    BY <1>0, <1>1 DEF RowsWereBegun, FirstIsAlone
  <1>2. ASSUME NEW v \in 1..MaxRev, NEW x \in Value, Replicator!BeginWrite(v, x)
        PROVE  RowsWereBegun' /\ FirstIsAlone'
    <2>1. /\ stored' = stored /\ begun' = begun \cup {v}
          /\ write'.record.revision = v /\ write'.first = (v \notin begun)
      BY <1>2 DEF Replicator!BeginWrite
    <2>2. v # 0
      OBVIOUS
    <2> QED
      BY <1>0, <2>1, <2>2 DEF RowsWereBegun, FirstIsAlone
  <1>3. CASE Replicator!PutSucceeds \/ Replicator!PutRaises
    <2>1. /\ write.busy /\ begun' = begun
          /\ write'.busy = write.busy /\ write'.record = write.record /\ write'.first = write.first
      BY <1>0, <1>3 DEF Replicator!PutSucceeds, Replicator!PutRaises, Replicator!TypeOK
    <2>2. \A r \in Replica : stored'[r] = stored[r] \/ stored'[r] = write.record
      BY <1>0, <1>3 DEF Replicator!PutSucceeds, Replicator!PutRaises, Replicator!Store
    <2> QED
      BY <1>0, <2>1, <2>2 DEF RowsWereBegun, FirstIsAlone
  <1>4. ~Replicator!IdleWrite.busy
    BY DEF Replicator!IdleWrite
  <1> QED
    BY <1>1, <1>2, <1>3, <1>4 DEF Replicator!Next, Replicator!vars, Replicator!WriteReturns, Replicator!WriteRaises,
       Replicator!BeginRead, Replicator!GetSucceeds, Replicator!GetRaises, Replicator!ReadReturns, Replicator!Restart

\* A replica that has a record, or a newer one, still does after any step.
LEMMA KeepersStay ==
  ASSUME Replicator!TypeOK, [Replicator!Next]_Replicator!vars, NEW a \in Replicator!Record
  PROVE  Keepers(a) \subseteq Keepers(a)'
  <1> SUFFICES ASSUME NEW r \in Replica, stored[r] = a \/ stored[r].revision > a.revision
               PROVE  stored'[r] = a \/ stored'[r].revision > a.revision
    BY DEF Keepers
  <1>0. stored[r].revision \in Nat /\ stored'[r].revision \in Nat /\ a.revision \in Nat
    BY StoredGrows DEF Replicator!Record
  <1>1. CASE UNCHANGED stored
    BY <1>1
  <1>2. ASSUME Replicator!Store(write.next) PROVE stored'[r] = a \/ stored'[r].revision > a.revision
    <2>1. stored'[r] = stored[r] \/ (stored'[r] = write.record /\ stored[r].revision < write.record.revision)
      BY <1>2 DEF Replicator!Store, Replicator!TypeOK
    <2>2. stored'[r] = stored[r] \/ stored'[r].revision > stored[r].revision
      <3>1. write.record.revision \in Nat
        BY DEF Replicator!TypeOK, Replicator!Record, Replicator!NoRecord
      <3> QED
        BY <1>0, <2>1, <3>1
    <2> QED
      BY <1>0, <2>2
  <1> QED
    BY <1>1, <1>2 DEF Replicator!Next, Replicator!vars, Replicator!BeginWrite, Replicator!PutSucceeds, Replicator!PutRaises,
       Replicator!WriteReturns, Replicator!WriteRaises, Replicator!BeginRead, Replicator!GetSucceeds, Replicator!GetRaises,
       Replicator!ReadReturns, Replicator!Restart

\* The successes of a returning write have its revision or a newer one and, if it is the
\* first write of its revision, its record or a newer one.
LEMMA ReturnsHeld ==
  ASSUME ReplInv, Replicator!WriteReturns
  PROVE  /\ write.record \in Replicator!Record /\ write.ok \in SUBSET Replica
         /\ write.ok \subseteq Holders(write.record.revision)
         /\ write.first => write.ok \subseteq Keepers(write.record)
         /\ Cardinality(write.ok) >= Quorum
  <1>1. write.busy /\ write.record \in Replicator!Record /\ write.ok \in SUBSET Replica
    BY DEF ReplInv, Replicator!WriteReturns, Replicator!TypeOK
  <1>2. \A r \in write.ok : stored[r].revision >= write.record.revision
    BY <1>1 DEF ReplInv, PutsLanded
  <1>3. write.first => \A r \in Replica : stored[r].revision = write.record.revision => stored[r] = write.record
    BY <1>1 DEF ReplInv, FirstIsAlone
  <1>4. \A r \in Replica : stored[r].revision \in Nat
    BY DEF ReplInv, Replicator!TypeOK, Replicator!Record, Replicator!NoRecord
  <1>5. write.record.revision \in Nat
    BY <1>1 DEF Replicator!Record
  <1>6. write.first => \A r \in write.ok : stored[r] = write.record \/ stored[r].revision > write.record.revision
    BY <1>1, <1>2, <1>3, <1>4, <1>5
  <1>7. Cardinality(write.ok) >= Quorum
    BY DEF Replicator!WriteReturns, Cardinality, Replicator!Cardinality
  <1> QED
    BY <1>1, <1>2, <1>6, <1>7 DEF Holders, Keepers

\* A returning write has its quorum, and no later step takes it away.
LEMMA ReplAcked == ReplInv /\ [Replicator!Next]_Replicator!vars => AckedOnQuorum'
  <1> SUFFICES ASSUME ReplInv, [Replicator!Next]_Replicator!vars PROVE AckedOnQuorum'
    OBVIOUS
  <1>0. /\ Replicator!TypeOK /\ AckedOnQuorum
        /\ acked \subseteq Replicator!Record /\ firsts \subseteq Replicator!Record
    BY DEF ReplInv, Replicator!TypeOK
  <1>1. \/ UNCHANGED <<acked, firsts>>
        \/ /\ Replicator!WriteReturns /\ stored' = stored
           /\ acked' = acked \cup {write.record}
           /\ firsts' = IF write.first THEN firsts \cup {write.record} ELSE firsts
    BY DEF Replicator!Next, Replicator!vars, Replicator!BeginWrite, Replicator!PutSucceeds, Replicator!PutRaises,
       Replicator!WriteReturns, Replicator!WriteRaises, Replicator!BeginRead, Replicator!GetSucceeds, Replicator!GetRaises,
       Replicator!ReadReturns, Replicator!Restart
  <1>2. ASSUME NEW a \in acked'
        PROVE  Cardinality(Holders(a.revision)') >= Quorum
    <2>0. Holders(a.revision) \in SUBSET Replica /\ Holders(a.revision)' \in SUBSET Replica
      BY DEF Holders
    <2>1. CASE a \in acked
      <3>1. a.revision \in Nat
        BY <1>0, <2>1 DEF Replicator!Record
      <3>2. Holders(a.revision) \subseteq Holders(a.revision)'
        BY <1>0, <3>1, StoredGrows DEF Holders
      <3>3. Cardinality(Holders(a.revision)) >= Quorum
        BY <1>0, <2>1 DEF AckedOnQuorum
      <3> QED
        BY <2>0, <3>2, <3>3, MoreReplicas, ReplicatorAssumption
    <2>2. CASE a \notin acked
      <3>1. Replicator!WriteReturns /\ stored' = stored /\ a = write.record
        BY <1>1, <1>2, <2>2
      <3>2. Holders(a.revision)' = Holders(a.revision)
        BY <3>1 DEF Holders
      <3>3. /\ write.ok \in SUBSET Replica /\ write.ok \subseteq Holders(a.revision)'
            /\ Cardinality(write.ok) >= Quorum
        BY <3>1, <3>2, ReturnsHeld
      <3> QED
        BY <2>0, <3>3, MoreReplicas, ReplicatorAssumption
    <2> QED
      BY <2>1, <2>2
  <1>3. ASSUME NEW a \in firsts'
        PROVE  Cardinality(Keepers(a)') >= Quorum
    <2>0. Keepers(a) \in SUBSET Replica /\ Keepers(a)' \in SUBSET Replica
      BY DEF Keepers
    <2>1. CASE a \in firsts
      <3>1. Keepers(a) \subseteq Keepers(a)'
        BY <1>0, <2>1, KeepersStay
      <3>2. Cardinality(Keepers(a)) >= Quorum
        BY <1>0, <2>1 DEF AckedOnQuorum
      <3> QED
        BY <2>0, <3>1, <3>2, MoreReplicas, ReplicatorAssumption
    <2>2. CASE a \notin firsts
      <3>1. Replicator!WriteReturns /\ stored' = stored /\ a = write.record /\ write.first
        BY <1>1, <1>3, <2>2
      <3>2. Keepers(a)' = Keepers(a)
        BY <3>1 DEF Keepers
      <3>3. /\ write.ok \in SUBSET Replica /\ write.ok \subseteq Keepers(a)'
            /\ Cardinality(write.ok) >= Quorum
        BY <3>1, <3>2, ReturnsHeld
      <3> QED
        BY <2>0, <3>3, MoreReplicas, ReplicatorAssumption
    <2> QED
      BY <2>1, <2>2
  <1> QED
    BY <1>2, <1>3 DEF AckedOnQuorum

\* A read starts with the quorums of what was acknowledged; an answer of one of their
\* members is at least as new as the record.
LEMMA ReplReads == ReplInv /\ [Replicator!Next]_Replicator!vars => ReadMeetsQuorum'
  <1> SUFFICES ASSUME ReplInv, [Replicator!Next]_Replicator!vars, NEW a \in read'.before
               PROVE  \E S \in SUBSET Replica :
                        /\ Cardinality(S) >= Quorum
                        /\ \A r \in S : r \in read'.answered => read'.best.revision >= a.revision
                        /\ \A r \in S : stored'[r].revision >= a.revision
    BY DEF ReadMeetsQuorum
  <1> USE DEF ReplInv
  <1>0. Replicator!TypeOK' /\ a \in Replicator!Record /\ a.revision \in Nat
    BY ReplTypes DEF Replicator!TypeOK, Replicator!Record
  <1>1. CASE Replicator!BeginRead
    <2>1. Holders(a.revision) \in SUBSET Replica /\ Cardinality(Holders(a.revision)) >= Quorum
      BY <1>1 DEF Replicator!BeginRead, Replicator!IdleRead, AckedOnQuorum, Holders
    <2>2. read'.answered = {}
      BY <1>1 DEF Replicator!BeginRead, Replicator!IdleRead
    <2>3. \A r \in Holders(a.revision) : stored'[r].revision >= a.revision
      BY <1>1 DEF Replicator!BeginRead, Holders
    <2> QED
      BY <2>1, <2>2, <2>3
  <1>2. CASE Replicator!Restart
    BY <1>2 DEF Replicator!Restart, Replicator!IdleRead
  <1>3. ASSUME a \in read.before,
               \A S \in SUBSET Replica :
                 (/\ \A r \in S : r \in read.answered => read.best.revision >= a.revision
                  /\ \A r \in S : stored[r].revision >= a.revision)
                 => \A r \in S : r \in read'.answered => read'.best.revision >= a.revision
        PROVE  \E S \in SUBSET Replica :
                 /\ Cardinality(S) >= Quorum
                 /\ \A r \in S : r \in read'.answered => read'.best.revision >= a.revision
                 /\ \A r \in S : stored'[r].revision >= a.revision
    <2>1. PICK S \in SUBSET Replica :
             /\ Cardinality(S) >= Quorum
             /\ \A r \in S : r \in read.answered => read.best.revision >= a.revision
             /\ \A r \in S : stored[r].revision >= a.revision
      BY <1>3 DEF ReadMeetsQuorum
    <2>2. \A r \in S : stored'[r].revision >= a.revision
      BY <2>1, <1>0, StoredGrows
    <2> QED
      BY <2>1, <2>2, <1>3
  <1>4. CASE Replicator!GetSucceeds
    <2>1. /\ read'.before = read.before
          /\ read'.answered = read.answered \cup {read.next}
          /\ read'.best = IF Replicator!Wins(stored[read.next], read.best) THEN stored[read.next] ELSE read.best
          /\ read.next \in Replica
      BY <1>4 DEF Replicator!GetSucceeds, Replicator!TypeOK, Replica
    <2>2. /\ read'.best.revision >= read.best.revision /\ read'.best.revision >= stored[read.next].revision
          /\ read'.best.revision \in Nat /\ read.best.revision \in Nat /\ stored[read.next].revision \in Nat
      BY <2>1, <1>0 DEF Replicator!Wins, Replicator!TypeOK, Replicator!Record, Replicator!NoRecord
    <2> QED
      BY <1>3, <2>1, <2>2, <1>0
  <1>5. CASE read'.before = read.before /\ read'.answered = read.answered /\ read'.best = read.best
    BY <1>3, <1>5
  <1>6. CASE Replicator!ReadReturns
    BY <1>6 DEF Replicator!ReadReturns, Replicator!IdleRead
  <1> QED
    BY <1>1, <1>2, <1>4, <1>5, <1>6 DEF Replicator!Next, Replicator!vars, Replicator!TypeOK, Replicator!BeginWrite, Replicator!PutSucceeds, Replicator!PutRaises, Replicator!WriteReturns,
       Replicator!WriteRaises, Replicator!GetRaises

\* The invariant is kept by every step.
LEMMA ReplInductive == ReplInv /\ [Replicator!Next]_Replicator!vars => ReplInv'
  BY ReplTypes, ReplPutsLanded, ReplBegun, ReplAcked, ReplReads DEF ReplInv

\* A read with N - Quorum + 1 answers met the quorum of every acknowledged record.
LEMMA ReplReadsRecent == ReplInv => QuorumReadIsRecent
  <1> SUFFICES ASSUME ReplInv, read.next > N, Cardinality(read.answered) + Quorum > N, NEW a \in read.before
               PROVE  read.best.revision >= a.revision
    BY DEF QuorumReadIsRecent
  <1>1. PICK S \in SUBSET Replica :
             /\ Cardinality(S) >= Quorum
             /\ \A r \in S : r \in read.answered => read.best.revision >= a.revision
    BY DEF ReplInv, ReadMeetsQuorum
  <1>2. read.answered \in SUBSET Replica
    BY DEF ReplInv, Replicator!TypeOK
  <1>3. Cardinality(S) \in Nat /\ Cardinality(read.answered) \in Nat
    BY <1>2, MoreReplicas
  <1>4. Cardinality(S) + Cardinality(read.answered) > N
    BY <1>1, <1>3, ReplicatorAssumption
  <1>5. S \cap read.answered # {}
    BY <1>2, <1>4, QuorumsMeet
  <1> QED
    BY <1>1, <1>5

\* Every reachable state is well typed; successes are replicas already tried.
THEOREM ReplicatorTypeOK == Replicator!Spec => []Replicator!TypeOK
  BY ReplInit, ReplInductive, PTL DEF Replicator!Spec, ReplInv

\* The revision of an acknowledged write, or a newer one, stays on a quorum of replicas;
\* and so does the record itself, payload included, or a newer one, when its write was the
\* first that was begun with its revision (replication.py, write).
THEOREM AcksAreDurable == Replicator!Spec => []AckedOnQuorum
  BY ReplInit, ReplInductive, PTL DEF Replicator!Spec, ReplInv

\* A read that meets every quorum returns nothing older than what was acknowledged
\* before it began.
THEOREM ReadsAreRecent == Replicator!Spec => []QuorumReadIsRecent
  BY ReplInit, ReplInductive, ReplReadsRecent, PTL DEF Replicator!Spec

\* A write in progress is newer than _revisions, which no read raises meanwhile, and
\* _revisions has caught up with everything acknowledged or read.
UsedIsOld == used <= revisions /\ (write.busy => write.record.revision > revisions)

LEMMA ReplUsed ==
  ASSUME Replicator!TypeOK, UsedIsOld, [Replicator!Next]_Replicator!vars
  PROVE  /\ UsedIsOld'
         /\ [write'.busy /\ ~write.busy => write'.record.revision > used]_Replicator!vars
  <1> USE DEF UsedIsOld, Replicator!Newer
  <1>0. /\ revisions \in Nat /\ used \in Nat /\ read.best.revision \in Nat
        /\ write.record.revision \in Nat
    BY DEF Replicator!TypeOK, Replicator!Record, Replicator!NoRecord
  <1>1. ASSUME NEW v \in 1..MaxRev, NEW x \in Value, Replicator!BeginWrite(v, x)
        PROVE  UsedIsOld' /\ write'.record.revision > used
    BY <1>0, <1>1 DEF Replicator!BeginWrite
  <1>2. CASE Replicator!PutSucceeds \/ Replicator!PutRaises
    <2>1. /\ UNCHANGED <<revisions, used>> /\ write'.busy = write.busy
          /\ write'.record = write.record
      BY <1>2 DEF Replicator!PutSucceeds, Replicator!PutRaises, Replicator!TypeOK
    <2> QED
      BY <2>1, <1>2 DEF Replicator!PutSucceeds, Replicator!PutRaises
  <1>3. CASE Replicator!WriteReturns
    BY <1>0, <1>3 DEF Replicator!WriteReturns, Replicator!IdleWrite
  <1>4. CASE Replicator!WriteRaises
    BY <1>4 DEF Replicator!WriteRaises, Replicator!IdleWrite
  <1>5. CASE Replicator!BeginRead \/ Replicator!GetSucceeds \/ Replicator!GetRaises \/ UNCHANGED Replicator!vars
    BY <1>5 DEF Replicator!BeginRead, Replicator!GetSucceeds, Replicator!GetRaises, Replicator!vars
  <1>6. CASE Replicator!ReadReturns
    <2>1. UNCHANGED write /\ used' = Replicator!Newer(read.best.revision, used)
      BY <1>6 DEF Replicator!ReadReturns
    <2>2. CASE read.best = Replicator!NoRecord
      <3>1. read.best.revision = 0
        BY <2>2 DEF Replicator!NoRecord
      <3>2. revisions' = revisions
        BY <1>0, <1>6, <3>1 DEF Replicator!ReadReturns
      <3> QED
        BY <1>0, <2>1, <3>1, <3>2
    <2>3. CASE ~write.busy
      <3>1. revisions' >= revisions /\ revisions' >= read.best.revision /\ revisions' \in Nat
        BY <1>0, <1>6 DEF Replicator!ReadReturns
      <3> QED
        BY <1>0, <2>1, <2>3, <3>1
    <2> QED
      BY <1>6, <2>2, <2>3 DEF Replicator!ReadReturns
  <1>7. CASE Replicator!Restart
    BY <1>7 DEF Replicator!Restart, Replicator!IdleWrite
  <1> QED
    BY <1>1, <1>2, <1>3, <1>4, <1>5, <1>6, <1>7 DEF Replicator!Next

LEMMA ReplUsedInit == Replicator!Init => UsedIsOld
  BY DEF Replicator!Init, UsedIsOld, Replicator!IdleWrite

\* Within a coordinator's life no revision that was acknowledged or read is used again.
THEOREM RevisionsAreMonotonic == Replicator!Spec => Replicator!RevisionsGrow
  <1> DEFINE New == write'.busy /\ ~write.busy => write'.record.revision > used
  <1>1. ReplInv /\ UsedIsOld /\ [Replicator!Next]_Replicator!vars => UsedIsOld' /\ [New]_Replicator!vars
    BY ReplUsed DEF ReplInv
  <1> QED
    BY <1>1, ReplInit, ReplUsedInit, ReplInductive, PTL DEF Replicator!Spec, Replicator!RevisionsGrow

-----------------------------------------------------------------------------
(* raft *)

USE DEF Nobody, Raft!Nobody

HardState == [term : 0..MaxTerm, vote : Candidate \cup {Nobody}]

\* A line of the log file: at most one entry, at most one hard state.
WalLine == {l \in [from : Nat \ {0}, entries : Seq(1..MaxTerm), hard : SUBSET HardState] :
              /\ Len(l.entries) <= 1 /\ l.from + Len(l.entries) <= MaxIndex + 1
              /\ \A g, h \in l.hard : g = h}

\* The library's Ready, which may be in the course of being logged.
ReadyBatch == [from : Nat \ {0}, entries : Seq(1..MaxTerm), hard : SUBSET HardState,
               votes : SUBSET [term : 0..MaxTerm, for : Candidate, entries : BOOLEAN], acked : Nat]

RaftTypes ==
    /\ hard \in HardState
    /\ log \in Seq(1..MaxTerm) /\ Len(log) <= MaxIndex
    /\ emit \in {"idle", "wal", "send", "halted", "torn"}
    /\ ready \subseteq ReadyBatch /\ \A q \in ready : Raft!Line(q) \in WalLine
    /\ wal \in Seq(WalLine) /\ Len(wal) <= MaxWal /\ (emit = "wal" => Len(wal) < MaxWal)
    /\ votes \subseteq [term : 0..MaxTerm, for : Candidate, entries : BOOLEAN]
    /\ owed \in Seq(1..MaxTerm)
    /\ (ready # {} <=> emit \in {"wal", "send", "halted"})
    /\ \A p, q \in ready : p = q

\* load() finds a log without gaps.
LoadFindsALog == Raft!Folded(wal) \in Seq(1..MaxTerm) /\ Len(Raft!Folded(wal)) <= MaxIndex

\* The first n entries of the node's log are in the log file.
Logged(n) == n <= Len(Raft!Folded(wal)) /\ \A i \in 1..n : Raft!Folded(wal)[i] = log[i]

\* Before a Ready is written the log is the old one and its entries; afterwards it is logged.
LogIsLogged ==
    /\ emit \in {"idle", "send"} => Logged(Len(log))
    /\ emit \in {"wal", "halted"} => \A q \in ready :
         /\ Logged(q.from - 1)
         /\ Len(log) = q.from - 1 + Len(q.entries)
         /\ q.entries # <<>> => log[q.from] = q.entries[1]

\* The node's hard state is the last one in the log file, unless there is nothing else in it.
Persisted(h) == h = Raft!HardOf(wal) \/ (h = Raft!Fresh /\ Raft!Folded(wal) = <<>>)

HardIsLogged ==
    /\ emit \in {"idle", "send"} => Persisted(hard)
    /\ emit \in {"wal", "halted"} => \A q \in ready :
         /\ q.hard \subseteq {hard}
         /\ q.hard = {} => Persisted(hard)
         /\ q.hard = {} /\ q.entries # <<>> => hard # Raft!Fresh

\* h does not let the node vote against v again.
Binds(h, v) == h.term > v.term \/ (h.term = v.term /\ h.vote = v.for)

VotesBind ==
    /\ \A v \in votes : v.entries => /\ Raft!Folded(wal) # <<>>
                                     /\ Binds(Raft!HardOf(wal), v)
                                     /\ emit # "torn" => Binds(hard, v)
    /\ emit \in {"wal", "send", "halted"} => \A q \in ready : \A v \in q.votes :
         v.term = hard.term /\ v.for = hard.vote /\ (v.entries => log # <<>>)
    /\ \A v, w \in votes : v.term = w.term /\ v.entries /\ w.entries => v.for = w.for

\* What is owed is in the log, and already in the log file.
OwedIsLogged ==
    /\ emit # "torn" => IsPrefix(owed, log)
    /\ emit \in {"wal", "halted"} => \A q \in ready : Len(owed) < q.from
    /\ emit \in {"wal", "send", "halted"} => \A q \in ready : q.acked <= Len(log)

RaftInv == RaftTypes /\ LoadFindsALog /\ LogIsLogged /\ HardIsLogged /\ VotesBind /\ OwedIsLogged

-----------------------------------------------------------------------------
(* The log file. *)

\* The lines that hold an entry of index i, and those that hold a hard state.
Writes(lines, i) == {n \in DOMAIN lines : lines[n].entries # <<>> /\ lines[n].from = i}
Votings(lines)   == {n \in DOMAIN lines : lines[n].hard # {}}

\* A set of natural numbers that is not empty has a smallest one.
LEMMA SmallestNumber ==
    ASSUME NEW T, T \subseteq Nat, T # {}
    PROVE  \E x \in T : \A y \in T : x <= y
<1>1. PICK x \in T : \A y \in T : ~ (<<y, x>> \in OpToRel(<, Nat))
    BY WFMin, NatLessThanWellFounded
<1>2. \A y \in T : ~ (y < x)
    BY <1>1 DEF OpToRel
<1> QED
    BY <1>2

\* Induction up to n, for the set of the numbers that have what is to be proved.
LEMMA InductionTo ==
  ASSUME NEW n \in Nat, NEW T, 0 \in T, \A k \in 1..n : k - 1 \in T => k \in T
  PROVE  0..n \subseteq T
  <1> DEFINE U == (0..n) \ T
  <1> SUFFICES ASSUME U # {} PROVE FALSE
    OBVIOUS
  <1>1. PICK u \in U : \A v \in U : u <= v
    <2>1. U \subseteq Nat
      OBVIOUS
    <2> HIDE DEF U
    <2> QED
      BY <2>1, SmallestNumber
  <1>2. u \in 1..n /\ u - 1 \in 0..n /\ ~(u <= u - 1)
    OBVIOUS
  <1>3. u - 1 \in T
    BY <1>1, <1>2
  <1> QED
    BY <1>1, <1>2, <1>3

\* A set of line numbers that is not empty has a last one.
LEMMA LastLine ==
    ASSUME NEW L \in Nat, NEW T, T \subseteq 1..L, T # {}
    PROVE  Raft!Max(T) \in T /\ \A y \in T : y <= Raft!Max(T)
<1> DEFINE D == {L - x : x \in T}
<1>1. \A x \in T : x \in Nat /\ L - x \in Nat
    OBVIOUS
<1>2. D \subseteq Nat /\ D # {}
    BY <1>1
<1>3. PICK d \in D : \A y \in D : d <= y
    <2> HIDE DEF D
    <2> QED
        BY <1>2, SmallestNumber
<1>4. PICK x \in T : d = L - x
    OBVIOUS
<1>5. \A y \in T : x >= y
    <2> SUFFICES ASSUME NEW y \in T PROVE x >= y
        OBVIOUS
    <2>1. L - y \in D
        OBVIOUS
    <2>2. L - x <= L - y
        BY <2>1, <1>3, <1>4
    <2> QED
        BY <2>2, <1>1
<1> QED
    BY <1>5, <1>1 DEF Raft!Max

\* A sequence is empty exactly if its length is zero.
LEMMA EmptyIsShort ==
    ASSUME NEW S, NEW e \in Seq(S)
    PROVE  Len(e) \in Nat /\ (e = <<>> <=> Len(e) = 0)
BY EmptySeq

\* A sequence of at most one element that is not empty has exactly one.
LEMMA SingleEntry ==
    ASSUME NEW S, NEW e \in Seq(S), e # <<>>, Len(e) <= 1
    PROVE  Len(e) = 1 /\ e[1] \in S
<1>1. Len(e) \in Nat \ {0}
    BY EmptySeq
<1>2. Len(e) = 1
    BY <1>1
<1> QED
    BY <1>2, ElementOfSeq

\* With at most one entry in a line, load() (57-71) takes for each index the last line that
\* holds an entry of it.
LEMMA LinesOfOneEntry ==
    ASSUME NEW lines \in Seq(WalLine)
    PROVE  Raft!Folded(lines) = [i \in {i \in 1..MaxIndex : Writes(lines, i) # {}} |-> lines[Raft!Max(Writes(lines, i))].entries[1]]
<1>1. ASSUME NEW i \in 1..MaxIndex
      PROVE  {n \in DOMAIN lines : i \in lines[n].from..(lines[n].from + Len(lines[n].entries) - 1)} = Writes(lines, i)
    <2>1. ASSUME NEW n \in DOMAIN lines
          PROVE  i \in lines[n].from..(lines[n].from + Len(lines[n].entries) - 1)
                 <=> lines[n].entries # <<>> /\ lines[n].from = i
        <3>1. /\ lines[n].from \in Nat \ {0} /\ Len(lines[n].entries) \in {0, 1}
              /\ (lines[n].entries = <<>>) <=> (Len(lines[n].entries) = 0)
            <4>1. PICK l \in WalLine : l = lines[n]
                OBVIOUS
            <4>2. l.from \in Nat \ {0} /\ l.entries \in Seq(1..MaxTerm) /\ Len(l.entries) <= 1
                BY DEF WalLine
            <4>3. PICK e \in Seq(1..MaxTerm) : e = l.entries
                BY <4>2
            <4>4. Len(e) \in Nat /\ (e = <<>> <=> Len(e) = 0)
                BY EmptyIsShort
            <4>5. lines[n].entries = e /\ lines[n].from \in Nat \ {0}
                BY <4>1, <4>2, <4>3
            <4>6. Len(e) \in {0, 1}
                <5>1. \A k \in Nat : k <= 1 => k \in {0, 1}
                    OBVIOUS
                <5> QED
                    BY <4>2, <4>3, <4>4, <5>1
            <4> QED
                BY <4>4, <4>5, <4>6
        <3>2. PICK f, k : f = lines[n].from /\ k = Len(lines[n].entries)
            OBVIOUS
        <3>3. (i \in f..(f + k - 1)) <=> (k # 0 /\ f = i)
            <4>1. f \in Nat \ {0} /\ k \in {0, 1} /\ i \in Nat
                BY <3>1, <3>2
            <4>2. CASE k = 0
                BY <4>1, <4>2
            <4>3. CASE k = 1
                BY <4>1, <4>3
            <4> QED
                BY <4>1, <4>2, <4>3
        <3> QED
            BY <3>1, <3>2, <3>3
    <2> QED
        BY <2>1 DEF Writes
<1>2. ASSUME NEW i \in 1..MaxIndex, Writes(lines, i) # {}
      PROVE  i - lines[Raft!Max(Writes(lines, i))].from + 1 = 1
    <2>1. Writes(lines, i) \subseteq 1..Len(lines) /\ Len(lines) \in Nat
        BY DEF Writes
    <2>2. Raft!Max(Writes(lines, i)) \in Writes(lines, i)
        BY <1>2, <2>1, LastLine
    <2> QED
        BY <2>2 DEF Writes
<1>3. {i \in 1..MaxIndex : {n \in DOMAIN lines : i \in lines[n].from..(lines[n].from + Len(lines[n].entries) - 1)} # {}}
      = {i \in 1..MaxIndex : Writes(lines, i) # {}}
    BY <1>1
<1> QED
    BY <1>1, <1>2, <1>3 DEF Raft!Folded

\* A function on 1..k is a sequence of length k.
LEMMA SeqOfFunction ==
    ASSUME NEW S, NEW k \in Nat, NEW f \in [1..k -> S]
    PROVE  f \in Seq(S) /\ Len(f) = k
BY SeqDef

\* What Append does to a sequence.
LEMMA OneMore ==
    ASSUME NEW S, NEW s \in Seq(S), NEW x \in S
    PROVE  /\ Len(s) \in Nat /\ Append(s, x) \in Seq(S) /\ Len(Append(s, x)) = Len(s) + 1
           /\ DOMAIN s = 1..Len(s) /\ DOMAIN Append(s, x) = 1..(Len(s) + 1)
           /\ Append(s, x)[Len(s) + 1] = x
           /\ \A m \in 1..Len(s) : Append(s, x)[m] = s[m]
BY AppendProperties, LenProperties

\* What Append does to the lines of the log file.
LEMMA OneMoreLine ==
    ASSUME NEW lines \in Seq(WalLine), NEW l \in WalLine
    PROVE  LET more == Append(lines, l)
               n    == Len(lines)
           IN  /\ n \in Nat /\ more \in Seq(WalLine) /\ more[n + 1] = l
               /\ DOMAIN lines = 1..n /\ DOMAIN more = 1..(n + 1)
               /\ \A m \in 1..n : more[m] = lines[m]
BY OneMore

\* What one more line does to the log that load() finds.
LEMMA LineAppended ==
    ASSUME NEW lines \in Seq(WalLine), NEW l \in WalLine,
           Raft!Folded(lines) \in Seq(1..MaxTerm), Len(Raft!Folded(lines)) <= MaxIndex, l.from <= Len(Raft!Folded(lines)) + 1
    PROVE  LET old == Raft!Folded(lines)
               new == Raft!Folded(Append(lines, l))
           IN  /\ new \in Seq(1..MaxTerm) /\ Len(new) <= MaxIndex /\ Len(old) <= Len(new)
               /\ \A i \in 1..Len(old) : i # l.from => new[i] = old[i]
               /\ l.entries = <<>> => new = old
               /\ l.entries # <<>> => l.from <= Len(new) /\ new[l.from] = l.entries[1]
<1> DEFINE more  == Append(lines, l)
           n     == Len(lines)
<1>1. /\ n \in Nat /\ more \in Seq(WalLine) /\ more[n + 1] = l
      /\ DOMAIN lines = 1..n /\ DOMAIN more = 1..(n + 1)
      /\ \A m \in 1..n : more[m] = lines[m]
    BY OneMoreLine
<1> DEFINE old   == Raft!Folded(lines)
           new   == Raft!Folded(more)
           last(i) == Raft!Max(Writes(lines, i))
<1>2. /\ old = [i \in {i \in 1..MaxIndex : Writes(lines, i) # {}} |-> lines[last(i)].entries[1]]
      /\ new = [i \in {i \in 1..MaxIndex : Writes(more, i) # {}} |-> more[Raft!Max(Writes(more, i))].entries[1]]
    BY <1>1, LinesOfOneEntry
<1>3. /\ Len(old) \in Nat /\ DOMAIN old = 1..Len(old)
      /\ \A i \in 1..Len(old) : old[i] \in 1..MaxTerm
    <2>1. PICK s \in Seq(1..MaxTerm) : s = Raft!Folded(lines)
        OBVIOUS
    <2>2. Len(s) \in Nat /\ DOMAIN s = 1..Len(s) /\ \A i \in 1..Len(s) : s[i] \in 1..MaxTerm
        BY LenProperties, ElementOfSeq
    <2> QED
        BY <2>1, <2>2
<1> HIDE DEF old, more, new, n
<1>4. \A i \in 1..MaxIndex : Writes(lines, i) # {} <=> i \in 1..Len(old)
    BY <1>2, <1>3
<1>5. /\ l.from \in Nat \ {0} /\ l.entries \in Seq(1..MaxTerm) /\ Len(l.entries) <= 1
      /\ l.from + Len(l.entries) <= MaxIndex + 1
    BY DEF WalLine
<1>10. old \in Seq(1..MaxTerm) /\ Len(old) <= MaxIndex
    BY DEF old
<1>6. ASSUME NEW i \in 1..MaxIndex, l.entries = <<>> \/ l.from # i
      PROVE  Writes(more, i) = Writes(lines, i)
    BY <1>1, <1>6 DEF Writes
<1>7. ASSUME NEW i \in 1..MaxIndex, Writes(more, i) = Writes(lines, i), Writes(lines, i) # {}
      PROVE  i \in DOMAIN new /\ new[i] = old[i]
    <2>1. Writes(lines, i) \subseteq 1..n
        BY <1>1 DEF Writes
    <2>2. last(i) \in 1..n
        BY <1>1, <1>7, <2>1, LastLine
    <2>3. i \in DOMAIN new /\ new[i] = more[last(i)].entries[1] /\ old[i] = lines[last(i)].entries[1]
        BY <1>2, <1>7
    <2> QED
        BY <1>1, <2>2, <2>3
<1>8. CASE l.entries = <<>>
    <2>1. DOMAIN new = DOMAIN old
        BY <1>2, <1>6, <1>8
    <2>2. \A i \in DOMAIN old : new[i] = old[i]
        BY <1>2, <1>6, <1>7, <1>8
    <2>3. new = old
        BY <1>2, <2>1, <2>2
    <2>4. l.entries # <<>> => FALSE
        BY <1>8
    <2>5. \A i \in 1..Len(old) : new[i] = old[i]
        BY <2>3
    <2> QED
        BY <1>3, <1>10, <2>3, <2>4, <2>5 DEF old, new, more
<1>9. CASE l.entries # <<>>
    <2>1. Len(l.entries) = 1 /\ l.entries[1] \in 1..MaxTerm
        <3>1. PICK e \in Seq(1..MaxTerm) : e = l.entries
            BY <1>5
        <3>2. e # <<>> /\ Len(e) <= 1
            BY <3>1, <1>5, <1>9
        <3>3. Len(e) = 1 /\ e[1] \in 1..MaxTerm
            BY <3>2, SingleEntry
        <3> QED
            BY <3>1, <3>3
    <2>2. l.entries[1] \in 1..MaxTerm /\ l.from \in 1..MaxIndex
        BY <1>5, <2>1, RaftAssumption DEF RaftAssumption
    <2>3. Writes(more, l.from) = Writes(lines, l.from) \cup {n + 1}
        BY <1>1, <1>9 DEF Writes
    <2>4. Raft!Max(Writes(more, l.from)) = n + 1
        <3>1. Writes(more, l.from) \subseteq 1..(n + 1) /\ n + 1 \in Writes(more, l.from)
            BY <1>1, <2>3 DEF Writes
        <3>2. PICK m : m = Raft!Max(Writes(more, l.from))
            OBVIOUS
        <3>3. m \in 1..(n + 1) /\ n + 1 <= m
            BY <1>1, <3>1, <3>2, LastLine
        <3> QED
            BY <1>1, <3>2, <3>3
    <2>5. l.from \in DOMAIN new /\ new[l.from] = l.entries[1]
        BY <1>1, <1>2, <2>2, <2>3, <2>4
    <2>6. \A i \in 1..MaxIndex : i \in DOMAIN new <=> i \in 1..Len(old) \/ i = l.from
        <3>1. \A i \in 1..MaxIndex : i \in DOMAIN new <=> Writes(more, i) # {}
            BY <1>2
        <3>2. \A i \in 1..MaxIndex : i # l.from => (i \in DOMAIN new <=> i \in 1..Len(old))
            BY <3>1, <1>4, <1>6
        <3> QED
            BY <3>2, <2>5
    <2>7. DOMAIN new \subseteq 1..MaxIndex
        BY <1>2
    <2>8. DOMAIN new = 1..Len(old) \cup {l.from}
        <3>1. 1..Len(old) \cup {l.from} \subseteq 1..MaxIndex
            BY <2>2, <1>3, <1>10, RaftAssumption
        <3> QED
            BY <3>1, <2>6, <2>7
    <2>9. PICK k \in Nat : DOMAIN new = 1..k /\ Len(old) <= k /\ k <= MaxIndex /\ l.from <= k
        <3>1. CASE l.from <= Len(old)
            <4>1. DOMAIN new = 1..Len(old)
                BY <2>8, <3>1, <1>3, <1>5
            <4>2. Len(old) \in Nat /\ Len(old) <= Len(old) /\ Len(old) <= MaxIndex
                BY <1>3, <1>10
            <4> QED
                BY <4>1, <4>2, <3>1
        <3>2. CASE l.from = Len(old) + 1
            <4>1. DOMAIN new = 1..(Len(old) + 1)
                BY <2>8, <3>2, <1>3
            <4> QED
                BY <4>1, <3>2, <1>3, <2>2
        <3>3. l.from <= Len(old) + 1
            BY DEF old
        <3> QED
            BY <3>1, <3>2, <3>3, <1>3, <1>5
    <2>10. \A i \in 1..Len(old) : i # l.from => new[i] = old[i]
        <3> SUFFICES ASSUME NEW i \in 1..Len(old), i # l.from PROVE new[i] = old[i]
            OBVIOUS
        <3>1. i \in 1..MaxIndex /\ Writes(lines, i) # {}
            BY <1>2, <1>3
        <3> QED
            BY <3>1, <1>6, <1>7
    <2>11. \A i \in 1..k : new[i] \in 1..MaxTerm
        BY <2>2, <2>5, <2>8, <2>9, <2>10, <1>3
    <2>12. new \in Seq(1..MaxTerm) /\ Len(new) = k
        <3>1. new = [i \in 1..k |-> new[i]]
            BY <1>2, <2>9
        <3>2. new \in [1..k -> 1..MaxTerm]
            BY <3>1, <2>11
        <3> QED
            BY <3>2, <2>9, SeqOfFunction
    <2>13. l.entries = <<>> => FALSE
        BY <1>9
    <2>14. l.from <= Len(new) /\ Len(old) <= Len(new) /\ Len(new) <= MaxIndex
        BY <2>9, <2>12
    <2> QED
        BY <2>5, <2>10, <2>12, <2>13, <2>14 DEF old, new, more
<1> QED
    BY <1>8, <1>9 DEF old, new, more

\* The last hard state of the log file is one.
LEMMA HardFound ==
    ASSUME NEW lines \in Seq(WalLine)
    PROVE  Raft!HardOf(lines) \in HardState
<1>1. Len(lines) \in Nat /\ Votings(lines) \subseteq 1..Len(lines)
    BY LenProperties DEF Votings
<1>2. Raft!HardOf(lines) = IF Votings(lines) = {} THEN Raft!Fresh ELSE CHOOSE h \in lines[Raft!Max(Votings(lines))].hard : TRUE
    BY DEF Raft!HardOf, Votings
<1>3. Raft!Fresh \in HardState
    BY RaftAssumption DEF Raft!Fresh, HardState
<1>4. ASSUME Votings(lines) # {}
      PROVE  (CHOOSE h \in lines[Raft!Max(Votings(lines))].hard : TRUE) \in HardState
    <2>1. PICK m : m = Raft!Max(Votings(lines))
        OBVIOUS
    <2>2. m \in Votings(lines)
        BY <1>1, <1>4, <2>1, LastLine
    <2>3. lines[m].hard # {} /\ lines[m] \in WalLine
        BY <2>2 DEF Votings
    <2>4. lines[m].hard \subseteq HardState
        BY <2>3 DEF WalLine
    <2> QED
        BY <2>1, <2>3, <2>4
<1> QED
    BY <1>2, <1>3, <1>4

\* The last hard state of the log file.
LEMMA HardAppended ==
    ASSUME NEW lines \in Seq(WalLine), NEW l \in WalLine
    PROVE  /\ l.hard = {} => Raft!HardOf(Append(lines, l)) = Raft!HardOf(lines)
           /\ \A h \in l.hard : Raft!HardOf(Append(lines, l)) = h
<1> DEFINE more == Append(lines, l)
           n    == Len(lines)
<1>1. /\ n \in Nat /\ more \in Seq(WalLine) /\ more[n + 1] = l
      /\ DOMAIN lines = 1..n /\ DOMAIN more = 1..(n + 1)
      /\ \A m \in 1..n : more[m] = lines[m]
    BY OneMoreLine
<1> HIDE DEF more, n
<1>2. Votings(lines) \subseteq 1..n /\ Votings(more) = Votings(lines) \cup (IF l.hard = {} THEN {} ELSE {n + 1})
    BY <1>1 DEF Votings
<1>3. /\ Raft!HardOf(lines) = IF Votings(lines) = {} THEN Raft!Fresh ELSE CHOOSE h \in lines[Raft!Max(Votings(lines))].hard : TRUE
      /\ Raft!HardOf(more) = IF Votings(more) = {} THEN Raft!Fresh ELSE CHOOSE h \in more[Raft!Max(Votings(more))].hard : TRUE
    BY DEF Raft!HardOf, Votings
<1>5. ASSUME l.hard = {} PROVE Raft!HardOf(more) = Raft!HardOf(lines)
    <2>1. Votings(more) = Votings(lines)
        BY <1>2, <1>5
    <2>2. CASE Votings(lines) = {}
        BY <1>3, <2>1, <2>2
    <2>3. CASE Votings(lines) # {}
        <3>1. Raft!Max(Votings(lines)) \in 1..n
            BY <1>1, <1>2, <2>3, LastLine
        <3> QED
            BY <1>1, <1>3, <2>1, <2>3, <3>1
    <2> QED
        BY <2>2, <2>3
<1>6. ASSUME NEW h \in l.hard PROVE Raft!HardOf(more) = h
    <2>1. Votings(more) \subseteq 1..(n + 1) /\ n + 1 \in Votings(more)
        BY <1>1, <1>2, <1>6
    <2>2. PICK m : m = Raft!Max(Votings(more))
        OBVIOUS
    <2>3. m \in 1..(n + 1) /\ n + 1 <= m
        BY <1>1, <2>1, <2>2, LastLine
    <2>4. m = n + 1
        BY <1>1, <2>3
    <2>5. Raft!HardOf(more) = CHOOSE g \in l.hard : TRUE
        BY <1>1, <1>3, <2>1, <2>2, <2>4
    <2>6. \A g \in l.hard : g = h
        BY <1>6 DEF WalLine
    <2> QED
        BY <2>5, <2>6
<1> QED
    BY <1>5, <1>6 DEF more

-----------------------------------------------------------------------------
(* The node. *)

\* An empty log file holds nothing.
LEMMA NothingLogged == Raft!Folded(<<>>) = <<>> /\ Raft!HardOf(<<>>) = Raft!Fresh
<1>1. <<>> \in Seq(WalLine) /\ \A i \in 1..MaxIndex : Writes(<<>>, i) = {}
    BY DEF Writes
<1>2. Raft!Folded(<<>>) = [i \in 1..0 |-> i]
    <2>1. {i \in 1..MaxIndex : Writes(<<>>, i) # {}} = 1..0
        BY <1>1
    <2>2. \A f : DOMAIN f = 1..0 /\ f = [i \in DOMAIN f |-> f[i]] => f = [i \in 1..0 |-> i]
        OBVIOUS
    <2> QED
        BY <1>1, <2>1, <2>2, LinesOfOneEntry
<1>3. [i \in 1..0 |-> i] \in Seq(Nat) /\ Len([i \in 1..0 |-> i]) = 0
    BY SeqOfFunction
<1>4. Raft!Folded(<<>>) = <<>>
    BY <1>2, <1>3, EmptyIsShort
<1>5. Raft!HardOf(<<>>) = Raft!Fresh
    BY DEF Raft!HardOf
<1> QED
    BY <1>4, <1>5

\* A prefix agrees with the sequence as far as it goes.
LEMMA PrefixMeans ==
    ASSUME NEW S, NEW s \in Seq(S), NEW t \in Seq(S)
    PROVE  IsPrefix(s, t) <=> Len(s) <= Len(t) /\ \A i \in 1..Len(s) : s[i] = t[i]
<1>1. Len(s) \in Nat /\ Len(t) \in Nat
    BY LenProperties
<1>2. ASSUME Len(s) <= Len(t)
      PROVE  SubSeq(s, 1, Len(s)) = SubSeq(t, 1, Len(s)) <=> \A i \in 1..Len(s) : s[i] = t[i]
    <2>1. /\ SubSeq(s, 1, Len(s)) = [i \in 1..Len(s) |-> s[i]]
          /\ SubSeq(t, 1, Len(s)) = [i \in 1..Len(s) |-> t[i]]
        BY <1>1, <1>2, SubSeqProperties, LenProperties
    <2> QED
        BY <2>1
<1> QED
    BY <1>2 DEF IsPrefix

\* The invariant holds of a node that was never started.
LEMMA RaftInit == Raft!Init => RaftInv
<1> SUFFICES ASSUME Raft!Init PROVE RaftInv
    OBVIOUS
<1> USE RaftAssumption
<1>1. /\ Raft!Fresh \in HardState /\ <<>> \in Seq(1..MaxTerm) /\ <<>> \in Seq(WalLine) /\ Len(<<>>) = 0
    BY DEF Raft!Fresh, HardState
<1>2. RaftTypes
    BY <1>1 DEF Raft!Init, RaftTypes
<1>3. LoadFindsALog
    <2>1. Raft!Folded(wal) = <<>>
        BY NothingLogged DEF Raft!Init
    <2>2. 0 <= MaxIndex
        OBVIOUS
    <2> QED
        BY <1>1, <2>1, <2>2 DEF LoadFindsALog
<1>6. LogIsLogged
    <2>1. Len(log) = 0 /\ Raft!Folded(wal) = <<>> /\ emit = "idle"
        BY <1>1, NothingLogged DEF Raft!Init
    <2>2. Logged(0)
        BY <1>1, <2>1 DEF Logged
    <2> QED
        BY <2>1, <2>2 DEF LogIsLogged
<1>4. HardIsLogged /\ VotesBind
    BY NothingLogged DEF Raft!Init, HardIsLogged, Persisted, VotesBind
<1>5. OwedIsLogged
    <2>1. IsPrefix(<<>>, <<>>)
        BY DEF IsPrefix
    <2> QED
        BY <2>1 DEF Raft!Init, OwedIsLogged
<1> QED
    BY <1>2, <1>3, <1>4, <1>5, <1>6 DEF RaftInv

\* A step of the library produces a Ready that is not logged yet.
LEMMA LibraryStep ==
    ASSUME RaftInv, emit = "idle", emit' = "wal", UNCHANGED <<wal, votes>>, Len(wal) < MaxWal,
           NEW q \in ReadyBatch, ready' = {q}, Raft!Line(q) \in WalLine,
           hard' \in HardState,
           hard'.term > hard.term \/ (hard'.term = hard.term /\ hard.vote \in {Nobody, hard'.vote}),
           q.hard = (IF hard' = hard THEN {} ELSE {hard'}),
           q.entries # <<>> => hard' # Raft!Fresh,
           log' \in Seq(1..MaxTerm), Len(log') <= MaxIndex, q.from <= Len(log) + 1,
           \A i \in 1..(q.from - 1) : log'[i] = log[i],
           Len(log') = q.from - 1 + Len(q.entries),
           q.entries # <<>> => log'[q.from] = q.entries[1],
           \A v \in q.votes : v.term = hard'.term /\ v.for = hard'.vote /\ (v.entries => log' # <<>>),
           owed' \in Seq(1..MaxTerm), IsPrefix(owed', log'), Len(owed') < q.from, q.acked <= Len(log')
    PROVE  RaftInv'
<1>1. RaftTypes'
    BY DEF RaftInv, RaftTypes
<1>2. LoadFindsALog'
    BY DEF RaftInv, LoadFindsALog
<1>3. LogIsLogged'
    <2>1. Logged(Len(log)) /\ Len(log) \in Nat /\ q.from \in Nat \ {0} /\ Len(Raft!Folded(wal)) \in Nat
        BY LenProperties DEF RaftInv, LogIsLogged, RaftTypes, ReadyBatch, LoadFindsALog
    <2>2. Logged(q.from - 1)'
        BY <2>1 DEF Logged
    <2> QED
        BY <2>2 DEF LogIsLogged
<1>4. HardIsLogged'
    BY DEF RaftInv, HardIsLogged, Persisted
<1>5. VotesBind'
    <2>1. ASSUME NEW v \in votes, v.entries
          PROVE  Raft!Folded(wal) # <<>> /\ Binds(Raft!HardOf(wal), v) /\ Binds(hard', v)
        <3>1. Raft!Folded(wal) # <<>> /\ Binds(Raft!HardOf(wal), v) /\ Binds(hard, v)
            BY <2>1 DEF RaftInv, VotesBind
        <3>2. v.for # Nobody /\ v.term \in Nat /\ hard.term \in Nat /\ hard'.term \in Nat
            BY RaftAssumption DEF RaftInv, RaftTypes, HardState
        <3> QED
            BY <3>1, <3>2 DEF Binds
    <2>2. \A v, w \in votes : v.term = w.term /\ v.entries /\ w.entries => v.for = w.for
        BY DEF RaftInv, VotesBind
    <2> QED
        BY <2>1, <2>2 DEF VotesBind
<1>6. OwedIsLogged'
    BY DEF OwedIsLogged
<1> QED
    BY <1>1, <1>2, <1>3, <1>4, <1>5, <1>6 DEF RaftInv

\* A Ready of the library is a line of the log file once emit() writes it.
LEMMA NewLine ==
    ASSUME NEW from \in Nat \ {0}, NEW entries \in Seq(1..MaxTerm), Len(entries) <= 1,
           from + Len(entries) <= MaxIndex + 1, hard' \in HardState
    PROVE  [from |-> from, entries |-> entries, hard |-> IF hard' = hard THEN {} ELSE {hard'}] \in WalLine
<1>1. PICK g : g = IF hard' = hard THEN {} ELSE {hard'}
    OBVIOUS
<1>2. g \subseteq HardState /\ \A h, i \in g : h = i
    BY <1>1
<1>3. [from |-> from, entries |-> entries, hard |-> g] \in WalLine
    BY <1>2 DEF WalLine
<1> QED
    BY <1>1, <1>3

\* The first n elements of a sequence.
LEMMA SubSeqIs ==
    ASSUME NEW S, NEW s \in Seq(S), NEW n \in 0..Len(s)
    PROVE  SubSeq(s, 1, n) \in Seq(S) /\ Len(SubSeq(s, 1, n)) = n /\ \A i \in 1..n : SubSeq(s, 1, n)[i] = s[i]
<1>1. n \in Nat /\ Len(s) \in Nat /\ \A i \in 1..n : s[i] \in S
    BY LenProperties, ElementOfSeq
<1>2. /\ SubSeq(s, 1, n) \in Seq(S) /\ Len(SubSeq(s, 1, n)) = (IF 1 <= n THEN n - 1 + 1 ELSE 0)
      /\ \A i \in 1..(n - 1 + 1) : SubSeq(s, 1, n)[i] = s[1 + i - 1]
    BY <1>1, SubSeqProperties
<1> QED
    BY <1>1, <1>2

\* A vote leaves the log alone; its Ready carries the hard state if that changed.
LEMMA VoteStep ==
    ASSUME RaftInv, NEW t \in 1..MaxTerm, NEW c \in Candidate, Raft!StepVote(t, c)
    PROVE  RaftInv'
<1> DEFINE q == [from |-> Len(log) + 1, entries |-> <<>>, hard |-> IF hard' = hard THEN {} ELSE {hard'},
                 votes |-> {[term |-> t, for |-> c, entries |-> log # <<>>]}, acked |-> 0]
<1>1. /\ ready' = {q} /\ hard' = [term |-> t, vote |-> c] /\ emit = "idle" /\ emit' = "wal" /\ Len(wal) < MaxWal
      /\ UNCHANGED <<log, wal, votes, owed>>
      /\ t > hard.term \/ (t = hard.term /\ hard.vote \in {Nobody, c})
    BY DEF Raft!StepVote, Raft!Ready
<1>2. /\ log \in Seq(1..MaxTerm) /\ Len(log) \in Nat /\ Len(log) <= MaxIndex
      /\ owed \in Seq(1..MaxTerm) /\ Len(owed) \in Nat /\ Len(owed) <= Len(log) /\ IsPrefix(owed, log)
    BY <1>1, LenProperties, PrefixMeans DEF RaftInv, RaftTypes, OwedIsLogged
<1>3. hard' \in HardState
    BY <1>1, RaftAssumption DEF HardState
<1>4. <<>> \in Seq(1..MaxTerm) /\ Len(<<>>) = 0
    BY EmptySeq
<1>5. q \in ReadyBatch
    <2>1. [term |-> t, for |-> c, entries |-> log # <<>>] \in [term : 0..MaxTerm, for : Candidate, entries : BOOLEAN]
        BY RaftAssumption
    <2> QED
        BY <1>2, <1>3, <1>4, <2>1 DEF ReadyBatch
<1>6. Raft!Line(q) = [from |-> Len(log) + 1, entries |-> <<>>, hard |-> IF hard' = hard THEN {} ELSE {hard'}]
    BY DEF Raft!Line
<1>7. Raft!Line(q) \in WalLine
    <2>1. Len(log) + 1 \in Nat \ {0} /\ Len(<<>>) <= 1 /\ Len(log) + 1 + Len(<<>>) <= MaxIndex + 1
        BY <1>2, <1>4, RaftAssumption
    <2> QED
        BY <2>1, <1>3, <1>4, <1>6, NewLine
<1>8. q.entries = <<>> /\ q.from = Len(log) + 1 /\ q.hard = (IF hard' = hard THEN {} ELSE {hard'}) /\ q.acked = 0
    OBVIOUS
<1>11. \A v \in q.votes : v.term = t /\ v.for = c /\ (v.entries => log # <<>>)
    <2>1. PICK b \in BOOLEAN : b = (log # <<>>)
        OBVIOUS
    <2>2. q.votes = {[term |-> t, for |-> c, entries |-> b]}
        BY <2>1
    <2> HIDE DEF q
    <2>3. \A v \in q.votes : v.term = t /\ v.for = c /\ v.entries = b
        BY <2>2
    <2> QED
        BY <2>1, <2>3
<1> HIDE DEF q
<1>9. Len(log') = q.from - 1 + Len(q.entries) /\ q.from <= Len(log) + 1 /\ Len(owed') < q.from /\ q.acked <= Len(log')
    BY <1>1, <1>2, <1>4, <1>8
<1>10. hard'.term = t /\ hard'.vote = c
    BY <1>1
<1> QED
    BY <1>1, <1>2, <1>3, <1>5, <1>7, <1>8, <1>9, <1>10, <1>11, LibraryStep

\* A leader's entry either is in the log already or replaces what conflicts with it; what
\* is owed is cut off with the log.
LEMMA AppendStep ==
    ASSUME RaftInv, NEW t \in 1..MaxTerm, NEW prev \in 0..(MaxIndex - 1), NEW e \in 1..t, Raft!StepAppend(t, prev, e)
    PROVE  RaftInv'
<1> DEFINE h == IF hard' = hard THEN {} ELSE {hard'}
<1>1. /\ emit = "idle" /\ emit' = "wal" /\ Len(wal) < MaxWal /\ UNCHANGED <<wal, votes>>
      /\ hard' = (IF t > hard.term THEN [term |-> t, vote |-> Nobody] ELSE hard)
      /\ t >= hard.term /\ t > 0 /\ prev <= Len(log) /\ prev < MaxIndex
    BY DEF Raft!StepAppend
<1>2. /\ log \in Seq(1..MaxTerm) /\ Len(log) \in Nat /\ Len(log) <= MaxIndex
      /\ owed \in Seq(1..MaxTerm) /\ Len(owed) \in Nat /\ Len(owed) <= Len(log) /\ IsPrefix(owed, log)
      /\ hard \in HardState /\ hard.term \in Nat
    BY <1>1, LenProperties, PrefixMeans DEF RaftInv, RaftTypes, OwedIsLogged, HardState
<1>3. /\ hard' \in HardState
      /\ hard'.term > hard.term \/ (hard'.term = hard.term /\ hard.vote \in {Nobody, hard'.vote})
      /\ hard' # Raft!Fresh
    BY <1>1, <1>2, RaftAssumption DEF HardState, Raft!Fresh
<1>4. /\ <<>> \in Seq(1..MaxTerm) /\ Len(<<>>) = 0 /\ e \in 1..MaxTerm /\ <<e>> \in Seq(1..MaxTerm) /\ Len(<<e>>) = 1
      /\ <<e>>[1] = e /\ prev \in Nat
    BY RaftAssumption
<1>5. ASSUME NEW from \in Nat \ {0}, NEW entries \in Seq(1..MaxTerm), Len(entries) <= 1,
             from + Len(entries) <= MaxIndex + 1,
             Raft!Ready(from, entries, hard', {}, prev + 1)
      PROVE  /\ ready' = {[from |-> from, entries |-> entries, hard |-> h, votes |-> {}, acked |-> prev + 1]}
             /\ [from |-> from, entries |-> entries, hard |-> h, votes |-> {}, acked |-> prev + 1] \in ReadyBatch
             /\ Raft!Line([from |-> from, entries |-> entries, hard |-> h, votes |-> {}, acked |-> prev + 1]) \in WalLine
    <2>1. ready' = {[from |-> from, entries |-> entries, hard |-> h, votes |-> {}, acked |-> prev + 1]}
        BY <1>5 DEF Raft!Ready
    <2>2. [from |-> from, entries |-> entries, hard |-> h, votes |-> {}, acked |-> prev + 1] \in ReadyBatch
        BY <1>3, <1>4 DEF ReadyBatch
    <2>3. Raft!Line([from |-> from, entries |-> entries, hard |-> h, votes |-> {}, acked |-> prev + 1])
          = [from |-> from, entries |-> entries, hard |-> h]
        BY DEF Raft!Line
    <2>4. [from |-> from, entries |-> entries, hard |-> h] \in WalLine
        BY <1>3, <1>5 DEF WalLine
    <2> QED
        BY <2>1, <2>2, <2>3, <2>4
<1>6. CASE prev < Len(log) /\ log[prev + 1] = e
    <2>1. Raft!Ready(Len(log) + 1, <<>>, hard', {}, prev + 1) /\ UNCHANGED <<log, owed>>
        BY <1>6 DEF Raft!StepAppend
    <2> DEFINE q == [from |-> Len(log) + 1, entries |-> <<>>, hard |-> h, votes |-> {}, acked |-> prev + 1]
    <2>2. ready' = {q} /\ q \in ReadyBatch /\ Raft!Line(q) \in WalLine
        <3>1. Len(log) + 1 \in Nat \ {0} /\ Len(log) + 1 + Len(<<>>) <= MaxIndex + 1 /\ Len(<<>>) <= 1
            BY <1>2, <1>4, RaftAssumption
        <3> QED
            BY <3>1, <2>1, <1>4, <1>5
    <2>3. q.from = Len(log) + 1 /\ q.entries = <<>> /\ q.hard = h /\ q.votes = {} /\ q.acked = prev + 1
        OBVIOUS
    <2> HIDE DEF q
    <2>4. /\ Len(log') = q.from - 1 + Len(q.entries) /\ q.from <= Len(log) + 1 /\ Len(owed') < q.from
          /\ q.acked <= Len(log') /\ \A i \in 1..(q.from - 1) : log'[i] = log[i]
        BY <1>2, <1>4, <1>6, <2>1, <2>3
    <2> QED
        BY <1>1, <1>2, <1>3, <2>1, <2>2, <2>3, <2>4, LibraryStep
<1>7. CASE ~ (prev < Len(log) /\ log[prev + 1] = e)
    <2>1. /\ log' = Append(SubSeq(log, 1, prev), e) /\ owed' = SubSeq(owed, 1, Raft!Min({prev, Len(owed)}))
          /\ Raft!Ready(prev + 1, <<e>>, hard', {}, prev + 1)
        BY <1>7 DEF Raft!StepAppend
    <2> DEFINE q == [from |-> prev + 1, entries |-> <<e>>, hard |-> h, votes |-> {}, acked |-> prev + 1]
    <2>2. ready' = {q} /\ q \in ReadyBatch /\ Raft!Line(q) \in WalLine
        <3>1. prev + 1 \in Nat \ {0} /\ prev + 1 + Len(<<e>>) <= MaxIndex + 1 /\ Len(<<e>>) <= 1
            BY <1>1, <1>4, RaftAssumption
        <3> QED
            BY <3>1, <2>1, <1>4, <1>5
    <2>3. q.from = prev + 1 /\ q.entries = <<e>> /\ q.hard = h /\ q.votes = {} /\ q.acked = prev + 1
        OBVIOUS
    <2> HIDE DEF q
    <2>4. /\ SubSeq(log, 1, prev) \in Seq(1..MaxTerm) /\ Len(SubSeq(log, 1, prev)) = prev
          /\ \A i \in 1..prev : SubSeq(log, 1, prev)[i] = log[i]
        <3>1. prev \in 0..Len(log)
            BY <1>1, <1>2
        <3> QED
            BY <3>1, <1>2, SubSeqIs
    <2>5. /\ log' \in Seq(1..MaxTerm) /\ Len(log') = prev + 1 /\ log'[prev + 1] = e
          /\ \A i \in 1..prev : log'[i] = log[i]
        BY <1>4, <2>1, <2>4, OneMore
    <2>6. PICK m \in Nat : m = Raft!Min({prev, Len(owed)}) /\ m <= prev /\ m <= Len(owed)
        BY <1>2, <1>4 DEF Raft!Min
    <2>7. /\ owed' \in Seq(1..MaxTerm) /\ Len(owed') = m
          /\ \A i \in 1..m : owed'[i] = owed[i]
        <3>1. m \in 0..Len(owed)
            BY <1>2, <2>6
        <3>2. owed' = SubSeq(owed, 1, m)
            BY <2>1, <2>6
        <3> QED
            BY <3>1, <3>2, <1>2, SubSeqIs
    <2>8. IsPrefix(owed', log')
        <3>1. \A i \in 1..Len(owed) : owed[i] = log[i]
            BY <1>2, PrefixMeans
        <3>2. \A i \in 1..m : i \in 1..prev /\ i \in 1..Len(owed)
            BY <1>2, <1>4, <2>6
        <3>3. \A i \in 1..m : owed'[i] = log'[i]
            BY <2>5, <2>7, <3>1, <3>2
        <3>4. Len(owed') <= Len(log')
            BY <1>4, <2>5, <2>6, <2>7
        <3>5. /\ Len(owed') = m /\ owed' \in Seq(1..MaxTerm)
              /\ log' \in Seq(1..MaxTerm)
            BY <2>5, <2>7
        <3>6. \A i \in 1..Len(owed') : owed'[i] = log'[i]
            BY <3>3, <3>5
        <3> QED
            BY <3>4, <3>5, <3>6, PrefixMeans
    <2>9. /\ Len(log') = q.from - 1 + Len(q.entries) /\ q.from <= Len(log) + 1 /\ Len(owed') < q.from
          /\ q.acked <= Len(log') /\ Len(log') <= MaxIndex /\ q.from - 1 = prev
          /\ q.entries[1] = e /\ log'[q.from] = q.entries[1]
        <3>1. /\ q.from = prev + 1 /\ Len(q.entries) = 1 /\ q.acked = prev + 1 /\ q.entries[1] = e
            BY <2>3
        <3>2. /\ prev \in Nat /\ Len(log) \in Nat /\ prev <= Len(log) /\ prev + 1 <= MaxIndex
            BY <1>1, <1>2, <1>4, RaftAssumption
        <3>3. Len(owed') = m /\ m \in Nat /\ m <= prev
            BY <2>6, <2>7
        <3> QED
            BY <3>1, <3>2, <3>3, <2>5
    <2> QED
        BY <1>1, <1>3, <2>2, <2>3, <2>5, <2>7, <2>8, <2>9, LibraryStep
<1> QED
    BY <1>6, <1>7

\* emit() writes the line or raises.
LEMMA WriteStep ==
    ASSUME RaftInv, Raft!WriteWal
    PROVE  RaftInv'
<1> USE DEF RaftInv
<1>1. PICK q \in ready :
         \/ wal' = (IF q.entries = <<>> /\ q.hard = {} THEN wal ELSE Append(wal, Raft!Line(q))) /\ emit' = "send"
         \/ emit' = "halted" /\ UNCHANGED wal
    BY DEF Raft!WriteWal
<1>2. emit = "wal" /\ UNCHANGED <<hard, log, ready, votes, owed>>
    BY DEF Raft!WriteWal
<1>3. /\ q \in ReadyBatch /\ Raft!Line(q) \in WalLine /\ wal \in Seq(WalLine) /\ Len(wal) < MaxWal /\ ready = {q}
      /\ Len(wal) \in Nat /\ log \in Seq(1..MaxTerm) /\ Len(log) \in Nat
    BY <1>2, LenProperties DEF RaftTypes
<1>4. /\ Logged(q.from - 1) /\ Len(log) = q.from - 1 + Len(q.entries)
      /\ q.entries # <<>> => log[q.from] = q.entries[1]
      /\ q.hard \subseteq {hard} /\ (q.hard = {} => Persisted(hard)) /\ (q.hard = {} /\ q.entries # <<>> => hard # Raft!Fresh)
      /\ Len(owed) < q.from /\ q.acked <= Len(log) /\ IsPrefix(owed, log)
    BY <1>2, <1>3 DEF LogIsLogged, HardIsLogged, OwedIsLogged
<1>5. /\ q.from \in Nat \ {0} /\ q.entries \in Seq(1..MaxTerm) /\ Len(q.entries) \in Nat
      /\ q.entries = <<>> => Len(q.entries) = 0
    <2>1. q.from \in Nat \ {0} /\ q.entries \in Seq(1..MaxTerm)
        BY <1>3 DEF ReadyBatch
    <2> QED
        BY <2>1, LenProperties, EmptySeq
<1>6. CASE emit' = "halted" /\ UNCHANGED wal
    <2>1. RaftTypes' /\ LoadFindsALog'
        BY <1>2, <1>3, <1>6 DEF RaftTypes, LoadFindsALog
    <2>2. LogIsLogged' /\ HardIsLogged' /\ VotesBind' /\ OwedIsLogged'
        BY <1>2, <1>3, <1>6 DEF LogIsLogged, Logged, HardIsLogged, Persisted, VotesBind, OwedIsLogged
    <2> QED
        BY <2>1, <2>2
<1>7. ASSUME emit' = "send",
             wal' \in Seq(WalLine), Len(wal') <= MaxWal,
             Raft!Folded(wal') \in Seq(1..MaxTerm), Len(Raft!Folded(wal')) <= MaxIndex, Len(Raft!Folded(wal)) <= Len(Raft!Folded(wal')),
             \A i \in 1..Len(log) : Raft!Folded(wal')[i] = log[i], Len(log) <= Len(Raft!Folded(wal')),
             hard = Raft!HardOf(wal') \/ (hard = Raft!Fresh /\ Raft!Folded(wal') = <<>>),
             Raft!HardOf(wal') \in {Raft!HardOf(wal), hard}
      PROVE  RaftInv'
    <2>1. RaftTypes' /\ LoadFindsALog'
        BY <1>2, <1>3, <1>7 DEF RaftTypes, LoadFindsALog
    <2>2. LogIsLogged' /\ HardIsLogged' /\ OwedIsLogged'
        BY <1>2, <1>3, <1>4, <1>7 DEF LogIsLogged, Logged, HardIsLogged, Persisted, OwedIsLogged
    <2>3. VotesBind'
        <3>1. ASSUME NEW v \in votes, v.entries
              PROVE  Raft!Folded(wal') # <<>> /\ Binds(Raft!HardOf(wal'), v) /\ Binds(hard, v)
            <4>1. Raft!Folded(wal) # <<>> /\ Binds(Raft!HardOf(wal), v) /\ Binds(hard, v)
                BY <1>2, <3>1 DEF VotesBind
            <4>2. Len(Raft!Folded(wal)) \in Nat \ {0} /\ Len(Raft!Folded(wal')) \in Nat
                BY <4>1, <1>7, EmptySeq, LenProperties DEF LoadFindsALog
            <4>3. Len(Raft!Folded(wal')) # 0
                BY <4>2, <1>7
            <4>4. Raft!Folded(wal') # <<>>
                BY <4>3, EmptySeq
            <4> QED
                BY <4>1, <4>4, <1>7
        <3> QED
            BY <3>1, <1>2, <1>3, <1>7 DEF VotesBind
    <2> QED
        BY <2>1, <2>2, <2>3
<1>8. CASE emit' = "send" /\ q.entries = <<>> /\ q.hard = {} /\ wal' = wal
    <2>1. /\ wal' \in Seq(WalLine) /\ Len(wal') <= MaxWal
          /\ Raft!Folded(wal') \in Seq(1..MaxTerm) /\ Len(Raft!Folded(wal')) <= MaxIndex /\ Len(Raft!Folded(wal')) \in Nat
          /\ Raft!HardOf(wal') = Raft!HardOf(wal)
        BY <1>3, <1>8, LenProperties, RaftAssumption DEF LoadFindsALog
    <2>2. Len(log) = q.from - 1
        BY <1>4, <1>5, <1>8
    <2>3. Logged(Len(log))
        BY <1>4, <2>2
    <2>4. Len(Raft!Folded(wal)) <= Len(Raft!Folded(wal'))
        BY <2>1, <1>8
    <2> QED
        BY <1>4, <1>7, <1>8, <2>1, <2>3, <2>4 DEF Logged, Persisted
<1>9. CASE emit' = "send" /\ (q.entries # <<>> \/ q.hard # {}) /\ wal' = Append(wal, Raft!Line(q))
    <2> DEFINE l   == Raft!Line(q)
               old == Raft!Folded(wal)
               new == Raft!Folded(Append(wal, l))
    <2>1. l \in WalLine /\ l.from = q.from /\ l.entries = q.entries /\ l.hard = q.hard
        BY <1>3 DEF Raft!Line
    <2>2. old \in Seq(1..MaxTerm) /\ Len(old) <= MaxIndex /\ Len(old) \in Nat
        BY LenProperties DEF LoadFindsALog
    <2>3. l.from <= Len(old) + 1
        BY <1>4, <1>5, <2>1, <2>2 DEF Logged
    <2>4. /\ new \in Seq(1..MaxTerm) /\ Len(new) <= MaxIndex /\ Len(old) <= Len(new)
          /\ \A i \in 1..Len(old) : i # l.from => new[i] = old[i]
          /\ l.entries = <<>> => new = old
          /\ l.entries # <<>> => l.from <= Len(new) /\ new[l.from] = l.entries[1]
        <3> HIDE DEF l
        <3> QED
            BY <1>3, <2>1, <2>2, <2>3, LineAppended
    <2>5. Raft!HardOf(wal') \in {Raft!HardOf(wal), hard} /\ (q.hard = {} => Raft!HardOf(wal') = Raft!HardOf(wal)) /\ (q.hard # {} => Raft!HardOf(wal') = hard)
        <3>1. /\ q.hard = {} => Raft!HardOf(Append(wal, l)) = Raft!HardOf(wal)
              /\ \A h \in q.hard : Raft!HardOf(Append(wal, l)) = h
            BY <1>3, <2>1, HardAppended
        <3> QED
            BY <1>4, <1>9, <3>1
    <2>6. /\ wal' \in Seq(WalLine) /\ Len(wal') <= MaxWal
        BY <1>3, <1>9, OneMoreLine, OneMore, RaftAssumption
    <2>7. wal' = Append(wal, l)
        BY <1>9
    <2> HIDE DEF l, old, new
    <2>8. Raft!Folded(wal') = new /\ Raft!Folded(wal) = old
        BY <2>7 DEF old, new
    <2>9. Len(log) <= Len(new) /\ \A i \in 1..Len(log) : new[i] = log[i]
        <3>1. q.from - 1 <= Len(old) /\ \A i \in 1..(q.from - 1) : old[i] = log[i]
            BY <1>4, <2>8 DEF Logged
        <3>2. Len(new) \in Nat
            BY <2>4, LenProperties
        <3>3. CASE q.entries = <<>>
            <4>1. Len(log) = q.from - 1 /\ new = old
                BY <1>4, <1>5, <2>1, <2>4, <3>3
            <4> QED
                BY <4>1, <3>1
        <3>4. CASE q.entries # <<>>
            <4>1. Len(q.entries) = 1
                <5>1. Len(q.entries) <= 1
                    BY <2>1 DEF WalLine
                <5> QED
                    BY <5>1, <1>5, <3>4, SingleEntry
            <4>2. Len(log) = q.from
                BY <1>4, <1>5, <4>1
            <4>3. q.from <= Len(new) /\ new[q.from] = log[q.from]
                BY <1>4, <2>1, <2>4, <3>4
            <4>4. \A i \in 1..(q.from - 1) : i \in 1..Len(old) /\ i # q.from
                BY <1>5, <2>2, <3>1
            <4>5. \A i \in 1..(q.from - 1) : new[i] = log[i]
                BY <2>1, <2>4, <3>1, <4>4
            <4>6. \A i \in 1..Len(log) : i \in 1..(q.from - 1) \/ i = q.from
                BY <1>5, <4>2
            <4> QED
                BY <4>2, <4>3, <4>5, <4>6
        <3> QED
            BY <3>3, <3>4
    <2>10. hard = Raft!HardOf(wal') \/ (hard = Raft!Fresh /\ Raft!Folded(wal') = <<>>)
        <3>1. CASE q.hard # {}
            BY <2>5, <3>1
        <3>2. CASE q.hard = {}
            <4>1. hard # Raft!Fresh /\ Persisted(hard)
                BY <1>4, <1>9, <3>2
            <4> QED
                BY <4>1, <2>5, <3>2 DEF Persisted
        <3> QED
            BY <3>1, <3>2
    <2> QED
        BY <1>7, <1>9, <2>4, <2>5, <2>6, <2>8, <2>9, <2>10
<1> QED
    BY <1>1, <1>6, <1>8, <1>9

\* emit() releases the messages of a Ready that is logged.
LEMMA SendStep ==
    ASSUME RaftInv, Raft!Send
    PROVE  RaftInv'
<1>1. PICK q \in ready : /\ votes' = votes \cup q.votes
                         /\ owed' = IF q.acked > 0 THEN SubSeq(log, 1, q.acked) ELSE owed
    BY DEF Raft!Send
<1>2. emit = "send" /\ ready' = {} /\ emit' = "idle" /\ UNCHANGED <<hard, log, wal>>
    BY DEF Raft!Send
<1>3. /\ RaftTypes /\ LoadFindsALog /\ LogIsLogged /\ HardIsLogged /\ VotesBind /\ OwedIsLogged
      /\ log \in Seq(1..MaxTerm) /\ Len(log) \in Nat /\ hard \in HardState /\ owed \in Seq(1..MaxTerm)
    BY LenProperties DEF RaftInv, RaftTypes
<1>4. /\ q.votes \subseteq [term : 0..MaxTerm, for : Candidate, entries : BOOLEAN]
      /\ q.acked \in Nat /\ q.acked <= Len(log) /\ IsPrefix(owed, log)
    BY <1>2, <1>3 DEF RaftTypes, ReadyBatch, OwedIsLogged
<1>5. Logged(Len(log)) /\ Persisted(hard)
    BY <1>2, <1>3 DEF LogIsLogged, HardIsLogged
<1>6. owed' \in Seq(1..MaxTerm) /\ IsPrefix(owed', log)
    <2>1. CASE q.acked = 0
        BY <1>1, <1>3, <1>4, <2>1
    <2>2. CASE q.acked > 0
        <3>1. q.acked \in 0..Len(log) /\ owed' = SubSeq(log, 1, q.acked)
            BY <1>1, <1>3, <1>4, <2>2
        <3>2. owed' \in Seq(1..MaxTerm) /\ Len(owed') = q.acked /\ \A i \in 1..q.acked : owed'[i] = log[i]
            BY <3>1, <1>3, SubSeqIs
        <3> QED
            BY <3>2, <1>3, <1>4, PrefixMeans
    <2> QED
        BY <1>4, <2>1, <2>2
<1>7. RaftTypes'
    BY <1>1, <1>2, <1>3, <1>4, <1>6 DEF RaftTypes
<1>8. LoadFindsALog' /\ LogIsLogged' /\ HardIsLogged'
    BY <1>2, <1>3, <1>5 DEF LoadFindsALog, LogIsLogged, Logged, HardIsLogged, Persisted
<1>9. OwedIsLogged'
    BY <1>2, <1>6 DEF OwedIsLogged
<1>10. ASSUME NEW v \in q.votes
       PROVE  v.term = hard.term /\ v.for = hard.vote /\ (v.entries => Raft!Folded(wal) # <<>> /\ hard = Raft!HardOf(wal))
    <2>1. v.term = hard.term /\ v.for = hard.vote /\ (v.entries => log # <<>>)
        BY <1>2, <1>3 DEF VotesBind
    <2>2. log # <<>> => Raft!Folded(wal) # <<>>
        <3>1. log # <<>> => Len(log) \in Nat \ {0}
            BY <1>3, EmptyIsShort
        <3>2. Len(log) <= Len(Raft!Folded(wal)) /\ (Raft!Folded(wal) = <<>> => Len(Raft!Folded(wal)) = 0)
            BY <1>5 DEF Logged
        <3> QED
            BY <3>1, <3>2
    <2> QED
        BY <2>1, <2>2, <1>5 DEF Persisted
<1>11. ASSUME NEW v \in votes', v.entries
       PROVE  Raft!Folded(wal) # <<>> /\ Binds(Raft!HardOf(wal), v) /\ Binds(hard, v)
    BY <1>1, <1>2, <1>3, <1>10, <1>11 DEF VotesBind, Binds
<1>12. ASSUME NEW v \in votes', NEW w \in votes', v.term = w.term, v.entries, w.entries
       PROVE  v.for = w.for
    <2>1. hard.term \in Nat
        BY <1>3, RaftAssumption DEF HardState
    <2>2. Binds(hard, v) /\ Binds(hard, w)
        BY <1>11, <1>12
    <2>3. ASSUME NEW x \in q.votes, NEW y \in votes', x.term = y.term, Binds(hard, y) PROVE x.for = y.for
        BY <1>10, <2>1, <2>3 DEF Binds
    <2>4. CASE v \in votes /\ w \in votes
        BY <1>3, <1>12, <2>4 DEF VotesBind
    <2>5. CASE v \in q.votes
        BY <1>12, <2>2, <2>3, <2>5
    <2>6. CASE w \in q.votes
        BY <1>12, <2>2, <2>3, <2>6
    <2> QED
        BY <1>1, <2>4, <2>5, <2>6
<1>13. VotesBind'
    BY <1>2, <1>11, <1>12 DEF VotesBind
<1> QED
    BY <1>7, <1>8, <1>9, <1>13 DEF RaftInv

\* A crash at any moment: the log file holds what the node promised.
LEMMA CrashStep ==
    ASSUME RaftInv, Raft!Crash
    PROVE  RaftInv'
<1>1. /\ emit # "torn" /\ ready' = {} /\ UNCHANGED <<wal, votes, owed>>
      /\ (emit' = "idle" /\ Raft!Load) \/ (emit = "wal" /\ emit' = "torn" /\ UNCHANGED <<hard, log>>)
    BY DEF Raft!Crash
<1>2. /\ RaftTypes /\ LoadFindsALog /\ LogIsLogged /\ HardIsLogged /\ VotesBind /\ OwedIsLogged
      /\ log \in Seq(1..MaxTerm) /\ Len(log) \in Nat /\ owed \in Seq(1..MaxTerm) /\ Len(owed) \in Nat
    BY LenProperties DEF RaftInv, RaftTypes
<1>3. CASE emit' = "torn" /\ UNCHANGED <<hard, log>>
    <2>1. RaftTypes' /\ LoadFindsALog'
        BY <1>1, <1>2, <1>3 DEF RaftTypes, LoadFindsALog
    <2>2. LogIsLogged' /\ HardIsLogged' /\ VotesBind' /\ OwedIsLogged'
        BY <1>1, <1>2, <1>3 DEF LogIsLogged, HardIsLogged, VotesBind, OwedIsLogged
    <2> QED
        BY <2>1, <2>2 DEF RaftInv
<1>4. CASE emit' = "idle" /\ Raft!Load
    <2>1. PICK found \in Seq(1..MaxTerm) : found = Raft!Folded(wal)
        BY <1>2 DEF LoadFindsALog
    <2>2. /\ log' = found /\ Len(found) <= MaxIndex /\ Len(found) \in Nat
          /\ hard' = (IF found = <<>> THEN Raft!Fresh ELSE Raft!HardOf(wal))
        <3>1. found = [i \in DOMAIN found |-> found[i]]
            BY LenProperties, SeqDef
        <3> QED
            BY <1>2, <1>4, <2>1, <3>1, LenProperties DEF Raft!Load, LoadFindsALog
    <2>3. hard' \in HardState
        <3>1. wal \in Seq(WalLine) /\ Raft!Fresh \in HardState
            BY <1>2, RaftAssumption DEF RaftTypes, Raft!Fresh, HardState
        <3>2. Raft!HardOf(wal) \in HardState
            BY <3>1, HardFound
        <3> QED
            BY <2>2, <3>1, <3>2
    <2>4. RaftTypes'
        BY <1>1, <1>2, <1>4, <2>2, <2>3 DEF RaftTypes
    <2>5. LoadFindsALog' /\ LogIsLogged' /\ HardIsLogged'
        BY <1>1, <1>2, <1>4, <2>1, <2>2 DEF LoadFindsALog, LogIsLogged, Logged, HardIsLogged, Persisted
    <2>6. VotesBind'
        BY <1>1, <1>2, <1>4, <2>1, <2>2 DEF VotesBind
    <2>7. Len(owed) <= Len(found) /\ \A i \in 1..Len(owed) : found[i] = owed[i]
        <3>1. Len(owed) <= Len(log) /\ \A i \in 1..Len(owed) : owed[i] = log[i]
            BY <1>1, <1>2, PrefixMeans DEF OwedIsLogged
        <3>2. CASE emit \in {"idle", "send"}
            <4>1. Len(log) <= Len(found) /\ \A i \in 1..Len(log) : found[i] = log[i]
                BY <1>2, <2>1, <3>2 DEF LogIsLogged, Logged
            <4> QED
                BY <1>2, <2>2, <3>1, <4>1
        <3>3. CASE emit \in {"wal", "halted"}
            <4>1. PICK q \in ready : TRUE
                BY <1>2, <3>3 DEF RaftTypes
            <4>2. /\ Len(owed) < q.from /\ q.from \in Nat
                  /\ q.from - 1 <= Len(found) /\ \A i \in 1..(q.from - 1) : found[i] = log[i]
                BY <1>2, <2>1, <3>3, <4>1 DEF LogIsLogged, Logged, OwedIsLogged, RaftTypes, ReadyBatch
            <4>3. \A i \in 1..Len(owed) : i \in 1..(q.from - 1)
                BY <1>2, <4>2
            <4> QED
                BY <1>2, <2>2, <3>1, <4>2, <4>3
        <3> QED
            BY <1>1, <1>2, <3>2, <3>3 DEF RaftTypes
    <2>8. OwedIsLogged'
        <3>1. IsPrefix(owed, found)
            BY <1>2, <2>1, <2>7, PrefixMeans
        <3> QED
            BY <1>1, <1>4, <2>2, <3>1 DEF OwedIsLogged
    <2> QED
        BY <2>4, <2>5, <2>6, <2>8 DEF RaftInv
<1> QED
    BY <1>1, <1>3, <1>4

\* Every step keeps the invariant.
LEMMA NextRaftInv == RaftInv /\ [Raft!Next]_Raft!vars => RaftInv'
<1> SUFFICES ASSUME RaftInv, [Raft!Next]_Raft!vars PROVE RaftInv'
    OBVIOUS
<1>1. CASE UNCHANGED Raft!vars
    BY <1>1 DEF Raft!vars, RaftInv, RaftTypes, LoadFindsALog, LogIsLogged, Logged, HardIsLogged, Persisted, VotesBind, OwedIsLogged
<1>2. ASSUME NEW t \in 1..MaxTerm, NEW c \in Candidate, Raft!StepVote(t, c) PROVE RaftInv'
    BY <1>2, VoteStep
<1>3. ASSUME NEW t \in 1..MaxTerm, NEW prev \in 0..(MaxIndex - 1), NEW e \in 1..t, Raft!StepAppend(t, prev, e)
      PROVE  RaftInv'
    BY <1>3, AppendStep
<1>4. CASE Raft!WriteWal
    BY <1>4, WriteStep
<1>5. CASE Raft!Send
    BY <1>5, SendStep
<1>6. CASE Raft!Crash
    BY <1>6, CrashStep
<1> QED
    BY <1>1, <1>2, <1>3, <1>4, <1>5, <1>6 DEF Raft!Next

\* The node's state is always of the types that emit() and load() take for granted.
THEOREM RaftTypeOK == Raft!Spec => []Raft!TypeOK
<1>1. RaftInv => Raft!TypeOK
    BY DEF RaftInv, RaftTypes, HardState, Raft!TypeOK
<1> QED
    BY <1>1, RaftInit, NextRaftInv, PTL DEF Raft!Spec

\* Wherever the node is killed, what it acknowledged is in its log again and it does not
\* vote against a vote it sent with entries in its log.
THEOREM RaftKeepsPromises == Raft!Spec => []PromisesSurvive
<1>1. RaftInv => PromisesSurvive
    BY DEF RaftInv, OwedIsLogged, VotesBind, PromisesSurvive
<1> QED
    BY <1>1, RaftInit, NextRaftInv, PTL DEF Raft!Spec

-----------------------------------------------------------------------------
(* snapshots *)

USE DEF Absent, Snapshots!Absent

\* The files that are newer than the one LATEST names.
Ahead == {f \in files : f > latest}

\* A write names the file it made, which is the newest one; only compact() removes files.
NewestIsNamed ==
    /\ \A f \in files : f <= revision
    /\ at \in {"file", "open", "fill", "rename"} => revision # 0
    /\ at \in {"open", "fill", "rename"} => revision \in files
    /\ at = "rename" => tmp = {revision}
    /\ at # "compact" => doomed = {}

\* Only a write in progress and those that were interrupted leave a file ahead of LATEST,
\* one each.
FewAreAhead == Cardinality(Ahead) <= crashes + (IF at \in {"open", "fill", "rename"} THEN 1 ELSE 0)

\* With fewer interrupted writes than files kept, compact() does not list what LATEST names.
LatestIsKept == crashes < Keep /\ latest # Absent => latest \in files \ doomed

\* A write returns after its rename, and no later step, of whichever process, moves LATEST
\* back: it goes on from the revision that was last begun.
WritesReturnNamed == returned <= latest /\ latest <= revision /\ (at = "return" => latest = revision)

\* What is about to be acknowledged is logged.
LogComesFirst == released \subseteq logged /\ (proposer = "ack" => pending \subseteq logged)

SnapshotInv ==
    /\ Snapshots!TypeOK
    /\ NewestIsNamed /\ FewAreAhead /\ LatestIsKept /\ WritesReturnNamed
    /\ LogComesFirst

\* There are finitely many files.
LEMMA FewFiles ==
    ASSUME NEW S, S \subseteq 1..MaxRevision
    PROVE  IsFiniteSet(S) /\ Cardinality(S) \in Nat
<1>1. IsFiniteSet(1..MaxRevision)
    BY SnapshotAssumption, FS_Interval
<1>2. IsFiniteSet(S)
    BY <1>1, FS_Subset
<1> QED
    BY <1>2, FS_CardinalityType

\* A smaller set of files is no more numerous.
LEMMA FewerFiles ==
    ASSUME NEW S, NEW T, T \subseteq 1..MaxRevision, S \subseteq T
    PROVE  Cardinality(S) <= Cardinality(T) /\ Cardinality(S) \in Nat /\ Cardinality(T) \in Nat
BY FewFiles, FS_Subset

\* The invariant holds before the first write.
LEMMA SnapshotInit == Snapshots!Init => SnapshotInv
<1> SUFFICES ASSUME Snapshots!Init PROVE SnapshotInv
    OBVIOUS
<1> USE SnapshotAssumption
<1>1. Snapshots!TypeOK
    BY DEF Snapshots!Init, Snapshots!TypeOK, Absent
<1>2. Cardinality(Ahead) = 0
    <2>1. Ahead = {}
        BY DEF Snapshots!Init, Ahead
    <2> QED
        BY <2>1, FS_EmptySet
<1>3. NewestIsNamed /\ FewAreAhead /\ LatestIsKept /\ WritesReturnNamed /\ LogComesFirst
    BY <1>2 DEF Snapshots!Init, NewestIsNamed, FewAreAhead, LatestIsKept, WritesReturnNamed, LogComesFirst, Absent
<1> QED
    BY <1>1, <1>3 DEF SnapshotInv

\* Every step keeps the invariant.
LEMMA NextSnapshotInv == SnapshotInv /\ [Snapshots!Next]_Snapshots!vars => SnapshotInv'
<1> SUFFICES ASSUME SnapshotInv, [Snapshots!Next]_Snapshots!vars PROVE SnapshotInv'
    OBVIOUS
<1> USE SnapshotAssumption
<1>1. /\ Snapshots!TypeOK /\ NewestIsNamed /\ FewAreAhead /\ LatestIsKept /\ WritesReturnNamed /\ LogComesFirst
      /\ files \subseteq 1..MaxRevision /\ latest \in 0..MaxRevision /\ revision \in 0..MaxRevision
      /\ returned \in 0..MaxRevision /\ tmp \subseteq 1..MaxRevision /\ doomed \subseteq files /\ crashes \in 0..MaxCrash
      /\ Ahead \subseteq 1..MaxRevision /\ Cardinality(Ahead) \in Nat
    <2>1. Ahead \subseteq files
        BY DEF Ahead
    <2> QED
        BY <2>1, FewFiles DEF SnapshotInv, Snapshots!TypeOK
\* A step that leaves files and LATEST alone, and ends no write.
<1>2. ASSUME UNCHANGED <<files, latest, returned, crashes, doomed, queued, pending, logged, released, proposer>>,
             revision' \in 0..MaxRevision, revision' >= revision, tmp' \subseteq 1..MaxRevision,
             at' \in {"open", "fill", "rename"} <=> at \in {"open", "fill", "rename"},
             at' \in {"open", "fill", "rename"} => revision' = revision,
             at # "compact", at' \in {"file", "open", "fill", "rename"}, revision' # 0,
             at' = "rename" => tmp' = {revision}
      PROVE  SnapshotInv'
    <2>1. Snapshots!TypeOK' /\ NewestIsNamed' /\ LatestIsKept' /\ WritesReturnNamed' /\ LogComesFirst'
        BY <1>1, <1>2 DEF Snapshots!TypeOK, NewestIsNamed, LatestIsKept, WritesReturnNamed, LogComesFirst
    <2>2. FewAreAhead'
        BY <1>1, <1>2 DEF FewAreAhead, Ahead
    <2> QED
        BY <2>1, <2>2 DEF SnapshotInv
\* A step of the node.
<1>3. ASSUME UNCHANGED <<files, tmp, latest, at, revision, returned, doomed, crashes>>,
             queued' \subseteq Proposal, pending' \subseteq Proposal, released' \subseteq Proposal,
             proposer' \in {"idle", "log", "ack"}, LogComesFirst'
      PROVE  SnapshotInv'
    <2>1. Snapshots!TypeOK' /\ NewestIsNamed' /\ LatestIsKept' /\ WritesReturnNamed'
        BY <1>1, <1>3 DEF Snapshots!TypeOK, NewestIsNamed, LatestIsKept, WritesReturnNamed
    <2>2. FewAreAhead'
        BY <1>1, <1>3 DEF FewAreAhead, Ahead
    <2> QED
        BY <2>1, <2>2, <1>3 DEF SnapshotInv
<1>4. CASE UNCHANGED Snapshots!vars
    BY <1>1, <1>3, <1>4 DEF Snapshots!vars, Snapshots!store, Snapshots!raft, Snapshots!TypeOK, LogComesFirst
<1>5. CASE Snapshots!BeginWrite
    BY <1>1, <1>2, <1>5 DEF Snapshots!BeginWrite, Snapshots!raft
<1>6. CASE Snapshots!OpenTmp \/ Snapshots!FillTmp
    <2>1. at \in {"open", "fill"} => revision \in 1..MaxRevision
        BY <1>1 DEF NewestIsNamed
    <2> QED
        BY <1>1, <1>2, <1>6, <2>1 DEF Snapshots!OpenTmp, Snapshots!FillTmp, Snapshots!raft
<1>7. CASE Snapshots!WriteFile
    <2>1. /\ at = "file" /\ at' = "open" /\ files' = files \cup {revision}
          /\ UNCHANGED <<tmp, latest, revision, returned, doomed, crashes, Snapshots!raft>>
        BY <1>7 DEF Snapshots!WriteFile
    <2>2. revision \in 1..MaxRevision
        BY <1>1, <2>1 DEF NewestIsNamed
    <2>3. Snapshots!TypeOK' /\ NewestIsNamed' /\ LatestIsKept' /\ WritesReturnNamed' /\ LogComesFirst'
        BY <1>1, <2>1, <2>2 DEF Snapshots!TypeOK, NewestIsNamed, LatestIsKept, WritesReturnNamed, LogComesFirst, Snapshots!raft
    <2>4. FewAreAhead'
        <3>1. Ahead' \subseteq Ahead \cup {revision} /\ Ahead \cup {revision} \subseteq 1..MaxRevision
            BY <1>1, <2>1, <2>2 DEF Ahead
        <3>2. Cardinality(Ahead \cup {revision}) <= Cardinality(Ahead) + 1
            <4>1. IsFiniteSet(Ahead)
                BY <1>1, FewFiles
            <4>2. Cardinality(Ahead \cup {revision}) = IF revision \in Ahead THEN Cardinality(Ahead) ELSE Cardinality(Ahead) + 1
                BY <4>1, FS_AddElement
            <4> QED
                BY <1>1, <4>2
        <3>3. Cardinality(Ahead') <= Cardinality(Ahead) + 1
            <4>1. PICK B : B = Ahead \cup {revision}
                OBVIOUS
            <4>2. Cardinality(Ahead') <= Cardinality(B) /\ Cardinality(Ahead') \in Nat /\ Cardinality(B) \in Nat
                BY <3>1, <4>1, FewerFiles
            <4> QED
                BY <1>1, <3>2, <4>1, <4>2
        <3>4. Cardinality(Ahead) <= crashes
            BY <1>1, <2>1 DEF FewAreAhead
        <3>5. Cardinality(Ahead') \in Nat
            BY <3>1, FewerFiles
        <3> QED
            BY <1>1, <2>1, <3>3, <3>4, <3>5 DEF FewAreAhead
    <2> QED
        BY <2>3, <2>4 DEF SnapshotInv
<1>8. CASE Snapshots!Rename
    <2>1. /\ at = "rename" /\ at' = "return" /\ latest' = Snapshots!Max(tmp) /\ tmp' = {}
          /\ UNCHANGED <<files, revision, returned, doomed, crashes, Snapshots!raft>>
        BY <1>8 DEF Snapshots!Rename
    <2>2. latest' = revision /\ revision \in files
        <3>1. tmp = {revision} /\ revision \in files
            BY <1>1, <2>1 DEF NewestIsNamed
        <3>2. Snapshots!Max({revision}) = revision
            BY <1>1 DEF Snapshots!Max
        <3> QED
            BY <2>1, <3>1, <3>2
    <2>3. doomed = {}
        BY <1>1, <2>1 DEF NewestIsNamed
    <2>4. Snapshots!TypeOK' /\ NewestIsNamed' /\ LatestIsKept' /\ WritesReturnNamed' /\ LogComesFirst'
        BY <1>1, <2>1, <2>2, <2>3 DEF Snapshots!TypeOK, NewestIsNamed, LatestIsKept, WritesReturnNamed, LogComesFirst, Snapshots!raft
    <2>5. FewAreAhead'
        <3>1. Ahead' = {}
            <4>1. \A f \in files' : f \in Nat /\ f <= latest'
                BY <1>1, <2>1, <2>2 DEF NewestIsNamed
            <4>2. latest' \in Nat
                BY <1>1, <2>2
            <4> QED
                BY <4>1, <4>2 DEF Ahead
        <3>2. Cardinality(Ahead') = 0
            BY <3>1, FS_EmptySet
        <3> QED
            BY <1>1, <2>1, <3>2 DEF FewAreAhead
    <2> QED
        BY <2>4, <2>5 DEF SnapshotInv
<1>9. CASE Snapshots!Compact
    <2>1. /\ at = "idle" /\ at' = "compact" /\ doomed' = {f \in files : Cardinality({g \in files : g > f}) >= Keep}
          /\ UNCHANGED <<files, tmp, latest, revision, returned, crashes, Snapshots!raft>>
        BY <1>9 DEF Snapshots!Compact, Cardinality, Snapshots!Cardinality
    <2>2. crashes < Keep => latest \notin doomed'
        <3>1. Cardinality(Ahead) <= crashes
            BY <1>1, <2>1 DEF FewAreAhead
        <3>2. crashes < Keep => ~ (Cardinality(Ahead) >= Keep)
            BY <1>1, <3>1
        <3> QED
            BY <2>1, <3>2 DEF Ahead
    <2>3. Snapshots!TypeOK' /\ NewestIsNamed' /\ LatestIsKept' /\ WritesReturnNamed' /\ LogComesFirst'
        BY <1>1, <2>1, <2>2 DEF Snapshots!TypeOK, NewestIsNamed, LatestIsKept, WritesReturnNamed, LogComesFirst, Snapshots!raft
    <2>4. FewAreAhead'
        BY <1>1, <2>1 DEF FewAreAhead, Ahead
    <2> QED
        BY <2>3, <2>4 DEF SnapshotInv
<1>10. CASE Snapshots!Unlink
    <2>1. at = "compact" /\ UNCHANGED <<tmp, latest, revision, returned, crashes, Snapshots!raft>>
        BY <1>10 DEF Snapshots!Unlink
    <2>2. /\ files' \subseteq files /\ doomed' \subseteq doomed /\ doomed' \subseteq files' /\ at' \in {"idle", "compact"}
          /\ files \ doomed \subseteq files' \ doomed' /\ (at' = "idle" => doomed' = {})
        <3>1. CASE doomed = {}
            BY <1>1, <1>10, <3>1 DEF Snapshots!Unlink
        <3>2. CASE doomed # {}
            <4>1. PICK x \in doomed : \A y \in doomed : x <= y
                <5>1. doomed \subseteq Nat
                    BY <1>1
                <5> QED
                    BY <3>2, <5>1, SmallestNumber
            <4>2. Snapshots!Min(doomed) \in doomed
                BY <4>1 DEF Snapshots!Min
            <4>3. files' = files \ {Snapshots!Min(doomed)} /\ doomed' = doomed \ {Snapshots!Min(doomed)} /\ UNCHANGED at
                BY <1>10, <3>2 DEF Snapshots!Unlink
            <4> QED
                BY <1>1, <2>1, <4>2, <4>3
        <3> QED
            BY <3>1, <3>2
    <2>3. Snapshots!TypeOK' /\ NewestIsNamed' /\ LatestIsKept' /\ WritesReturnNamed' /\ LogComesFirst'
        BY <1>1, <2>1, <2>2 DEF Snapshots!TypeOK, NewestIsNamed, LatestIsKept, WritesReturnNamed, LogComesFirst, Snapshots!raft
    <2>4. FewAreAhead'
        <3>1. Ahead' \subseteq Ahead
            BY <1>1, <2>1, <2>2 DEF Ahead
        <3>2. Cardinality(Ahead') <= Cardinality(Ahead) /\ Cardinality(Ahead') \in Nat
            BY <1>1, <3>1, FewerFiles
        <3> QED
            BY <1>1, <2>1, <2>2, <3>2 DEF FewAreAhead
    <2> QED
        BY <2>3, <2>4 DEF SnapshotInv
<1>11. ASSUME NEW p \in Proposal, Snapshots!Propose(p) PROVE SnapshotInv'
    <2>1. LogComesFirst'
        BY <1>1, <1>11 DEF Snapshots!Propose, LogComesFirst, Snapshots!store
    <2> QED
        BY <1>1, <1>3, <1>11, <2>1 DEF Snapshots!Propose, Snapshots!store, Snapshots!TypeOK
<1>12. CASE Snapshots!Log \/ Snapshots!Acknowledge
    <2>1. LogComesFirst'
        BY <1>1, <1>12 DEF Snapshots!Log, Snapshots!Acknowledge, LogComesFirst, Snapshots!store
    <2> QED
        BY <1>1, <1>3, <1>12, <2>1 DEF Snapshots!Log, Snapshots!Acknowledge, Snapshots!store, Snapshots!TypeOK
<1>13. CASE Snapshots!Crash
    <2>1. /\ crashes' = crashes + 1 /\ crashes < MaxCrash /\ at' = "idle" /\ doomed' = {}
          /\ queued' = {} /\ pending' = {} /\ proposer' = "idle" /\ UNCHANGED <<files, tmp, latest, revision, returned, logged, released>>
        BY <1>13 DEF Snapshots!Crash
    <2>2. Snapshots!TypeOK' /\ NewestIsNamed' /\ LatestIsKept' /\ WritesReturnNamed' /\ LogComesFirst'
        BY <1>1, <2>1 DEF Snapshots!TypeOK, NewestIsNamed, LatestIsKept, WritesReturnNamed, LogComesFirst
    <2>3. FewAreAhead'
        BY <1>1, <2>1 DEF FewAreAhead, Ahead
    <2> QED
        BY <2>2, <2>3 DEF SnapshotInv
<1>14. CASE Snapshots!Return
    <2>1. /\ at = "return" /\ at' = "idle" /\ returned' = revision
          /\ UNCHANGED <<files, tmp, latest, revision, doomed, crashes, Snapshots!raft>>
        BY <1>14 DEF Snapshots!Return
    <2>2. Snapshots!TypeOK' /\ NewestIsNamed' /\ LatestIsKept' /\ WritesReturnNamed' /\ LogComesFirst'
        BY <1>1, <2>1 DEF Snapshots!TypeOK, NewestIsNamed, LatestIsKept, WritesReturnNamed, LogComesFirst, Snapshots!raft
    <2>3. FewAreAhead'
        BY <1>1, <2>1 DEF FewAreAhead, Ahead
    <2> QED
        BY <2>2, <2>3 DEF SnapshotInv
<1> QED
    BY <1>4, <1>5, <1>6, <1>7, <1>8, <1>9, <1>10, <1>11, <1>12, <1>13, <1>14 DEF Snapshots!Next

\* Store and node are well typed.
THEOREM SnapshotTypeOK == Snapshots!Spec => []Snapshots!TypeOK
<1>1. SnapshotInv => Snapshots!TypeOK
    BY DEF SnapshotInv
<1> QED
    BY <1>1, SnapshotInit, NextSnapshotInv, PTL DEF Snapshots!Spec

\* However many writes were interrupted, LATEST is no older than any that returned; it names
\* a file that is there as long as fewer were interrupted than files are kept; and what was
\* acknowledged is logged (snapshot_store.py, raft_backend.py).
THEOREM CrashesLoseNothing == Snapshots!Spec => []SnapshotsAndLogSurvive
<1>1. SnapshotInv => SnapshotsAndLogSurvive
    BY DEF SnapshotInv, LatestIsKept, WritesReturnNamed, LogComesFirst, SnapshotsAndLogSurvive, LatestIsReadable, AckedIsLogged
<1> QED
    BY <1>1, SnapshotInit, NextSnapshotInv, PTL DEF Snapshots!Spec

-----------------------------------------------------------------------------
(* transport *)

Stations == {"backlog", "check", "read", "ended"}

\* Every connection has a stream and a thread, and all of them are numbered alike.
FrameTypes ==
    /\ sequence \in 0..MaxFrame /\ attempts \in 0..(MaxRetries + 1) /\ (attempts > 0 => sequence > 0)
    /\ streams \in Seq(Seq(Nat)) /\ threads \in Seq(Stations) /\ Len(threads) = Len(streams)
    /\ socket \in {0} \cup Frames!Connections /\ ends \subseteq Frames!Connections
    /\ raised \subseteq 1..sequence /\ (attempts > 0 => sequence \notin raised)
    /\ handed \in Seq([by : Nat, frame : Nat]) /\ late \in Seq(Nat)
    /\ stop \in BOOLEAN /\ breaks \in Nat

\* A frame some write completed: not one whose send raised, nor the one being sent.
Sent(f) == f \in 1..sequence /\ f \notin raised /\ (attempts > 0 => f # sequence)

\* What is in a stream was sent, except for a part of a frame at the very end.
StreamsHoldSent ==
    \A c \in Frames!Connections : \A i \in 1..Len(streams[c]) :
      IF streams[c][i] = Frames!Torn THEN c \in ends /\ i = Len(streams[c]) ELSE Sent(streams[c][i])

\* A stream's frames are in the order they were sent; two streams share no frame.
StreamsInOrder ==
    \A c \in Frames!Connections : \A i, j \in 1..Len(streams[c]) :
      i < j /\ streams[c][j] # Frames!Torn => streams[c][i] < streams[c][j]

StreamsApart ==
    \A c, d \in Frames!Connections : c # d =>
      \A i \in 1..Len(streams[c]), j \in 1..Len(streams[d]) : streams[c][i] = streams[d][j] => streams[c][i] = Frames!Torn

\* What was handed over was sent, is in no stream any more, and came before what its
\* connection holds.
HandedFirst ==
    \A j \in 1..Len(handed) :
      /\ Sent(handed[j].frame)
      /\ \A c \in Frames!Connections : \A i \in 1..Len(streams[c]) :
           /\ streams[c][i] # handed[j].frame
           /\ handed[j].by = c /\ streams[c][i] # Frames!Torn => handed[j].frame < streams[c][i]

HandedInOrder ==
    \A i, j \in 1..Len(handed) : i < j =>
      /\ handed[i].frame # handed[j].frame
      /\ handed[i].by = handed[j].by => handed[i].frame < handed[j].frame

\* A connection that handed over a frame after close() looks at _stop next.
LateIsLast ==
    /\ \A i \in 1..Len(late) : stop /\ late[i] \in Frames!Connections /\ threads[late[i]] \in {"check", "ended"}
    /\ \A i, j \in 1..Len(late) : late[i] = late[j] => i = j

FrameInv ==
    /\ FrameTypes
    /\ StreamsHoldSent /\ StreamsInOrder /\ StreamsApart
    /\ HandedFirst /\ HandedInOrder
    /\ LateIsLast

-----------------------------------------------------------------------------
\* The connections are numbered from one, and each has a stream and a thread.
Numbered ==
    /\ Len(streams) \in Nat /\ Frames!Connections = 1..Len(streams) /\ DOMAIN threads = 1..Len(streams)
    /\ \A c \in Frames!Connections : streams[c] \in Seq(Nat) /\ Len(streams[c]) \in Nat /\ threads[c] \in Stations
    /\ \A c \in Frames!Connections : \A i \in 1..Len(streams[c]) : streams[c][i] \in Nat
    /\ Len(handed) \in Nat /\ \A j \in 1..Len(handed) : handed[j].frame \in Nat
    /\ Len(late) \in Nat

LEMMA ConnectionsAre == FrameTypes => Numbered
<1> SUFFICES ASSUME FrameTypes PROVE Numbered
    OBVIOUS
<1>1. /\ Len(streams) \in Nat /\ Frames!Connections = 1..Len(streams) /\ DOMAIN threads = 1..Len(threads)
      /\ \A c \in 1..Len(streams) : streams[c] \in Seq(Nat)
      /\ \A c \in 1..Len(threads) : threads[c] \in Stations
    BY LenProperties, ElementOfSeq DEF FrameTypes, Frames!Connections
<1>2. ASSUME NEW t \in Seq(Nat) PROVE Len(t) \in Nat /\ \A i \in 1..Len(t) : t[i] \in Nat
    BY LenProperties, ElementOfSeq
<1>3. Len(threads) = Len(streams)
    BY DEF FrameTypes
<1>4. Len(handed) \in Nat /\ \A j \in 1..Len(handed) : handed[j] \in [by : Nat, frame : Nat]
    <2>1. handed \in Seq([by : Nat, frame : Nat])
        BY DEF FrameTypes
    <2> QED
        BY <2>1, LenProperties, ElementOfSeq
<1>5. Len(late) \in Nat
    BY LenProperties DEF FrameTypes
<1> QED
    BY <1>1, <1>2, <1>3, <1>4, <1>5 DEF Numbered

\* Each stream is a piece of what it was, from where it is shifted to.
Pieces(shift) ==
    \A c \in Frames!Connections' : \A i \in 1..Len(streams'[c]) :
      /\ c \in Frames!Connections /\ i + shift[c] \in 1..Len(streams[c]) /\ shift[c] \in Nat
      /\ streams'[c][i] = streams[c][i + shift[c]]
      /\ i + shift[c] = Len(streams[c]) => i = Len(streams'[c])

\* A step after which every stream is a piece of what it was keeps what is known of
\* streams; Read takes the first frame off, Break the last ones.
LEMMA PiecesKept ==
    ASSUME FrameInv, FrameTypes', ends \subseteq ends',
           \A f \in Nat : Sent(f) => Sent(f)',
           NEW shift, Pieces(shift)
    PROVE  /\ StreamsHoldSent' /\ StreamsInOrder' /\ StreamsApart'
           /\ UNCHANGED handed => HandedFirst' /\ HandedInOrder'
<1>1. Numbered /\ Numbered'
    <2>1. FrameTypes => Numbered
        BY ConnectionsAre
    <2>2. FrameTypes' => Numbered'
        BY ConnectionsAre, PTL
    <2> QED
        BY <2>1, <2>2 DEF FrameInv
<1>2. StreamsHoldSent'
    <2> SUFFICES ASSUME NEW c \in Frames!Connections', NEW i \in 1..Len(streams'[c])
                 PROVE  /\ streams'[c][i] = Frames!Torn => c \in ends' /\ i = Len(streams'[c])
                        /\ streams'[c][i] # Frames!Torn => Sent(streams[c][i])'
        BY DEF StreamsHoldSent, Frames!Torn
    <2>1. PICK k : k = i + shift[c]
        OBVIOUS
    <2>2. /\ c \in Frames!Connections /\ k \in 1..Len(streams[c]) /\ streams'[c][i] = streams[c][k] /\ streams[c][k] \in Nat
          /\ k = Len(streams[c]) => i = Len(streams'[c])
        BY <1>1, <2>1 DEF Numbered, Pieces
    <2>3. IF streams[c][k] = Frames!Torn THEN c \in ends /\ k = Len(streams[c]) ELSE Sent(streams[c][k])
        BY <2>2 DEF FrameInv, StreamsHoldSent
    <2>4. CASE streams[c][k] = Frames!Torn
        BY <2>2, <2>3, <2>4 DEF Frames!Torn
    <2>5. CASE streams[c][k] # Frames!Torn
        <3>1. PICK f \in Nat : f = streams[c][k]
            BY <2>2
        <3>2. Sent(f)'
            BY <2>3, <2>5, <3>1
        <3> QED
            BY <2>2, <2>5, <3>1, <3>2 DEF Sent, Frames!Torn
    <2> QED
        BY <2>4, <2>5
<1>3. StreamsInOrder'
    <2> SUFFICES ASSUME NEW c \in Frames!Connections', NEW i \in 1..Len(streams'[c]), NEW j \in 1..Len(streams'[c]),
                        i < j, streams'[c][j] # Frames!Torn
                 PROVE  streams'[c][i] < streams'[c][j]
        BY DEF StreamsInOrder
    <2>1. /\ c \in Frames!Connections /\ shift[c] \in Nat
          /\ i + shift[c] \in 1..Len(streams[c]) /\ j + shift[c] \in 1..Len(streams[c])
          /\ streams'[c][i] = streams[c][i + shift[c]] /\ streams'[c][j] = streams[c][j + shift[c]]
        BY DEF Pieces
    <2>2. i + shift[c] < j + shift[c]
        BY <1>1, <2>1 DEF Numbered
    <2> QED
        BY <2>1, <2>2 DEF FrameInv, StreamsInOrder
<1>4. StreamsApart'
    <2> SUFFICES ASSUME NEW c \in Frames!Connections', NEW d \in Frames!Connections', c # d,
                        NEW i \in 1..Len(streams'[c]), NEW j \in 1..Len(streams'[d]), streams'[c][i] = streams'[d][j]
                 PROVE  streams'[c][i] = Frames!Torn
        BY DEF StreamsApart, Frames!Torn
    <2>1. PICK k, l : k = i + shift[c] /\ l = j + shift[d]
        OBVIOUS
    <2>2. /\ c \in Frames!Connections /\ k \in 1..Len(streams[c]) /\ streams'[c][i] = streams[c][k]
          /\ d \in Frames!Connections /\ l \in 1..Len(streams[d]) /\ streams'[d][j] = streams[d][l]
        BY <2>1 DEF Pieces
    <2> QED
        BY <2>2 DEF FrameInv, StreamsApart
<1>5. UNCHANGED handed => HandedFirst' /\ HandedInOrder'
    <2> SUFFICES ASSUME UNCHANGED handed, NEW j \in 1..Len(handed)
                 PROVE  /\ Sent(handed[j].frame)'
                        /\ \A c \in Frames!Connections' : \A i \in 1..Len(streams'[c]) :
                             /\ streams'[c][i] # handed[j].frame
                             /\ handed[j].by = c /\ streams'[c][i] # Frames!Torn => handed[j].frame < streams'[c][i]
        BY DEF FrameInv, HandedFirst, HandedInOrder, Frames!Torn
    <2>1. Sent(handed[j].frame)'
        <3>1. PICK f \in Nat : f = handed[j].frame
            BY <1>1 DEF Numbered
        <3>2. Sent(f)'
            BY <3>1 DEF FrameInv, HandedFirst
        <3> QED
            BY <3>1, <3>2 DEF Sent
    <2>2. ASSUME NEW c \in Frames!Connections', NEW i \in 1..Len(streams'[c])
          PROVE  /\ streams'[c][i] # handed[j].frame
                 /\ handed[j].by = c /\ streams'[c][i] # Frames!Torn => handed[j].frame < streams'[c][i]
        <3>1. PICK k : k = i + shift[c]
            OBVIOUS
        <3>2. c \in Frames!Connections /\ k \in 1..Len(streams[c]) /\ streams'[c][i] = streams[c][k]
            BY <3>1 DEF Pieces
        <3> QED
            BY <3>2 DEF FrameInv, HandedFirst
    <2> QED
        BY <2>1, <2>2
<1> QED
    BY <1>2, <1>3, <1>4, <1>5

\* A write appends the frame being sent, or a part of it to a connection it then closes.
LEMMA WriteKept ==
    ASSUME FrameInv, FrameTypes', ends \subseteq ends', attempts > 0, socket \in Frames!Connections, socket \notin ends,
           \A f \in Nat : Sent(f) => Sent(f)',
           NEW x \in {Frames!Torn, sequence}, x = Frames!Torn => socket \in ends', x # Frames!Torn => Sent(x)',
           streams' = [streams EXCEPT ![socket] = Append(@, x)], UNCHANGED handed
    PROVE  StreamsHoldSent' /\ StreamsInOrder' /\ StreamsApart' /\ HandedFirst' /\ HandedInOrder'
<1>1. Numbered /\ Numbered' /\ FrameTypes /\ sequence \in Nat /\ sequence > 0 /\ x \in Nat
    <2>1. FrameTypes => Numbered
        BY ConnectionsAre
    <2>2. FrameTypes' => Numbered'
        BY ConnectionsAre, PTL
    <2>3. FrameTypes /\ Numbered /\ Numbered'
        BY <2>1, <2>2 DEF FrameInv
    <2>4. sequence \in Nat /\ sequence > 0
        BY <2>3 DEF FrameTypes, FrameAssumption
    <2> QED
        BY <2>3, <2>4 DEF Frames!Torn
<1> DEFINE n == Len(streams[socket])
<1>2. /\ Frames!Connections' = Frames!Connections /\ n \in Nat
      /\ \A c \in Frames!Connections : c # socket => streams'[c] = streams[c]
      /\ Len(streams'[socket]) = n + 1 /\ streams'[socket][n + 1] = x
      /\ \A i \in 1..n : streams'[socket][i] = streams[socket][i]
    <2>1. /\ Len(Append(streams[socket], x)) = n + 1 /\ Append(streams[socket], x)[n + 1] = x
          /\ \A i \in 1..n : Append(streams[socket], x)[i] = streams[socket][i]
        BY <1>1, AppendProperties DEF Numbered
    <2>2. streams'[socket] = Append(streams[socket], x) /\ \A c \in Frames!Connections : c # socket => streams'[c] = streams[c]
        BY DEF Frames!Connections
    <2>3. Frames!Connections' = Frames!Connections
        BY DEF Frames!Connections
    <2> QED
        BY <1>1, <2>1, <2>2, <2>3 DEF Numbered
<1>3. ASSUME NEW c \in Frames!Connections, NEW i \in 1..Len(streams[c])
      PROVE  /\ streams[c][i] \in Nat
             /\ streams[c][i] = Frames!Torn => c \in ends /\ i = Len(streams[c])
             /\ streams[c][i] # Frames!Torn => Sent(streams[c][i]) /\ streams[c][i] < sequence
    <2>1. streams[c][i] \in Nat
        BY <1>1 DEF Numbered
    <2>2. /\ streams[c][i] = Frames!Torn => c \in ends /\ i = Len(streams[c])
          /\ streams[c][i] # Frames!Torn => Sent(streams[c][i])
        BY DEF FrameInv, StreamsHoldSent
    <2>3. Sent(streams[c][i]) => streams[c][i] < sequence
        BY <1>1, <2>1 DEF Sent
    <2> QED
        BY <2>1, <2>2, <2>3
<1> DEFINE Old(c, i) == /\ i \in 1..Len(streams[c]) /\ streams'[c][i] = streams[c][i]
                        /\ c # socket => Len(streams'[c]) = Len(streams[c])
           New(c, i) == c = socket /\ i = n + 1 /\ i = Len(streams'[c]) /\ streams'[c][i] = x
<1>4. ASSUME NEW c \in Frames!Connections', NEW i \in 1..Len(streams'[c])
      PROVE  c \in Frames!Connections /\ i \in Nat /\ (Old(c, i) \/ New(c, i))
    BY <1>1, <1>2 DEF Numbered
<1>5. x = Frames!Torn \/ x = sequence
    OBVIOUS
<1>6. \A c \in Frames!Connections, i, j \in Nat : New(c, i) /\ Old(c, j) => j < i
    BY <1>2
<1> HIDE DEF Old, New, n
<1>7. StreamsHoldSent'
    <2> SUFFICES ASSUME NEW c \in Frames!Connections', NEW i \in 1..Len(streams'[c])
                 PROVE  /\ streams'[c][i] = Frames!Torn => c \in ends' /\ i = Len(streams'[c])
                        /\ streams'[c][i] # Frames!Torn => Sent(streams[c][i])'
        BY DEF StreamsHoldSent, Frames!Torn
    <2>1. CASE New(c, i)
        BY <2>1 DEF New, Sent
    <2>2. CASE Old(c, i)
        <3>1. PICK f \in Nat : f = streams[c][i] /\ f = streams'[c][i]
            BY <1>3, <1>4, <2>2 DEF Old
        <3>2. f # Frames!Torn => Sent(f)'
            BY <1>3, <1>4, <2>2, <3>1 DEF Old
        <3>3. f = Frames!Torn => c \in ends /\ c # socket /\ i = Len(streams'[c])
            BY <1>3, <1>4, <2>2, <3>1 DEF Old
        <3> QED
            BY <3>1, <3>2, <3>3 DEF Sent, Frames!Torn
    <2> QED
        BY <1>4, <2>1, <2>2
<1>8. StreamsInOrder'
    <2> SUFFICES ASSUME NEW c \in Frames!Connections', NEW i \in 1..Len(streams'[c]), NEW j \in 1..Len(streams'[c]),
                        i < j, streams'[c][j] # Frames!Torn
                 PROVE  streams'[c][i] < streams'[c][j]
        BY DEF StreamsInOrder, Frames!Torn
    <2>1. Old(c, i)
        BY <1>1, <1>2, <1>4 DEF New, Numbered
    <2>2. CASE Old(c, j)
        BY <1>4, <2>1, <2>2 DEF Old, FrameInv, StreamsInOrder
    <2>3. CASE New(c, j)
        <3>1. streams'[c][j] = sequence
            BY <1>5, <2>3 DEF New
        <3>2. streams[c][i] # Frames!Torn
            BY <1>3, <1>4, <2>1, <2>3 DEF Old, New
        <3> QED
            BY <1>3, <1>4, <2>1, <3>1, <3>2 DEF Old
    <2> QED
        BY <1>4, <2>2, <2>3
<1>9. StreamsApart'
    <2> SUFFICES ASSUME NEW c \in Frames!Connections', NEW d \in Frames!Connections', c # d,
                        NEW i \in 1..Len(streams'[c]), NEW j \in 1..Len(streams'[d]), streams'[c][i] = streams'[d][j]
                 PROVE  streams'[c][i] = Frames!Torn
        BY DEF StreamsApart, Frames!Torn
    <2>1. CASE Old(c, i) /\ Old(d, j)
        BY <1>4, <2>1 DEF Old, FrameInv, StreamsApart
    <2>2. CASE New(c, i) /\ Old(d, j)
        BY <1>1, <1>3, <1>4, <1>5, <2>2 DEF Old, New
    <2>3. CASE Old(c, i) /\ New(d, j)
        BY <1>1, <1>3, <1>4, <1>5, <2>3 DEF Old, New
    <2>4. ~ (New(c, i) /\ New(d, j))
        BY DEF New
    <2> QED
        BY <1>4, <2>1, <2>2, <2>3, <2>4
<1>10. HandedInOrder'
    BY DEF FrameInv, HandedInOrder
<1>11. HandedFirst'
    <2> SUFFICES ASSUME NEW j \in 1..Len(handed)
                 PROVE  /\ Sent(handed[j].frame)'
                        /\ \A c \in Frames!Connections' : \A i \in 1..Len(streams'[c]) :
                             /\ streams'[c][i] # handed[j].frame
                             /\ handed[j].by = c /\ streams'[c][i] # Frames!Torn => handed[j].frame < streams'[c][i]
        BY DEF HandedFirst, Frames!Torn
    <2>1. PICK f \in Nat : f = handed[j].frame
        BY <1>1 DEF Numbered
    <2>2. Sent(f) /\ Sent(f)' /\ f > 0 /\ f < sequence
        BY <1>1, <2>1 DEF FrameInv, HandedFirst, Sent
    <2>3. Sent(handed[j].frame)'
        BY <2>1, <2>2 DEF Sent
    <2>4. ASSUME NEW c \in Frames!Connections', NEW i \in 1..Len(streams'[c])
          PROVE  /\ streams'[c][i] # handed[j].frame
                 /\ handed[j].by = c /\ streams'[c][i] # Frames!Torn => handed[j].frame < streams'[c][i]
        <3>1. CASE Old(c, i)
            BY <1>4, <3>1 DEF Old, FrameInv, HandedFirst
        <3>2. CASE New(c, i)
            BY <1>1, <1>5, <2>1, <2>2, <3>2 DEF New, Frames!Torn
        <3> QED
            BY <1>4, <3>1, <3>2
    <2> QED
        BY <2>3, <2>4
<1> QED
    BY <1>7, <1>8, <1>9, <1>10, <1>11

\* Streams that end earlier, and new streams, which are empty.
Shortened ==
    \A c \in Frames!Connections' : \A i \in 1..Len(streams'[c]) :
      c \in Frames!Connections /\ Len(streams'[c]) =< Len(streams[c]) /\ streams'[c][i] = streams[c][i]

LEMMA ShortenedKept ==
    ASSUME FrameInv, FrameTypes', ends \subseteq ends', UNCHANGED handed,
           \A f \in Nat : Sent(f) => Sent(f)',
           Shortened
    PROVE  StreamsHoldSent' /\ StreamsInOrder' /\ StreamsApart' /\ HandedFirst' /\ HandedInOrder'
<1>1. Numbered /\ Numbered'
    <2>1. FrameTypes => Numbered
        BY ConnectionsAre
    <2>2. FrameTypes' => Numbered'
        BY ConnectionsAre, PTL
    <2> QED
        BY <2>1, <2>2 DEF FrameInv
<1>2. PICK shift : shift = [c \in Frames!Connections |-> 0]
    OBVIOUS
<1>3. Pieces(shift)
    <2> SUFFICES ASSUME NEW c \in Frames!Connections', NEW i \in 1..Len(streams'[c])
                 PROVE  /\ c \in Frames!Connections /\ i + shift[c] \in 1..Len(streams[c]) /\ shift[c] \in Nat
                        /\ streams'[c][i] = streams[c][i + shift[c]]
                        /\ i + shift[c] = Len(streams[c]) => i = Len(streams'[c])
        BY DEF Pieces
    <2>1. c \in Frames!Connections /\ Len(streams'[c]) =< Len(streams[c]) /\ streams'[c][i] = streams[c][i]
        BY DEF Shortened
    <2>2. shift[c] = 0
        BY <1>2, <2>1
    <2>3. Len(streams[c]) \in Nat /\ Len(streams'[c]) \in Nat
        BY <1>1, <2>1 DEF Numbered
    <2>4. \A m, k \in Nat : k =< m /\ i \in 1..k => i + 0 = i /\ i \in 1..m /\ (i = m => i = k)
        OBVIOUS
    <2>5. i \in 1..Len(streams[c]) /\ i + 0 = i /\ (i = Len(streams[c]) => i = Len(streams'[c]))
        BY <2>1, <2>3, <2>4
    <2> QED
        BY <2>1, <2>2, <2>5
<1> QED
    BY <1>3, PiecesKept

\* Nothing is read from the streams that do not change.
LEMMA SameStreams == FrameTypes /\ UNCHANGED streams => Shortened
<1> SUFFICES ASSUME FrameTypes, UNCHANGED streams PROVE Shortened
    OBVIOUS
<1>1. Numbered
    BY ConnectionsAre
<1> QED
    BY <1>1 DEF Shortened, Numbered, Frames!Connections

-----------------------------------------------------------------------------
LEMMA FrameInit == Frames!Init => FrameInv
<1> SUFFICES ASSUME Frames!Init PROVE FrameInv
    OBVIOUS
<1>1. Frames!Connections = {} /\ Len(handed) = 0 /\ Len(late) = 0
    BY DEF Frames!Init, Frames!Connections
<1>2. FrameTypes
    <2>1. <<>> \in Seq(Seq(Nat)) /\ <<>> \in Seq(Stations) /\ <<>> \in Seq([by : Nat, frame : Nat]) /\ <<>> \in Seq(Nat)
        BY EmptySeq
    <2>2. streams \in Seq(Seq(Nat)) /\ threads \in Seq(Stations) /\ handed \in Seq([by : Nat, frame : Nat]) /\ late \in Seq(Nat)
        BY <2>1 DEF Frames!Init
    <2>3. Len(threads) = Len(streams)
        BY DEF Frames!Init
    <2>4. sequence \in 0..MaxFrame /\ attempts \in 0..(MaxRetries + 1) /\ breaks \in Nat
        BY FrameAssumption DEF Frames!Init
    <2> QED
        BY <2>2, <2>3, <2>4 DEF Frames!Init, FrameTypes
<1> QED
    BY <1>1, <1>2 DEF FrameInv, StreamsHoldSent, StreamsInOrder, StreamsApart, HandedFirst, HandedInOrder, LateIsLast

LEMMA NextFrameTypes == FrameInv /\ Frames!Next => FrameTypes'
<1> SUFFICES ASSUME FrameInv, Frames!Next PROVE FrameTypes'
    OBVIOUS
<1>1. FrameTypes /\ Numbered
    BY ConnectionsAre DEF FrameInv
<1>2. sequence \in Nat /\ attempts \in Nat /\ MaxFrame \in Nat /\ MaxRetries \in Nat
    BY <1>1, FrameAssumption DEF FrameTypes
<1> USE DEF Frames!vars, Frames!client, Frames!server
<1>3. CASE Frames!Send
    BY <1>1, <1>2, <1>3 DEF Frames!Send, FrameTypes, Frames!Connections
<1>4. ASSUME attempts > 0, Frames!Fails
      PROVE  /\ sequence' \in 0..MaxFrame /\ attempts' \in 0..(MaxRetries + 1) /\ (attempts' > 0 => sequence' > 0)
             /\ raised' \subseteq 1..sequence' /\ (attempts' > 0 => sequence' \notin raised')
    BY <1>1, <1>2, <1>4 DEF Frames!Fails, FrameTypes
<1>5. ASSUME NEW c \in Frames!Connections, NEW t \in Seq(Nat)
      PROVE  [streams EXCEPT ![c] = t] \in Seq(Seq(Nat)) /\ Len([streams EXCEPT ![c] = t]) = Len(streams)
             /\ DOMAIN [streams EXCEPT ![c] = t] = Frames!Connections
    BY <1>1, ExceptSeq DEF FrameTypes, Numbered, Frames!Connections
<1>6. ASSUME NEW c \in Frames!Connections, NEW t \in Stations
      PROVE  [threads EXCEPT ![c] = t] \in Seq(Stations) /\ Len([threads EXCEPT ![c] = t]) = Len(threads)
    BY <1>1, ExceptSeq DEF FrameTypes, Numbered
<1>7. CASE Frames!Connect
    <2>1. CASE Frames!Fails /\ UNCHANGED <<socket, streams, threads>>
        BY <1>1, <1>4, <1>7, <2>1 DEF Frames!Connect, FrameTypes, Frames!Connections
    <2>2. CASE streams' = Append(streams, <<>>) /\ threads' = Append(threads, "backlog") /\ socket' = Len(streams) + 1
               /\ UNCHANGED <<sequence, attempts, raised>>
        <3>1. /\ streams' \in Seq(Seq(Nat)) /\ Len(streams') = Len(streams) + 1
              /\ threads' \in Seq(Stations) /\ Len(threads') = Len(threads) + 1
            <4>1. streams \in Seq(Seq(Nat)) /\ threads \in Seq(Stations) /\ "backlog" \in Stations /\ <<>> \in Seq(Nat)
                BY <1>1 DEF FrameTypes, Stations
            <4> QED
                BY <2>2, <4>1, AppendProperties
        <3>2. Frames!Connections' = 1..(Len(streams) + 1)
            BY <3>1, LenProperties DEF Frames!Connections
        <3>3. Frames!Connections \subseteq Frames!Connections' /\ Len(streams) + 1 \in Frames!Connections' /\ Len(threads') = Len(streams')
            BY <1>1, <3>1, <3>2 DEF FrameTypes, Numbered
        <3> QED
            BY <1>1, <1>7, <2>2, <3>1, <3>3 DEF Frames!Connect, FrameTypes
    <2> QED
        BY <1>7, <2>1, <2>2 DEF Frames!Connect
<1>8. ASSUME NEW x \in Nat, Frames!Written(x), socket # 0
      PROVE  streams' \in Seq(Seq(Nat)) /\ Len(streams') = Len(streams) /\ Frames!Connections' = Frames!Connections
    <2>1. socket \in Frames!Connections
        BY <1>1, <1>8 DEF FrameTypes
    <2>2. streams[socket] \in Seq(Nat) /\ Append(streams[socket], x) \in Seq(Nat)
        BY <1>1, <2>1, AppendProperties DEF Numbered
    <2> QED
        BY <1>5, <1>8, <2>1, <2>2 DEF Frames!Written, Frames!Connections
<1>9. CASE Frames!Write
    BY <1>1, <1>2, <1>8, <1>9 DEF Frames!Write, FrameTypes
<1>10. CASE Frames!WriteFails
    <2>1. streams' \in Seq(Seq(Nat)) /\ Len(streams') = Len(streams) /\ Frames!Connections' = Frames!Connections
        BY <1>1, <1>8, <1>10 DEF Frames!WriteFails, FrameTypes, Frames!Torn, Frames!Connections
    <2> QED
        BY <1>1, <1>4, <1>10, <2>1 DEF Frames!WriteFails, FrameTypes
<1>11. CASE Frames!CloseClient
    BY <1>1, <1>11 DEF Frames!CloseClient, FrameTypes, Frames!Connections
<1>12. CASE Frames!Break
    <2>a. PICK c \in Frames!Connections : \E kept \in 0..Len(streams[c]) :
               /\ streams' = [streams EXCEPT ![c] = SubSeq(@, 1, kept)]
               /\ ends' = ends \cup {c}
        BY <1>12 DEF Frames!Break
    <2>b. PICK kept \in 0..Len(streams[c]) :
               /\ streams' = [streams EXCEPT ![c] = SubSeq(@, 1, kept)]
               /\ ends' = ends \cup {c}
        BY <2>a
    <2>1. SubSeq(streams[c], 1, kept) \in Seq(Nat)
        BY <1>1, SubSeqProperties DEF Numbered
    <2>2. streams' \in Seq(Seq(Nat)) /\ Len(streams') = Len(streams) /\ Frames!Connections' = Frames!Connections
        BY <1>5, <2>b, <2>1 DEF Frames!Connections
    <2>3. ends' \subseteq Frames!Connections
        BY <1>1, <2>b DEF FrameTypes
    <2>4. UNCHANGED <<threads, stop, handed, late, socket, sequence, attempts, raised>> /\ breaks' = breaks + 1
        BY <1>12 DEF Frames!Break
    <2>5. breaks' \in Nat
        BY <1>1, <2>4 DEF FrameTypes
    <2>6. /\ socket' \in {0} \cup Frames!Connections' /\ ends' \subseteq Frames!Connections'
          /\ Len(threads') = Len(streams')
        BY <1>1, <2>2, <2>3, <2>4 DEF FrameTypes
    <2> QED
        BY <1>1, <2>2, <2>4, <2>5, <2>6 DEF FrameTypes
<1>13. CASE Frames!Close
    <2>1. threads' \in Seq(Stations) /\ Len(threads') = Len(threads)
        <3>1. threads' \in [1..Len(streams) -> Stations]
            BY <1>1, <1>13 DEF Frames!Close, Numbered, Stations
        <3> QED
            <4>1. Len(streams) \in Nat /\ Len(threads) = Len(streams)
                BY <1>1 DEF Numbered, FrameTypes
            <4>2. threads' \in Seq(Stations)
                BY <3>1, <4>1, SeqDef
            <4>3. DOMAIN threads' = 1..Len(threads') /\ Len(threads') \in Nat
                BY <4>2, LenProperties
            <4> QED
                BY <3>1, <4>1, <4>2, <4>3
    <2> QED
        BY <1>1, <1>13, <2>1 DEF Frames!Close, FrameTypes, Frames!Connections
<1>14. ASSUME NEW c \in Frames!Connections, Frames!Check(c) \/ Frames!Read(c) \/ Frames!ReadNothing(c)
       PROVE  threads' \in Seq(Stations) /\ Len(threads') = Len(threads)
    <2>1. PICK to \in Stations : threads' = [threads EXCEPT ![c] = to]
        BY <1>14 DEF Frames!Check, Frames!Read, Frames!ReadNothing, Frames!Becomes, Stations
    <2> QED
        BY <1>6, <2>1
<1>15. ASSUME NEW c \in Frames!Connections, Frames!Check(c) \/ Frames!ReadNothing(c) PROVE FrameTypes'
    BY <1>1, <1>14, <1>15 DEF Frames!Check, Frames!ReadNothing, FrameTypes, Frames!Connections
<1>16. ASSUME NEW c \in Frames!Connections, Frames!Read(c) PROVE FrameTypes'
    <2>1. streams[c] \in Seq(Nat) /\ streams[c] # <<>> /\ c \in Nat
        BY <1>1, <1>16 DEF Frames!Read, Numbered
    <2>2. streams' \in Seq(Seq(Nat)) /\ Len(streams') = Len(streams) /\ Frames!Connections' = Frames!Connections
        BY <1>5, <1>16, <2>1, HeadTailProperties DEF Frames!Read, Frames!Connections
    <2>3. streams[c][1] \in Nat
        BY <1>1, <2>1, EmptySeq DEF Numbered
    <2>4. handed' \in Seq([by : Nat, frame : Nat]) /\ late' \in Seq(Nat)
        <3>1. handed \in Seq([by : Nat, frame : Nat]) /\ late \in Seq(Nat)
            BY <1>1 DEF FrameTypes
        <3> QED
            BY <1>16, <2>1, <2>3, <3>1, AppendProperties DEF Frames!Read
    <2> QED
        BY <1>1, <1>14, <1>16, <2>2, <2>4 DEF Frames!Read, FrameTypes
<1> QED
    BY <1>3, <1>7, <1>9, <1>10, <1>11, <1>12, <1>13, <1>15, <1>16 DEF Frames!Next

\* A step may complete the frame being sent, never take back one that was sent.
LEMMA SentStaysSent ==
    ASSUME FrameInv, Frames!Next, NEW f \in Nat, Sent(f)
    PROVE  Sent(f)'
<1>1. FrameTypes /\ sequence \in Nat /\ attempts \in Nat
    BY FrameAssumption DEF FrameInv, FrameTypes
<1>2. CASE Frames!Send
    BY <1>1, <1>2 DEF Frames!Send, Sent
<1>3. CASE Frames!Fails /\ attempts > 0
    BY <1>1, <1>3 DEF Frames!Fails, Sent
<1>4. CASE attempts' \in {0, attempts} /\ UNCHANGED <<sequence, raised>>
    BY <1>1, <1>4 DEF Sent
<1> QED
    BY <1>2, <1>3, <1>4 DEF Frames!Next, Frames!client, Frames!Connect, Frames!Write, Frames!WriteFails, Frames!CloseClient, Frames!Break, Frames!Close, Frames!Check, Frames!Read, Frames!ReadNothing

\* A connection that hands over a frame holds only later ones.
LEMMA ReadKept ==
    ASSUME FrameInv, FrameTypes', \A f \in Nat : Sent(f) => Sent(f)',
           NEW c \in Frames!Connections, Frames!Read(c)
    PROVE  StreamsHoldSent' /\ StreamsInOrder' /\ StreamsApart' /\ HandedFirst' /\ HandedInOrder'
<1>1. Numbered /\ Numbered'
    <2>1. FrameTypes => Numbered
        BY ConnectionsAre
    <2>2. FrameTypes' => Numbered'
        BY ConnectionsAre, PTL
    <2> QED
        BY <2>1, <2>2 DEF FrameInv
<1>2. /\ streams[c] \in Seq(Nat) /\ streams[c] # <<>> /\ Len(streams[c]) \in Nat /\ Len(streams[c]) > 0
      /\ streams[c][1] = Frames!Torn => Len(streams[c]) > 1
    <2>1. streams[c] \in Seq(Nat) /\ streams[c] # <<>> /\ (streams[c][1] = Frames!Torn => Len(streams[c]) > 1)
        BY <1>1 DEF Frames!Read, Numbered
    <2> QED
        BY <2>1, EmptySeq
<1>3. PICK first : first = streams[c][1]
    OBVIOUS
<1>4. first \in Nat /\ first # Frames!Torn /\ Sent(first) /\ Sent(first)'
    BY <1>1, <1>2, <1>3 DEF FrameInv, StreamsHoldSent, Numbered
<1>5. /\ Frames!Connections' = Frames!Connections /\ \A d \in Frames!Connections : d # c => streams'[d] = streams[d]
      /\ Len(streams'[c]) = Len(streams[c]) - 1
      /\ \A i \in 1..Len(streams'[c]) : streams'[c][i] = streams[c][i + 1]
    <2>1. streams' = [streams EXCEPT ![c] = Tail(streams[c])]
        BY DEF Frames!Read
    <2>2. Frames!Connections' = Frames!Connections /\ streams'[c] = Tail(streams[c]) /\ \A d \in Frames!Connections : d # c => streams'[d] = streams[d]
        BY <2>1 DEF Frames!Connections
    <2>3. Len(Tail(streams[c])) = Len(streams[c]) - 1 /\ \A i \in 1..Len(Tail(streams[c])) : Tail(streams[c])[i] = streams[c][i + 1]
        BY <1>2, HeadTailProperties
    <2> QED
        BY <2>2, <2>3
<1>6. PICK shift : shift = [d \in Frames!Connections |-> IF d = c THEN 1 ELSE 0]
    OBVIOUS
<1>7. Pieces(shift)
    <2> SUFFICES ASSUME NEW d \in Frames!Connections', NEW i \in 1..Len(streams'[d])
                 PROVE  /\ d \in Frames!Connections /\ i + shift[d] \in 1..Len(streams[d]) /\ shift[d] \in Nat
                        /\ streams'[d][i] = streams[d][i + shift[d]]
                        /\ i + shift[d] = Len(streams[d]) => i = Len(streams'[d])
        BY DEF Pieces
    <2>1. CASE d = c
        BY <1>2, <1>5, <1>6, <2>1
    <2>2. CASE d # c
        <3>1. d \in Frames!Connections /\ streams'[d] = streams[d] /\ shift[d] = 0
            BY <1>5, <1>6, <2>2
        <3>2. i + 0 = i /\ i \in 1..Len(streams[d])
            BY <3>1
        <3> QED
            BY <3>1, <3>2
    <2> QED
        BY <2>1, <2>2
<1>8. StreamsHoldSent' /\ StreamsInOrder' /\ StreamsApart'
    BY <1>7, PiecesKept DEF Frames!Read
\* The frame that is handed over is in no stream, and its connection's are later.
<1>9. ASSUME NEW d \in Frames!Connections', NEW i \in 1..Len(streams'[d])
      PROVE  /\ d \in Frames!Connections /\ streams'[d][i] # first
             /\ d = c /\ streams'[d][i] # Frames!Torn => first < streams'[d][i]
             /\ \E k \in 1..Len(streams[d]) : streams'[d][i] = streams[d][k]
    <2>1. CASE d = c
        <3>1. i + 1 \in 1..Len(streams[c]) /\ 1 \in 1..Len(streams[c]) /\ 1 < i + 1 /\ streams'[c][i] = streams[c][i + 1]
            <4>1. i \in 1..Len(streams'[c]) /\ streams'[c][i] = streams[c][i + 1]
                BY <1>5, <2>1
            <4>2. \A m \in Nat : i \in 1..(m - 1) => i + 1 \in 1..m /\ 1 \in 1..m /\ 1 < i + 1
                OBVIOUS
            <4>3. Len(streams[c]) \in Nat /\ Len(streams'[c]) = Len(streams[c]) - 1
                BY <1>1, <1>5 DEF Numbered
            <4> QED
                BY <4>1, <4>2, <4>3
        <3>2. streams[c][i + 1] # Frames!Torn => streams[c][1] < streams[c][i + 1]
            BY <3>1 DEF FrameInv, StreamsInOrder
        <3>3. streams[c][i + 1] \in Nat
            BY <1>1, <3>1 DEF Numbered
        <3> QED
            BY <1>3, <1>4, <2>1, <3>1, <3>2, <3>3
    <2>2. CASE d # c
        <3>1. d \in Frames!Connections /\ i \in 1..Len(streams[d]) /\ streams'[d][i] = streams[d][i] /\ 1 \in 1..Len(streams[c])
            BY <1>2, <1>5, <2>2
        <3>2. streams[c][1] = streams[d][i] => streams[c][1] = Frames!Torn
            BY <2>2, <3>1 DEF FrameInv, StreamsApart
        <3> QED
            BY <1>3, <1>4, <2>2, <3>1, <3>2
    <2> QED
        BY <2>1, <2>2
<1> DEFINE n == Len(handed)
           e == [by |-> c, frame |-> first]
<1>10. n \in Nat /\ Len(handed') = n + 1 /\ handed'[n + 1] = e /\ \A j \in 1..n : handed'[j] = handed[j]
    <2>1. handed \in Seq([by : Nat, frame : Nat]) /\ e \in [by : Nat, frame : Nat]
        BY <1>1, <1>4 DEF FrameInv, FrameTypes, Numbered
    <2>2. handed' = Append(handed, e)
        BY <1>3 DEF Frames!Read
    <2> QED
        BY <1>1, <2>1, <2>2, AppendProperties DEF Numbered
<1>11. e.by = c /\ e.frame = first
    OBVIOUS
<1> HIDE DEF n, e
<1>12. ASSUME NEW j \in 1..n
       PROVE  /\ handed[j].frame \in Nat /\ Sent(handed[j].frame) /\ Sent(handed[j].frame)'
              /\ \A d \in Frames!Connections : \A i \in 1..Len(streams[d]) :
                   /\ streams[d][i] # handed[j].frame
                   /\ handed[j].by = d /\ streams[d][i] # Frames!Torn => handed[j].frame < streams[d][i]
    <2>1. PICK f \in Nat : f = handed[j].frame
        BY <1>1 DEF Numbered, n
    <2>2. Sent(f) /\ Sent(f)'
        BY <2>1 DEF FrameInv, HandedFirst, n
    <2>3. Sent(handed[j].frame)'
        <3>1. handed'[j] = handed[j]
            BY <1>10
        <3> QED
            BY <2>1, <2>2, <3>1 DEF Sent
    <2> QED
        BY <2>1, <2>2, <2>3 DEF FrameInv, HandedFirst, n
<1>13. HandedInOrder'
    <2> SUFFICES ASSUME NEW i \in 1..Len(handed'), NEW j \in 1..Len(handed'), i < j
                 PROVE  /\ handed'[i].frame # handed'[j].frame
                        /\ handed'[i].by = handed'[j].by => handed'[i].frame < handed'[j].frame
        BY DEF HandedInOrder
    <2>1. i \in 1..n /\ handed'[i] = handed[i]
        BY <1>10
    <2>2. CASE j \in 1..n
        BY <1>10, <2>1, <2>2 DEF FrameInv, HandedInOrder, n
    <2>3. CASE j = n + 1
        <3>1. handed[i].frame # first /\ (handed[i].by = c => handed[i].frame < first)
            BY <1>2, <1>3, <1>4, <1>12, <2>1
        <3> QED
            BY <1>10, <1>11, <2>1, <2>3, <3>1
    <2> QED
        BY <1>10, <2>2, <2>3
<1>14. HandedFirst'
    <2> SUFFICES ASSUME NEW j \in 1..Len(handed')
                 PROVE  /\ Sent(handed[j].frame)'
                        /\ \A d \in Frames!Connections' : \A i \in 1..Len(streams'[d]) :
                             /\ streams'[d][i] # handed'[j].frame
                             /\ handed'[j].by = d /\ streams'[d][i] # Frames!Torn => handed'[j].frame < streams'[d][i]
        BY DEF HandedFirst, Frames!Torn
    <2>1. CASE j \in 1..n
        <3>1. handed'[j] = handed[j]
            BY <1>10, <2>1
        <3>2. Sent(handed[j].frame)'
            BY <1>12, <2>1
        <3>3. ASSUME NEW d \in Frames!Connections', NEW i \in 1..Len(streams'[d])
              PROVE  /\ streams'[d][i] # handed[j].frame
                     /\ handed[j].by = d /\ streams'[d][i] # Frames!Torn => handed[j].frame < streams'[d][i]
            BY <1>9, <1>12, <2>1
        <3> QED
            BY <3>1, <3>2, <3>3
    <2>2. CASE j = n + 1
        <3>1. handed'[j].by = c /\ handed'[j].frame = first
            BY <1>10, <1>11, <2>2
        <3>2. Sent(handed[j].frame)'
            BY <1>4, <3>1 DEF Sent
        <3> QED
            BY <1>9, <3>1, <3>2
    <2> QED
        BY <1>10, <2>1, <2>2
<1> QED
    BY <1>8, <1>13, <1>14

\* After close() a thread that hands a frame over looks at _stop before another.
LEMMA LateKept ==
    ASSUME FrameInv, FrameTypes', Frames!Next
    PROVE  LateIsLast'
<1>1. Numbered /\ LateIsLast
    BY ConnectionsAre DEF FrameInv
<1>2. CASE UNCHANGED <<stop, late, threads>> /\ Frames!Connections' = Frames!Connections
    BY <1>1, <1>2 DEF LateIsLast
<1>3. CASE ~stop /\ UNCHANGED late
    <2>1. Len(late) = 0
        BY <1>1, <1>3 DEF LateIsLast, Numbered
    <2> QED
        BY <1>3, <2>1 DEF LateIsLast
<1>4. ASSUME NEW c \in Frames!Connections, Frames!Check(c) \/ Frames!ReadNothing(c) PROVE LateIsLast'
    <2>1. Frames!Connections' = Frames!Connections /\ UNCHANGED <<stop, late>>
        BY <1>4 DEF Frames!Check, Frames!ReadNothing, Frames!Connections
    <2>2. CASE ~stop
        BY <1>3, <2>1, <2>2
    <2>3. CASE stop
        <3>1. threads'[c] = "ended" /\ \A d \in Frames!Connections : d # c => threads'[d] = threads[d]
            BY <1>1, <1>4, <2>3 DEF Frames!Check, Frames!ReadNothing, Frames!Becomes, Numbered
        <3> QED
            BY <1>1, <2>1, <3>1 DEF LateIsLast
    <2> QED
        BY <2>2, <2>3
<1>5. ASSUME NEW c \in Frames!Connections, Frames!Read(c) PROVE LateIsLast'
    <2>1. /\ Frames!Connections' = Frames!Connections /\ UNCHANGED stop /\ threads[c] = "read"
          /\ threads'[c] \in {"check", "ended"} /\ \A d \in Frames!Connections : d # c => threads'[d] = threads[d]
        BY <1>1, <1>5 DEF Frames!Read, Frames!Becomes, Numbered, Frames!Connections
    <2>2. CASE ~stop
        BY <1>3, <1>5, <2>2 DEF Frames!Read
    <2>3. CASE stop
        <3>1. Len(late') = Len(late) + 1 /\ late'[Len(late) + 1] = c /\ \A i \in 1..Len(late) : late'[i] = late[i]
            <4>1. late' = Append(late, c) /\ late \in Seq(Nat) /\ c \in Nat
                <5>1. late' = Append(late, c)
                    BY <1>5, <2>3 DEF Frames!Read
                <5>2. late \in Seq(Nat)
                    BY DEF FrameInv, FrameTypes
                <5> QED
                    BY <1>1, <5>1, <5>2 DEF Numbered
            <4> QED
                BY <4>1, AppendProperties
        <3>2. \A i \in 1..Len(late) : late[i] # c
            BY <1>1, <2>1 DEF LateIsLast
        <3>3. ASSUME NEW i \in 1..Len(late')
              PROVE  (i \in 1..Len(late) /\ late'[i] = late[i]) \/ (i = Len(late) + 1 /\ late'[i] = c)
            BY <1>1, <3>1 DEF Numbered
        <3>4. \A i \in 1..Len(late') : late'[i] \in Frames!Connections' /\ threads'[late'[i]] \in {"check", "ended"}
            BY <1>1, <2>1, <3>2, <3>3 DEF LateIsLast
        <3>5. \A i, j \in 1..Len(late') : late'[i] = late'[j] => i = j
            BY <1>1, <3>2, <3>3 DEF LateIsLast
        <3> QED
            BY <2>1, <2>3, <3>4, <3>5 DEF LateIsLast
    <2> QED
        BY <2>2, <2>3
<1>6. CASE Frames!Connect
    BY <1>2, <1>3, <1>6 DEF Frames!Connect, Frames!Connections
<1>7. CASE Frames!Close
    BY <1>3, <1>7 DEF Frames!Close
<1>8. CASE Frames!Write \/ Frames!WriteFails \/ Frames!Break
    <2>1. Frames!Connections' = Frames!Connections
        BY <1>8 DEF Frames!Write, Frames!WriteFails, Frames!Break, Frames!Written, Frames!Connections
    <2> QED
        BY <1>2, <1>8, <2>1 DEF Frames!Write, Frames!WriteFails, Frames!Break, Frames!client, Frames!server
<1>9. CASE Frames!Send \/ Frames!CloseClient
    BY <1>2, <1>9 DEF Frames!Send, Frames!CloseClient, Frames!server, Frames!Connections
<1> QED
    BY <1>4, <1>5, <1>6, <1>7, <1>8, <1>9 DEF Frames!Next

LEMMA NextFrameInv == FrameInv /\ [Frames!Next]_Frames!vars => FrameInv'
<1> SUFFICES ASSUME FrameInv, [Frames!Next]_Frames!vars PROVE FrameInv'
    OBVIOUS
<1>1. CASE UNCHANGED Frames!vars
    <2>1. FrameTypes /\ FrameTypes' /\ LateIsLast'
        BY <1>1 DEF Frames!vars, Frames!client, Frames!server, FrameInv, FrameTypes, LateIsLast, Frames!Connections
    <2>2. \A f \in Nat : Sent(f) => Sent(f)'
        BY <1>1 DEF Frames!vars, Frames!client, Sent
    <2>3. Shortened /\ ends \subseteq ends' /\ UNCHANGED handed
        BY <1>1, <2>1, SameStreams DEF Frames!vars, Frames!server
    <2> QED
        BY <2>1, <2>2, <2>3, ShortenedKept DEF FrameInv
<1>2. CASE Frames!Next
    <2>1. FrameTypes /\ FrameTypes' /\ LateIsLast'
        BY <1>2, NextFrameTypes, LateKept DEF FrameInv
    <2>2. \A f \in Nat : Sent(f) => Sent(f)'
        BY <1>2, SentStaysSent
    <2>3. Numbered
        BY <2>1, ConnectionsAre
    <2>4. UNCHANGED streams => Shortened
        BY <2>1, SameStreams
    <2>5. ASSUME Shortened, UNCHANGED handed, ends \subseteq ends' PROVE FrameInv'
        BY <2>1, <2>2, <2>5, ShortenedKept DEF FrameInv
    <2>6. CASE Frames!Send \/ Frames!CloseClient \/ Frames!Close
        BY <2>4, <2>5, <2>6 DEF Frames!Send, Frames!CloseClient, Frames!Close, Frames!client, Frames!server
    <2>7. CASE Frames!Connect
        <3>1. CASE UNCHANGED streams
            BY <2>4, <2>5, <2>7, <3>1 DEF Frames!Connect
        <3>2. CASE streams' = Append(streams, <<>>)
            <4>1. /\ Len(streams') = Len(streams) + 1 /\ streams'[Len(streams) + 1] = <<>>
                  /\ \A c \in 1..Len(streams) : streams'[c] = streams[c]
                <5>1. streams \in Seq(Seq(Nat)) /\ <<>> \in Seq(Nat)
                    BY <2>1 DEF FrameTypes
                <5> QED
                    BY <3>2, <5>1, AppendProperties
            <4>2. Frames!Connections' = 1..(Len(streams) + 1)
                <5>1. streams' \in Seq(Seq(Nat))
                    BY <2>1 DEF FrameTypes
                <5> QED
                    BY <4>1, <5>1, LenProperties DEF Frames!Connections
            <4>3. Len(<<>>) = 0
                OBVIOUS
            <4>4. Shortened
                BY <2>3, <4>1, <4>2, <4>3 DEF Shortened, Numbered
            <4> QED
                BY <2>5, <2>7, <4>4 DEF Frames!Connect
        <3> QED
            BY <2>7, <3>1, <3>2 DEF Frames!Connect
    <2>8. ASSUME NEW x \in {Frames!Torn, sequence}, Frames!Written(x), attempts > 0, socket # 0, UNCHANGED handed, ends \subseteq ends',
                 x = Frames!Torn => socket \in ends', x # Frames!Torn => Sent(x)'
          PROVE  FrameInv'
        <3>1. socket \in Frames!Connections
            BY <2>1, <2>8 DEF FrameTypes
        <3>2. CASE socket \in ends
            <4>1. streams' = [streams EXCEPT ![socket] = streams[socket]]
                BY <2>8, <3>2 DEF Frames!Written
            <4>2. UNCHANGED streams
                <5>1. streams \in Seq(Seq(Nat))
                    BY <2>1 DEF FrameTypes
                <5> QED
                    BY <4>1, <5>1
            <4> QED
                BY <2>4, <2>5, <2>8, <4>2
        <3>3. CASE socket \notin ends
            <4>1. streams' = [streams EXCEPT ![socket] = Append(@, x)]
                BY <2>8, <3>3 DEF Frames!Written
            <4> QED
                BY <2>1, <2>2, <2>8, <3>1, <3>3, <4>1, WriteKept DEF FrameInv
        <3> QED
            BY <3>2, <3>3
    <2>9. CASE Frames!Write
        <3>1. PICK f \in Nat : f = sequence
            BY <2>1 DEF FrameTypes
        <3>2. Sent(f)' /\ f # Frames!Torn
            BY <2>1, <2>9, <3>1 DEF Frames!Write, FrameTypes, Sent, Frames!Torn
        <3>3. Frames!Written(f) /\ attempts > 0 /\ socket # 0 /\ UNCHANGED <<handed, ends>>
            BY <2>9, <3>1 DEF Frames!Write, Frames!server
        <3> QED
            BY <2>8, <3>1, <3>2, <3>3
    <2>10. CASE Frames!WriteFails
        <3>1. attempts > 0 /\ socket # 0 /\ UNCHANGED handed /\ ends' = ends \cup {socket}
            BY <2>10 DEF Frames!WriteFails, Frames!server
        <3>2. CASE UNCHANGED streams
            BY <2>4, <2>5, <3>1, <3>2
        <3>3. CASE Frames!Written(Frames!Torn)
            BY <2>8, <3>1, <3>3
        <3> QED
            BY <2>10, <3>2, <3>3 DEF Frames!WriteFails
    <2>11. CASE Frames!Break
        <3>1. PICK c \in Frames!Connections : \E kept \in 0..Len(streams[c]) :
                     /\ streams' = [streams EXCEPT ![c] = SubSeq(@, 1, kept)]
                     /\ ends' = ends \cup {c}
            BY <2>11 DEF Frames!Break
        <3>2. PICK kept \in 0..Len(streams[c]) :
                     /\ streams' = [streams EXCEPT ![c] = SubSeq(@, 1, kept)]
                     /\ ends' = ends \cup {c}
            BY <3>1
        <3>3. streams[c] \in Seq(Nat) /\ Len(streams[c]) \in Nat /\ \A i \in 1..Len(streams[c]) : streams[c][i] \in Nat
            BY <2>3 DEF Numbered
        <3>4. /\ Len(SubSeq(streams[c], 1, kept)) = kept
              /\ \A i \in 1..kept : SubSeq(streams[c], 1, kept)[i] = streams[c][i]
            <4>1. \A i \in 1..kept : streams[c][i] \in Nat
                BY <3>3
            <4>2. Len(SubSeq(streams[c], 1, kept)) = (IF 1 <= kept THEN kept - 1 + 1 ELSE 0)
                  /\ \A i \in 1..(kept - 1 + 1) : SubSeq(streams[c], 1, kept)[i] = streams[c][1 + i - 1]
                BY <3>3, <4>1, SubSeqProperties
            <4> QED
                BY <3>3, <4>2
        <3>5. /\ Frames!Connections' = Frames!Connections /\ \A d \in Frames!Connections : d # c => streams'[d] = streams[d]
              /\ streams'[c] = SubSeq(streams[c], 1, kept)
            BY <3>2 DEF Frames!Connections
        <3>6. Shortened
            <4> SUFFICES ASSUME NEW d \in Frames!Connections', NEW i \in 1..Len(streams'[d])
                         PROVE  d \in Frames!Connections /\ Len(streams'[d]) =< Len(streams[d]) /\ streams'[d][i] = streams[d][i]
                BY DEF Shortened
            <4>1. CASE d = c
                BY <3>3, <3>4, <3>5, <4>1
            <4>2. CASE d # c
                BY <2>3, <3>5, <4>2 DEF Numbered
            <4> QED
                BY <4>1, <4>2
        <3> QED
            BY <2>5, <2>11, <3>2, <3>6 DEF Frames!Break, Frames!server
    <2>12. ASSUME NEW c \in Frames!Connections, Frames!Check(c) \/ Frames!ReadNothing(c) PROVE FrameInv'
        BY <2>4, <2>5, <2>12 DEF Frames!Check, Frames!ReadNothing
    <2>13. ASSUME NEW c \in Frames!Connections, Frames!Read(c) PROVE FrameInv'
        BY <2>1, <2>2, <2>13, ReadKept DEF FrameInv
    <2> QED
        BY <1>2, <2>6, <2>7, <2>9, <2>10, <2>11, <2>12, <2>13 DEF Frames!Next
<1> QED
    BY <1>1, <1>2

LEMMA FrameInvHolds == Frames!Spec => []FrameInv
<1>1. Frames!Init => FrameInv
    BY FrameInit
<1>2. FrameInv /\ [Frames!Next]_Frames!vars => FrameInv'
    BY NextFrameInv
<1> QED
    BY <1>1, <1>2, PTL DEF Frames!Spec

\* The numbering of frames, what the client keeps of a send, and the state of every
\* connection and thread stay within their types (RaftTransport, TypeOK).
THEOREM FrameTypeOK == Frames!Spec => []Frames!TypeOK
<1>1. FrameInv => Frames!TypeOK
    <2> SUFFICES ASSUME FrameInv PROVE Frames!TypeOK
        OBVIOUS
    <2>1. FrameTypes /\ Numbered
        BY ConnectionsAre DEF FrameInv
    <2>2. ASSUME NEW c \in Frames!Connections PROVE Frames!ToSet(streams[c]) \subseteq 0..sequence
        <3>1. streams[c] \in Seq(Nat) /\ DOMAIN streams[c] = 1..Len(streams[c])
            BY <2>1, LenProperties DEF Numbered
        <3>2. sequence \in Nat
            BY <2>1, FrameAssumption DEF FrameTypes
        <3>3. \A i \in 1..Len(streams[c]) : streams[c][i] \in 0..sequence
            BY <2>1, <3>2 DEF FrameInv, StreamsHoldSent, Sent, Frames!Torn, Numbered
        <3> QED
            BY <3>1, <3>3 DEF Frames!ToSet
    <2>3. threads \in [Frames!Connections -> {"backlog", "check", "read", "ended"}]
        <3>1. threads \in Seq(Stations) /\ Len(threads) = Len(streams) /\ Frames!Connections = 1..Len(streams)
            BY <2>1 DEF FrameTypes, Numbered
        <3> QED
            BY <3>1, LenProperties DEF Stations
    <2> QED
        BY <2>1, <2>2, <2>3 DEF Frames!TypeOK, FrameTypes
<1> QED
    BY <1>1, FrameInvHolds, PTL

\* However often send() starts again on a new connection, and wherever a connection
\* breaks or the server is closed, the callback is given every frame once at most and
\* none whose send raised, each connection's frames in the order they were sent, and
\* one frame of a connection at most after close() (FramesArriveOnce).
THEOREM FramesAreHandedOnce == Frames!Spec => []FramesArriveOnce
<1>1. FrameInv => FramesArriveOnce
    <2> SUFFICES ASSUME FrameInv PROVE FramesArriveOnce
        OBVIOUS
    <2>1. DOMAIN handed = 1..Len(handed) /\ DOMAIN late = 1..Len(late)
        <3>1. handed \in Seq([by : Nat, frame : Nat]) /\ late \in Seq(Nat)
            BY DEF FrameInv, FrameTypes
        <3> QED
            BY <3>1, LenProperties
    <2>2. \A j \in DOMAIN handed : handed[j].frame \in 1..sequence \ raised
        BY <2>1 DEF FrameInv, HandedFirst, Sent
    <2>3. \A i, j \in DOMAIN handed : i < j =>
            /\ handed[i].frame # handed[j].frame
            /\ handed[i].by = handed[j].by => handed[i].frame < handed[j].frame
        BY <2>1 DEF FrameInv, HandedInOrder
    <2>4. IsInjective(late)
        BY <2>1 DEF FrameInv, LateIsLast, IsInjective
    <2> QED
        BY <2>2, <2>3, <2>4 DEF FramesArriveOnce
<1> QED
    BY <1>1, FrameInvHolds, PTL
-----------------------------------------------------------------------------
(* The choice of replicas.  The candidates that are sorted are finitely many *)
(* and no two of them are equal in load and id, so their order exists.       *)

Candidates(S) == S \subseteq Node /\ \A n \in S : load[n] \in Nat

\* One candidate comes before all others.
LEMMA EarliestExists ==
  ASSUME NEW S, Candidates(S), S # {}
  PROVE  \E x \in S : \A y \in S \ {x} : Driver!Earlier(x, y)
  <1> DEFINE L == {load[n] : n \in S}
  <1>1. PICK l \in L : \A k \in L : l <= k
    <2>1. L \subseteq Nat /\ L # {}
      BY DEF Candidates
    <2> HIDE DEF L
    <2> QED
      BY <2>1, SmallestNumber
  <1> DEFINE M == {n \in S : load[n] = l}
  <1>2. PICK x \in M : \A y \in M : x <= y
    <2>1. M \subseteq Nat /\ M # {}
      BY PlacementAssumption DEF Candidates
    <2> HIDE DEF M
    <2> QED
      BY <2>1, SmallestNumber
  <1>3. ASSUME NEW y \in S \ {x} PROVE Driver!Earlier(x, y)
    <2>1. x \in Nat /\ y \in Nat /\ load[x] = l /\ load[y] \in Nat /\ l \in Nat /\ l <= load[y]
      BY <1>1, PlacementAssumption DEF Candidates
    <2>2. load[y] = l => x <= y
      BY <1>2
    <2> QED
      BY <2>1, <2>2 DEF Driver!Earlier
  <1> QED
    BY <1>3

LEMMA CandidatesAreFinite ==
  ASSUME NEW S, Candidates(S)
  PROVE  IsFiniteSet(S) /\ Cardinality(S) \in Nat
  BY PlacementAssumption, FS_Subset, FS_CardinalityType DEF Candidates

\* Any candidates can be put in order: the earliest, then the others in order.
LEMMA OrderExists ==
  ASSUME NEW S, Candidates(S)
  PROVE  \E f \in [1..Cardinality(S) -> S] :
           \A i, j \in 1..Cardinality(S) : i < j => Driver!Earlier(f[i], f[j])
  <1> DEFINE n == Cardinality(S)
             InOrder(A, k, f) == /\ f \in [1..k -> A]
                                 /\ \A i, j \in 1..k : i < j => Driver!Earlier(f[i], f[j])
             T == {k \in 0..n : \A A \in SUBSET S : Cardinality(A) = k => \E f : InOrder(A, k, f)}
  <1>1. n \in Nat
    BY CandidatesAreFinite
  <1>2. 0 \in T
    <2>1. ASSUME NEW A \in SUBSET S PROVE InOrder(A, 0, [i \in 1..0 |-> i])
      OBVIOUS
    <2> HIDE DEF InOrder
    <2> QED
      BY <1>1, <2>1
  <1>3. ASSUME NEW k \in 1..n, k - 1 \in T PROVE k \in T
    <2>1. ASSUME NEW A \in SUBSET S, Cardinality(A) = k PROVE \E f : InOrder(A, k, f)
      <3>1. Candidates(A) /\ IsFiniteSet(A) /\ A # {}
        BY <1>1, <2>1, CandidatesAreFinite, FS_EmptySet DEF Candidates
      <3>2. PICK x \in A : \A y \in A \ {x} : Driver!Earlier(x, y)
        BY <3>1, EarliestExists
      <3>3. A \ {x} \in SUBSET S /\ Cardinality(A \ {x}) = k - 1
        BY <2>1, <3>1, FS_RemoveElement
      <3>4. PICK g : InOrder(A \ {x}, k - 1, g)
        <4> HIDE DEF InOrder
        <4> QED
          BY <1>3, <3>3
      <3> DEFINE f == [i \in 1..k |-> IF i = 1 THEN x ELSE g[i - 1]]
      <3>5. \A i \in 1..k : /\ i = 1 => f[i] = x
                            /\ i # 1 => i - 1 \in 1..(k - 1) /\ f[i] = g[i - 1] /\ f[i] \in A \ {x}
        BY <1>1, <3>4
      <3>6. f \in [1..k -> A]
        BY <3>5
      <3> HIDE DEF f
      <3>7. ASSUME NEW i \in 1..k, NEW j \in 1..k, i < j PROVE Driver!Earlier(f[i], f[j])
        <4>1. j # 1 /\ j - 1 \in 1..(k - 1) /\ f[j] = g[j - 1] /\ f[j] \in A \ {x}
          BY <1>1, <3>5, <3>7
        <4>2. CASE i = 1
          <5>1. f[i] = x
            BY <3>5, <4>2
          <5> QED
            BY <3>2, <4>1, <5>1
        <4>3. CASE i # 1
          <5>1. i - 1 \in 1..(k - 1) /\ f[i] = g[i - 1] /\ i - 1 < j - 1
            BY <1>1, <3>5, <3>7, <4>3
          <5>2. Driver!Earlier(g[i - 1], g[j - 1])
            BY <3>4, <4>1, <5>1
          <5> QED
            BY <4>1, <5>1, <5>2
        <4> QED
          BY <4>2, <4>3
      <3>8. InOrder(A, k, f)
        BY <3>6, <3>7
      <3> QED
        BY <3>8
    <2> HIDE DEF InOrder
    <2> QED
      BY <1>1, <2>1
  <1>4. n \in T
    <2> HIDE DEF T, n
    <2>1. 0..n \subseteq T
      BY <1>1, <1>2, <1>3, InductionTo
    <2> QED
      BY <1>1, <2>1
  <1>5. PICK f : InOrder(S, n, f)
    <2> HIDE DEF InOrder
    <2> QED
      BY <1>4
  <1> QED
    BY <1>5

\* What is sorted is all there was, once.
LEMMA SortedIs ==
  ASSUME NEW S, Candidates(S)
  PROVE  /\ Driver!Sorted(S) \in [1..Cardinality(S) -> S]
         /\ \A i, j \in 1..Cardinality(S) : i < j => Driver!Earlier(Driver!Sorted(S)[i], Driver!Sorted(S)[j])
         /\ \A i, j \in 1..Cardinality(S) : Driver!Sorted(S)[i] = Driver!Sorted(S)[j] => i = j
         /\ \A x \in S : \E i \in 1..Cardinality(S) : Driver!Sorted(S)[i] = x
  <1> DEFINE n == Cardinality(S)
  <1>1. PICK f : f = Driver!Sorted(S)
    OBVIOUS
  <1>2. f \in [1..n -> S] /\ \A i, j \in 1..n : i < j => Driver!Earlier(f[i], f[j])
    BY <1>1, OrderExists DEF Driver!Sorted, Cardinality, Driver!Cardinality
  <1>3. n \in Nat /\ IsFiniteSet(S)
    BY CandidatesAreFinite
  <1>4. ASSUME NEW i \in 1..n, NEW j \in 1..n, f[i] = f[j] PROVE i = j
    <2>1. ~Driver!Earlier(f[i], f[i])
      <3>1. f[i] \in Nat /\ load[f[i]] \in Nat
        BY <1>2, PlacementAssumption DEF Candidates
      <3> QED
        BY <3>1 DEF Driver!Earlier
    <2>2. ~(i < j) /\ ~(j < i)
      BY <1>2, <1>4, <2>1
    <2> QED
      BY <1>3, <2>2
  <1>5. f \in Injection(1..n, S)
    BY <1>2, <1>4 DEF Injection, IsInjective
  <1>6. IsFiniteSet(1..n) /\ Cardinality(1..n) = n
    BY <1>3, FS_Interval
  <1>7. f \in Surjection(1..n, S)
    <2> HIDE DEF n
    <2> QED
      BY <1>3, <1>5, <1>6, FS_Injection DEF n
  <1>8. \A x \in S : \E i \in 1..n : f[i] = x
    BY <1>7 DEF Surjection
  <1> QED
    BY <1>1, <1>2, <1>4, <1>8
\* Every zone has its first candidate, and one only.
LEMMA FirstsAre ==
  ASSUME NEW S, Candidates(S)
  PROVE  /\ Driver!Firsts(S) \subseteq S
         /\ \A n \in S : \E m \in Driver!Firsts(S) : zone[m] = zone[n] /\ load[m] <= load[n]
         /\ \A m, n \in Driver!Firsts(S) : zone[m] = zone[n] => m = n
  <1>1. \A n \in S : n \in Nat /\ load[n] \in Nat
    BY PlacementAssumption DEF Candidates
  <1>2. ASSUME NEW n \in S PROVE \E m \in Driver!Firsts(S) : zone[m] = zone[n] /\ load[m] <= load[n]
    <2> DEFINE M == {m \in S : zone[m] = zone[n]}
    <2>1. PICK x \in M : \A y \in M \ {x} : Driver!Earlier(x, y)
      <3>1. Candidates(M) /\ M # {}
        BY DEF Candidates
      <3> HIDE DEF M
      <3> QED
        BY <3>1, EarliestExists
    <2>2. load[x] <= load[n]
      BY <1>1, <2>1 DEF Driver!Earlier
    <2>3. ASSUME NEW m \in S, zone[m] = zone[x] PROVE ~Driver!Earlier(m, x)
      <3>1. m \in M
        BY <2>3
      <3> QED
        BY <1>1, <2>1, <3>1 DEF Driver!Earlier
    <2> QED
      BY <2>2, <2>3 DEF Driver!Firsts
  <1>3. \A m, n \in Driver!Firsts(S) : zone[m] = zone[n] => m = n
    BY <1>1 DEF Driver!Firsts, Driver!Earlier
  <1> QED
    BY <1>2, <1>3 DEF Driver!Firsts

LEMMA JoinedIs ==
  ASSUME NEW A, NEW B, NEW p \in Nat, NEW q \in Nat, NEW a \in [1..p -> A], NEW b \in [1..q -> B]
  PROVE  /\ a \o b \in Seq(A \cup B) /\ Len(a \o b) = p + q
         /\ \A i \in 1..p : (a \o b)[i] = a[i]
         /\ \A i \in (p + 1)..(p + q) : (a \o b)[i] = b[i - p]
  <1>1. a \in Seq(A \cup B) /\ Len(a) = p /\ b \in Seq(A \cup B) /\ Len(b) = q
    OBVIOUS
  <1> QED
    BY <1>1

\* As many as there are of a set are numbered by its members.
LEMMA CountedBy ==
  ASSUME NEW k \in Nat, NEW T, NEW f \in [1..k -> T],
         \A i, j \in 1..k : f[i] = f[j] => i = j, \A x \in T : \E i \in 1..k : f[i] = x
  PROVE  IsFiniteSet(T) /\ Cardinality(T) = k
  <1>1. f \in Bijection(1..k, T)
    BY DEF Bijection, Injection, Surjection, IsInjective
  <1>2. IsFiniteSet(1..k) /\ Cardinality(1..k) = k
    BY FS_Interval
  <1> QED
    BY <1>1, <1>2, FS_Bijection DEF ExistsBijection

\* What the two loops go through: the firsts of the zones and then all others, once each,
\* the least loaded candidate in front.
LEMMA LineIs ==
  ASSUME NEW S, Candidates(S), S # {}
  PROVE  LET A == Driver!Firsts(S)
             w == Driver!Sorted(A) \o Driver!Sorted(S \ A)
             p == Cardinality(A)
         IN  /\ w \in Seq(S) /\ Len(w) = Cardinality(S) /\ p \in 1..Cardinality(S)
             /\ \A i, j \in 1..Cardinality(S) : w[i] = w[j] => i = j
             /\ \A i \in 1..p : w[i] \in A
             /\ \A x \in A : \E i \in 1..p : w[i] = x
             /\ \A n \in S : load[w[1]] <= load[n]
  <1> DEFINE A == Driver!Firsts(S)
             B == S \ A
             p == Cardinality(A)
             q == Cardinality(B)
  <1>1. PICK a : a = Driver!Sorted(A)
    OBVIOUS
  <1>2. PICK b : b = Driver!Sorted(B)
    OBVIOUS
  <1>3. A \subseteq S /\ Candidates(A) /\ Candidates(B) /\ A # {}
    BY FirstsAre DEF Candidates
  <1>4. p \in Nat /\ q \in Nat /\ p # 0 /\ IsFiniteSet(S) /\ Cardinality(S) \in Nat
    BY <1>3, CandidatesAreFinite, FS_EmptySet
  <1>5. p + q = Cardinality(S)
    <2>1. S \cap A = A
      BY <1>3
    <2>2. q = Cardinality(S) - Cardinality(S \cap A)
      BY <1>4, FS_Difference
    <2> QED
      BY <1>4, <2>1, <2>2
  <1> HIDE DEF A, B, p, q
  <1>6. /\ a \in [1..p -> A] /\ \A i, j \in 1..p : a[i] = a[j] => i = j
        /\ \A x \in A : \E i \in 1..p : a[i] = x
        /\ \A i, j \in 1..p : i < j => Driver!Earlier(a[i], a[j])
    BY <1>1, <1>3, SortedIs DEF p
  <1>7. /\ b \in [1..q -> B] /\ \A i, j \in 1..q : b[i] = b[j] => i = j
    BY <1>2, <1>3, SortedIs DEF q
  <1>8. A \cap B = {} /\ A \cup B = S
    BY <1>3 DEF B
  <1> DEFINE w == a \o b
  <1>9. /\ w \in Seq(S) /\ Len(w) = p + q
        /\ \A i \in 1..p : w[i] = a[i]
        /\ \A i \in (p + 1)..(p + q) : w[i] = b[i - p]
    <2>1. /\ a \o b \in Seq(A \cup B) /\ Len(a \o b) = p + q
          /\ \A i \in 1..p : (a \o b)[i] = a[i]
          /\ \A i \in (p + 1)..(p + q) : (a \o b)[i] = b[i - p]
      <3>1. a \in [1..p -> A] /\ b \in [1..q -> B]
        BY <1>6, <1>7
      <3> QED
        BY <1>4, <3>1, JoinedIs
    <2> QED
      BY <1>8, <2>1
  <1> HIDE DEF w
  <1>10. ASSUME NEW i \in 1..(p + q), NEW j \in 1..(p + q), w[i] = w[j] PROVE i = j
    <2>1. \A k \in 1..(p + q) : \/ k \in 1..p /\ w[k] = a[k] /\ w[k] \in A
                                \/ k - p \in 1..q /\ w[k] = b[k - p] /\ w[k] \in B /\ ~(k \in 1..p)
      <3> SUFFICES ASSUME NEW k \in 1..(p + q), ~(k \in 1..p) PROVE k - p \in 1..q /\ w[k] = b[k - p] /\ w[k] \in B
        BY <1>6, <1>9
      <3>1. k \in (p + 1)..(p + q) /\ k - p \in 1..q
        BY <1>4
      <3> QED
        BY <1>7, <1>9, <3>1
    <2>2. CASE i \in 1..p /\ j \in 1..p
      BY <1>6, <1>9, <1>10, <2>2
    <2>3. CASE ~(i \in 1..p) /\ ~(j \in 1..p)
      <3>1. b[i - p] = b[j - p] /\ i - p \in 1..q /\ j - p \in 1..q
        BY <1>10, <2>1, <2>3
      <3>2. i - p = j - p
        BY <1>7, <3>1
      <3> QED
        BY <1>4, <3>2
    <2>4. CASE i \in 1..p <=> ~(j \in 1..p)
      BY <1>8, <1>10, <2>1, <2>4
    <2> QED
      BY <2>2, <2>3, <2>4
  <1>11. ASSUME NEW n \in S PROVE load[w[1]] <= load[n]
    <2>1. PICK m \in A : load[m] <= load[n]
      BY FirstsAre DEF A
    <2>2. PICK i \in 1..p : a[i] = m
      BY <1>6
    <2>3. 1 \in 1..p /\ w[1] = a[1] /\ a[1] \in A
      BY <1>4, <1>6, <1>9
    <2>4. load[a[1]] \in Nat /\ load[m] \in Nat /\ load[n] \in Nat
      BY <1>3, <2>3 DEF Candidates
    <2>5. i = 1 \/ Driver!Earlier(a[1], m)
      BY <1>4, <1>6, <2>2, <2>3
    <2>6. load[a[1]] <= load[m]
      BY <2>2, <2>4, <2>5 DEF Driver!Earlier
    <2> QED
      BY <2>1, <2>3, <2>4, <2>6
  <1>12. p \in 1..(p + q)
    BY <1>4
  <1>13. \A i \in 1..p : w[i] \in A
    BY <1>6, <1>9
  <1>14. \A x \in A : \E i \in 1..p : w[i] = x
    BY <1>6, <1>9
  <1>15. Driver!Sorted(A) \o Driver!Sorted(S \ A) = w
    BY <1>1, <1>2 DEF w, B
  <1> QED
    BY <1>5, <1>9, <1>10, <1>11, <1>12, <1>13, <1>14, <1>15 DEF A, p
LEMMA MinOfTwo ==
  ASSUME NEW m \in Nat, NEW n \in Nat
  PROVE  Min({m, n}) = IF m <= n THEN m ELSE n
  <1>1. \E x \in {m, n} : \A y \in {m, n} : x <= y
    OBVIOUS
  <1> QED
    BY <1>1 DEF Min

\* What assign() chooses: as many candidates as asked for, none twice, led by one that is
\* least loaded, in as many zones as there are or replicas asked for (82-95).
ChoiceIsSound(S, rf, chosen) ==
  /\ chosen \in Seq(S) /\ Len(chosen) = rf /\ IsInjective(chosen)
  /\ \A n \in S : load[chosen[1]] <= load[n]
  /\ Cardinality({zone[n] : n \in Range(chosen)}) = Min({Cardinality({zone[n] : n \in S}), rf})

LEMMA ChosenIsSound ==
  ASSUME NEW S, Candidates(S), NEW rf \in Nat, 1 <= rf, rf <= Cardinality(S)
  PROVE  ChoiceIsSound(S, rf, Driver!Choose(S, rf))
  <1> DEFINE A == Driver!Firsts(S)
             p == Cardinality(A)
  <1>1. IsFiniteSet(S) /\ Cardinality(S) \in Nat /\ S # {}
    BY CandidatesAreFinite, FS_EmptySet
  <1>2. PICK w : w = Driver!Sorted(A) \o Driver!Sorted(S \ A)
    OBVIOUS
  <1>3. /\ w \in Seq(S) /\ Len(w) = Cardinality(S) /\ p \in 1..Cardinality(S)
        /\ \A i, j \in 1..Cardinality(S) : w[i] = w[j] => i = j
        /\ \A i \in 1..p : w[i] \in A
        /\ \A x \in A : \E i \in 1..p : w[i] = x
        /\ \A n \in S : load[w[1]] <= load[n]
    <2>1. LET v == Driver!Sorted(A) \o Driver!Sorted(S \ A)
          IN  /\ v \in Seq(S) /\ Len(v) = Cardinality(S) /\ p \in 1..Cardinality(S)
              /\ \A i, j \in 1..Cardinality(S) : v[i] = v[j] => i = j
              /\ \A i \in 1..p : v[i] \in A
              /\ \A x \in A : \E i \in 1..p : v[i] = x
              /\ \A n \in S : load[v[1]] <= load[n]
      BY <1>1, LineIs
    <2> HIDE DEF A, p
    <2> QED
      BY <1>2, <2>1, Zenon
  <1>4. /\ A \subseteq S
        /\ \A n \in S : \E m \in A : zone[m] = zone[n]
        /\ \A m, n \in A : zone[m] = zone[n] => m = n
    BY FirstsAre
  <1> HIDE DEF A, p
  <1>5. PICK chosen : chosen = SubSeq(w, 1, rf)
    OBVIOUS
  <1>6. /\ chosen \in Seq(S) /\ Len(chosen) = rf /\ DOMAIN chosen = 1..rf
        /\ \A i \in 1..rf : chosen[i] = w[i] /\ chosen[i] \in S /\ i \in 1..Cardinality(S)
    BY <1>1, <1>3, <1>5
  <1>7. IsInjective(chosen)
    BY <1>3, <1>6 DEF IsInjective
  <1>8. Range(chosen) = {w[i] : i \in 1..rf} /\ Range(chosen) \subseteq S
    BY <1>6 DEF Range
  <1> DEFINE Z == {zone[n] : n \in S}
             C == {zone[n] : n \in Range(chosen)}
  <1>9. Z = {zone[n] : n \in A}
    BY <1>4
  <1>10. IsFiniteSet(Z) /\ Cardinality(Z) = p
    <2>1. PICK f : f = [i \in 1..p |-> zone[w[i]]]
      OBVIOUS
    <2>2. f \in [1..p -> Z]
      BY <1>3, <1>9, <2>1
    <2>3. \A i, j \in 1..p : f[i] = f[j] => i = j
      <3> SUFFICES ASSUME NEW i \in 1..p, NEW j \in 1..p, f[i] = f[j] PROVE i = j
        OBVIOUS
      <3>1. w[i] = w[j]
        BY <1>3, <1>4, <2>1
      <3>2. i \in 1..Cardinality(S) /\ j \in 1..Cardinality(S)
        BY <1>1, <1>3
      <3> QED
        BY <1>3, <3>1, <3>2
    <2>4. \A z \in Z : \E i \in 1..p : f[i] = z
      <3> SUFFICES ASSUME NEW n \in A PROVE \E i \in 1..p : f[i] = zone[n]
        BY <1>9
      <3>1. PICK i \in 1..p : w[i] = n
        BY <1>3
      <3> QED
        BY <2>1, <3>1
    <2>5. p \in Nat
      BY <1>1, <1>3
    <2> HIDE DEF Z
    <2> QED
      BY <2>2, <2>3, <2>4, <2>5, CountedBy
  <1>11. CASE rf <= p
    <2>1. \A i \in 1..rf : i \in 1..p /\ i \in 1..Cardinality(S)
      BY <1>1, <1>3, <1>11
    <2>2. PICK f : f = [i \in 1..rf |-> zone[w[i]]]
      OBVIOUS
    <2>3. f \in [1..rf -> C]
      BY <1>8, <2>2
    <2>4. \A i, j \in 1..rf : f[i] = f[j] => i = j
      <3> SUFFICES ASSUME NEW i \in 1..rf, NEW j \in 1..rf, f[i] = f[j] PROVE i = j
        OBVIOUS
      <3>1. w[i] = w[j]
        BY <1>3, <1>4, <2>1, <2>2
      <3> QED
        BY <1>3, <2>1, <3>1
    <2>5. \A z \in C : \E i \in 1..rf : f[i] = z
      BY <1>8, <2>2
    <2>6. Cardinality(C) = rf
      <3> HIDE DEF C
      <3> QED
        BY <2>3, <2>4, <2>5, CountedBy
    <2>7. Min({Cardinality(Z), rf}) = rf
      BY <1>1, <1>3, <1>10, <1>11, MinOfTwo
    <2> HIDE DEF C, Z
    <2>8. Cardinality(C) = Min({Cardinality(Z), rf})
      BY <2>6, <2>7
    <2>9. \A n \in S : load[chosen[1]] <= load[n]
      BY <1>3, <1>6
    <2> QED
      BY <1>2, <1>5, <1>6, <1>7, <2>8, <2>9 DEF ChoiceIsSound, Driver!Choose, A, C, Z
  <1>12. CASE p < rf
    <2>1. A \subseteq Range(chosen)
      <3> SUFFICES ASSUME NEW x \in A PROVE x \in Range(chosen)
        OBVIOUS
      <3>1. PICK i \in 1..p : w[i] = x
        BY <1>3
      <3>2. i \in 1..rf
        BY <1>1, <1>3, <1>12
      <3> QED
        BY <1>8, <3>1, <3>2
    <2>2. C = Z
      BY <1>8, <1>9, <2>1
    <2>3. Min({Cardinality(Z), rf}) = Cardinality(Z)
      <3>1. Cardinality(Z) \in Nat /\ Cardinality(Z) <= rf
        BY <1>1, <1>3, <1>10, <1>12
      <3> HIDE DEF Z
      <3> QED
        BY <3>1, MinOfTwo
    <2> HIDE DEF C, Z
    <2>4. Cardinality(C) = Min({Cardinality(Z), rf})
      BY <2>2, <2>3
    <2>5. \A n \in S : load[chosen[1]] <= load[n]
      BY <1>3, <1>6
    <2> QED
      BY <1>2, <1>5, <1>6, <1>7, <2>4, <2>5 DEF ChoiceIsSound, Driver!Choose, A, C, Z
  <1> QED
    BY <1>1, <1>3, <1>11, <1>12
-----------------------------------------------------------------------------
(* The driver.  Regions are placed on nodes that are known, and known nodes  *)
(* stay known; while reconcile() holds the lock nodes only get stale.        *)

PassIsTyped == pass \in [todo : SUBSET Placed, live : SUBSET Known, at : {"idle", "running"}]

DriverInv ==
  /\ Driver!TypeOK /\ PassIsTyped
  /\ PlacementsAreSound /\ ReconcileHeals
  /\ pass.at = "running" => Live \subseteq pass.live

LEMMA LiveAreCandidates ==
  ASSUME Driver!TypeOK
  PROVE  Candidates(Live) /\ Driver!Live = Live /\ Driver!Known = Known /\ Driver!Placed = Placed
         /\ Cardinality(Live) \in Nat
  <1>1. Driver!Live = Live /\ Driver!Known = Known /\ Driver!Placed = Placed
    BY DEF Driver!Live, Live, Driver!Known, Known, Driver!Placed, Placed
  <1>2. Candidates(Live)
    <2> SUFFICES ASSUME NEW n \in Live PROVE n \in Node /\ load[n] \in Nat
      BY DEF Candidates
    <2>1. n \in Known /\ n \in Node /\ load[n] \in Loads[n] \cup {0}
      BY <1>1 DEF Driver!TypeOK, Live
    <2> QED
      BY <2>1, PlacementAssumption
  <1> QED
    BY <1>1, <1>2, CandidatesAreFinite

LEMMA InitDriverInv == Driver!Init => DriverInv
  <1> SUFFICES ASSUME Driver!Init PROVE DriverInv
    OBVIOUS
  <1> USE DEF Driver!Init, Driver!NoPass
  <1>1. Known = {} /\ Placed = {} /\ Driver!Known = {} /\ Driver!Placed = {} /\ DOMAIN load = {} /\ Live = {}
    BY DEF Known, Placed, Driver!Known, Driver!Placed, Live
  <1>2. regions \in [{} -> Driver!Placements]
    BY <1>1 DEF Placed
  <1>3. Driver!TypeOK
    BY <1>1, <1>2, PlacementAssumption DEF Driver!TypeOK
  <1>4. PassIsTyped
    BY DEF PassIsTyped
  <1>5. PlacementsAreSound /\ ReconcileHeals
    BY <1>1 DEF PlacementsAreSound, ReconcileHeals
  <1> QED
    BY <1>3, <1>4, <1>5 DEF DriverInv

\* assign() past its checks (72-101).
LEMMA PlaceKeeps ==
  ASSUME DriverInv, NEW r \in Region, NEW rf \in Nat, 1 <= rf, rf <= Cardinality(Live),
         epoch < MaxEpoch, Driver!Place(r, rf), UNCHANGED <<zone, load, healthy, fresh>>
  PROVE  /\ Placed' = Placed \cup {r}
         /\ regions' \in [Placed' -> Driver!Placements] /\ epoch' \in 0..MaxEpoch
         /\ PlacementsAreSound'
         /\ \A q \in Placed \ {r} : regions'[q] = regions[q]
         /\ Range(regions'[r].replicas) \subseteq Live /\ Len(regions'[r].replicas) = rf
         /\ SpreadsOut
  <1>1. PICK chosen : chosen = Driver!Choose(Live, rf)
    OBVIOUS
  <1>2. Candidates(Live) /\ Driver!Live = Live /\ Driver!Placed = Placed /\ Live \subseteq Known /\ Live \subseteq Node
    BY LiveAreCandidates DEF DriverInv, Driver!TypeOK, Live, Driver!Known, Known, Candidates
  <1>3. ChoiceIsSound(Live, rf, chosen)
    BY <1>1, <1>2, ChosenIsSound
  <1> DEFINE row == [replicas |-> chosen, leader |-> chosen[1], epoch |-> epoch + 1]
  <1>4. /\ epoch' = epoch + 1
        /\ regions' = [q \in Placed \cup {r} |-> IF q = r THEN row ELSE regions[q]]
    BY <1>1, <1>2 DEF Driver!Place, Driver!Put, Placed
  <1>5. /\ row.replicas = chosen /\ row.leader = chosen[1] /\ row.epoch = epoch + 1
    OBVIOUS
  <1>6. epoch \in Nat /\ epoch' \in 0..MaxEpoch /\ epoch + 1 \in Nat
    BY <1>4, PlacementAssumption DEF DriverInv, Driver!TypeOK
  <1>7. /\ chosen \in Seq(Live) /\ Len(chosen) = rf /\ IsInjective(chosen) /\ DOMAIN chosen = 1..rf
        /\ chosen[1] \in Live /\ chosen # <<>> /\ Head(chosen) = chosen[1] /\ Range(chosen) \subseteq Live
        /\ chosen \in Seq(Node)
    <2>1. chosen \in Seq(Live) /\ Len(chosen) = rf /\ IsInjective(chosen)
      BY <1>3 DEF ChoiceIsSound
    <2>2. DOMAIN chosen = 1..rf /\ \A i \in 1..rf : chosen[i] \in Live
      BY <2>1
    <2>3. chosen \in Seq(Node)
      BY <1>2, <2>1
    <2> QED
      BY <2>1, <2>2, <2>3 DEF Range
  <1>8. row \in Driver!Placements
    BY <1>2, <1>6, <1>7 DEF Driver!Placements
  <1> HIDE DEF row
  <1>9. Placed' = Placed \cup {r} /\ regions'[r] = row /\ \A q \in Placed \ {r} : regions'[q] = regions[q]
    BY <1>4 DEF Placed
  <1>10. regions \in [Placed -> Driver!Placements]
    BY <1>2 DEF DriverInv, Driver!TypeOK
  <1>11. regions' \in [Placed' -> Driver!Placements]
    BY <1>4, <1>8, <1>9, <1>10
  <1>12. PlacementsAreSound'
    <2>1. Known' = Known
      BY DEF Known
    <2>2. ASSUME NEW q \in Placed'
          PROVE  /\ regions'[q].replicas # <<>> /\ IsInjective(regions'[q].replicas)
                 /\ Range(regions'[q].replicas) \subseteq Known
                 /\ regions'[q].leader = Head(regions'[q].replicas)
                 /\ regions'[q].epoch \in 1..epoch'
                 /\ q # r => regions'[q].epoch \in 1..epoch
      <3>1. CASE q = r
        BY <1>2, <1>4, <1>5, <1>6, <1>7, <1>9, <3>1
      <3>2. CASE q # r
        <4>1. q \in Placed /\ regions'[q] = regions[q]
          BY <1>9, <3>2
        <4>2. regions[q].epoch \in 1..epoch /\ regions[q].epoch \in 1..epoch'
          BY <1>4, <1>6, <4>1 DEF DriverInv, PlacementsAreSound
        <4> QED
          BY <4>1, <4>2 DEF DriverInv, PlacementsAreSound
      <3> QED
        BY <3>1, <3>2
    <2>3. ASSUME NEW q \in Placed', NEW o \in Placed', q # o PROVE regions'[q].epoch # regions'[o].epoch
      <3>1. CASE q # r /\ o # r
        BY <1>9, <2>3, <3>1 DEF DriverInv, PlacementsAreSound
      <3>2. CASE q = r \/ o = r
        <4>1. regions'[r].epoch = epoch + 1
          BY <1>5, <1>9
        <4> QED
          BY <1>6, <2>2, <2>3, <3>2, <4>1
      <3> QED
        BY <3>1, <3>2
    <2> QED
      BY <2>1, <2>2, <2>3 DEF PlacementsAreSound
  <1>13. SpreadsOut
    <2> SUFFICES ASSUME NEW q \in DOMAIN regions', q \in Placed => regions'[q] # regions[q]
                 PROVE  /\ Range(regions'[q].replicas) \subseteq Live
                        /\ \A n \in Live : load[regions'[q].leader] <= load[n]
                        /\ Cardinality({zone[n] : n \in Range(regions'[q].replicas)})
                             = Min({Cardinality({zone[n] : n \in Live}), Len(regions'[q].replicas)})
      BY DEF SpreadsOut
    <2>1. q = r
      BY <1>9 DEF Placed
    <2>2. regions'[q].replicas = chosen /\ regions'[q].leader = chosen[1]
      BY <1>5, <1>9, <2>1
    <2> QED
      BY <1>3, <1>7, <2>2 DEF ChoiceIsSound
  <1> QED
    BY <1>5, <1>6, <1>7, <1>9, <1>11, <1>12, <1>13
\* A step that leaves the regions alone is neither a thinning nor a placement.
LEMMA NothingPlaced ==
  ASSUME UNCHANGED regions
  PROVE  SpreadsOut /\ KeepsFactor
  BY DEF SpreadsOut, KeepsFactor, Placed

\* What is known of the regions holds as long as nodes stay known.
LEMMA RegionsStay ==
  ASSUME DriverInv, UNCHANGED <<regions, epoch>>, Known \subseteq Known'
  PROVE  PlacementsAreSound'
  BY DEF DriverInv, PlacementsAreSound, Placed

\* register, heartbeat, set_health, and the clock (50-70).
LEMMA NodeStep ==
  ASSUME DriverInv, NEW n \in Node,
         \/ \E z \in Zones[n] : Driver!Register(n, z)
         \/ \E l \in Loads[n] : Driver!Heartbeat(n, l)
         \/ \E h \in BOOLEAN : Driver!SetHealth(n, h)
         \/ Driver!TimeOut(n)
  PROVE  DriverInv' /\ SpreadsOut /\ KeepsFactor
  <1> USE DEF Driver!Known, Known, Driver!Placed, Placed
  <1>1. UNCHANGED <<regions, epoch, pass>>
    BY DEF Driver!Register, Driver!Heartbeat, Driver!SetHealth, Driver!TimeOut
  <1>2. Driver!TypeOK' /\ Known \subseteq Known'
    <2>1. CASE \E z \in Zones[n] : Driver!Register(n, z)
      BY <2>1 DEF DriverInv, Driver!TypeOK, Driver!Register, Driver!Put
    <2>2. CASE \E l \in Loads[n] : Driver!Heartbeat(n, l)
      BY <2>2 DEF DriverInv, Driver!TypeOK, Driver!Heartbeat
    <2>3. CASE \E h \in BOOLEAN : Driver!SetHealth(n, h)
      BY <2>3 DEF DriverInv, Driver!TypeOK, Driver!SetHealth
    <2>4. CASE Driver!TimeOut(n)
      BY <2>4 DEF DriverInv, Driver!TypeOK, Driver!TimeOut
    <2> QED
      BY <2>1, <2>2, <2>3, <2>4
  <1>3. PassIsTyped'
    BY <1>1, <1>2 DEF DriverInv, PassIsTyped
  <1>4. PlacementsAreSound' /\ ReconcileHeals'
    BY <1>1, <1>2, RegionsStay DEF DriverInv, ReconcileHeals
  <1>5. pass'.at = "running" => Live' \subseteq pass'.live
    BY <1>1 DEF DriverInv, Live, Driver!Register, Driver!Heartbeat, Driver!SetHealth, Driver!TimeOut,
           Driver!LockFree
  <1> QED
    BY <1>1, <1>2, <1>3, <1>4, <1>5, NothingPlaced DEF DriverInv

\* assign and rebalance, while no pass is under way (72-107).
LEMMA AssignStep ==
  ASSUME DriverInv, NEW r \in Region, NEW rf \in Nat, Driver!Assign(r, rf)
  PROVE  DriverInv' /\ SpreadsOut /\ KeepsFactor
  <1>1. /\ 1 <= rf /\ rf <= Cardinality(Live) /\ epoch < MaxEpoch /\ Driver!Place(r, rf)
        /\ UNCHANGED <<zone, load, healthy, fresh, pass>> /\ pass.at # "running"
    <2>1. Driver!Live = Live /\ Cardinality(Live) \in Nat
      BY LiveAreCandidates DEF DriverInv
    <2>2. Driver!Cardinality(Driver!Live) = Cardinality(Live)
      BY <2>1 DEF Cardinality, Driver!Cardinality
    <2> QED
      BY <2>1, <2>2 DEF Driver!Assign, Driver!LockFree
  <1>2. /\ Placed' = Placed \cup {r} /\ regions' \in [Placed' -> Driver!Placements] /\ epoch' \in 0..MaxEpoch
        /\ PlacementsAreSound' /\ SpreadsOut
    BY <1>1, PlaceKeeps
  <1>3. Known' = Known /\ Live' = Live
    BY <1>1 DEF Known, Live
  <1>4. Driver!TypeOK'
    BY <1>1, <1>2, <1>3 DEF DriverInv, Driver!TypeOK, Driver!Known, Known, Driver!Placed, Placed
  <1>5. PassIsTyped'
    BY <1>1, <1>2, <1>3 DEF DriverInv, PassIsTyped
  <1>6. ReconcileHeals' /\ KeepsFactor
    BY <1>1 DEF ReconcileHeals, KeepsFactor
  <1> QED
    BY <1>1, <1>2, <1>4, <1>5, <1>6 DEF DriverInv

\* reconcile, region by region (109-120).
LEMMA BeginStep ==
  ASSUME DriverInv, Driver!BeginReconcile
  PROVE  DriverInv' /\ SpreadsOut /\ KeepsFactor
  <1> USE DEF Driver!Known, Known, Driver!Placed, Placed
  <1>1. /\ UNCHANGED <<zone, load, healthy, fresh, regions, epoch>>
        /\ pass' = [todo |-> Placed, live |-> Live, at |-> "running"]
    BY LiveAreCandidates DEF DriverInv, Driver!BeginReconcile
  <1>2. Live \subseteq Known /\ Live' = Live
    BY <1>1 DEF DriverInv, Driver!TypeOK, Live
  <1>3. Driver!TypeOK' /\ PassIsTyped'
    BY <1>1, <1>2 DEF DriverInv, Driver!TypeOK, PassIsTyped
  <1>4. PlacementsAreSound' /\ ReconcileHeals'
    BY <1>1, RegionsStay DEF ReconcileHeals
  <1> QED
    BY <1>1, <1>2, <1>3, <1>4, NothingPlaced DEF DriverInv

LEMMA KeepStep ==
  ASSUME DriverInv, NEW r \in Region, Driver!ReconcileKeep(r)
  PROVE  DriverInv' /\ SpreadsOut /\ KeepsFactor
  <1> USE DEF Driver!Known, Known, Driver!Placed, Placed
  <1>1. /\ UNCHANGED <<zone, load, healthy, fresh, regions, epoch>> /\ r \in pass.todo /\ pass.at = "running"
        /\ pass' = [pass EXCEPT !.todo = @ \ {r}] /\ Range(regions[r].replicas) \subseteq pass.live
    BY DEF Driver!ReconcileKeep, Driver!Sick, Driver!Range, Range
  <1>2. pass'.todo = pass.todo \ {r} /\ pass'.live = pass.live /\ pass'.at = "running"
    BY <1>1 DEF DriverInv, PassIsTyped
  <1>3. Driver!TypeOK' /\ PassIsTyped'
    BY <1>1, <1>2 DEF DriverInv, Driver!TypeOK, PassIsTyped
  <1>4. PlacementsAreSound' /\ ReconcileHeals'
    BY <1>1, <1>2, RegionsStay DEF DriverInv, ReconcileHeals
  <1>5. Live' = Live
    BY <1>1 DEF Live
  <1> QED
    BY <1>1, <1>2, <1>3, <1>4, <1>5, NothingPlaced DEF DriverInv

LEMMA MoveStep ==
  ASSUME DriverInv, NEW r \in Region, Driver!ReconcileMove(r)
  PROVE  DriverInv' /\ SpreadsOut /\ KeepsFactor
  <1> DEFINE rf == Len(regions[r].replicas)
  <1>1. /\ UNCHANGED <<zone, load, healthy, fresh>> /\ r \in pass.todo /\ pass.at = "running"
        /\ pass' = [pass EXCEPT !.todo = @ \ {r}] /\ epoch < MaxEpoch /\ Driver!Place(r, rf)
    BY DEF Driver!ReconcileMove
  <1>2. r \in Placed /\ regions[r] \in Driver!Placements
    BY <1>1 DEF DriverInv, PassIsTyped, Driver!TypeOK, Driver!Placed, Placed
  <1>3. rf \in Nat /\ 1 <= rf
    BY <1>2 DEF DriverInv, PlacementsAreSound, Driver!Placements
  <1>4. rf <= Cardinality(Live)
    <2>1. Driver!Live = Live /\ Cardinality(Live) \in Nat
      BY LiveAreCandidates DEF DriverInv
    <2>2. Driver!Cardinality(Driver!Live) = Cardinality(Live)
      BY <2>1 DEF Cardinality, Driver!Cardinality
    <2> QED
      BY <2>1, <2>2 DEF Driver!ReconcileMove
  <1>5. /\ Placed' = Placed \cup {r} /\ regions' \in [Placed' -> Driver!Placements] /\ epoch' \in 0..MaxEpoch
        /\ PlacementsAreSound' /\ SpreadsOut
        /\ \A q \in Placed \ {r} : regions'[q] = regions[q]
        /\ Range(regions'[r].replicas) \subseteq Live /\ Len(regions'[r].replicas) = rf
    <2> HIDE DEF rf
    <2> QED
      BY <1>1, <1>3, <1>4, PlaceKeeps
  <1>6. pass'.todo = pass.todo \ {r} /\ pass'.live = pass.live /\ pass'.at = "running" /\ Placed' = Placed
    BY <1>1, <1>2, <1>5 DEF DriverInv, PassIsTyped
  <1>7. Known' = Known /\ Live' = Live
    BY <1>1 DEF Known, Live
  <1>8. Driver!TypeOK'
    BY <1>1, <1>5, <1>6, <1>7 DEF DriverInv, Driver!TypeOK, Driver!Known, Known, Driver!Placed, Placed
  <1>9. PassIsTyped'
    BY <1>1, <1>6, <1>7 DEF DriverInv, PassIsTyped
  <1>10. ReconcileHeals'
    BY <1>1, <1>5, <1>6 DEF DriverInv, ReconcileHeals
  <1>11. KeepsFactor
    BY <1>2, <1>5 DEF KeepsFactor
  <1> QED
    BY <1>1, <1>5, <1>6, <1>7, <1>8, <1>9, <1>10, <1>11 DEF DriverInv

LEMMA EndStep ==
  ASSUME DriverInv, Driver!EndReconcile \/ \E r \in Region : Driver!ReconcileRaise(r)
  PROVE  DriverInv' /\ SpreadsOut /\ KeepsFactor
  <1> USE DEF Driver!Known, Known, Driver!Placed, Placed
  <1>1. UNCHANGED <<zone, load, healthy, fresh, regions, epoch>> /\ pass' = [todo |-> {}, live |-> {}, at |-> "idle"]
    BY DEF Driver!EndReconcile, Driver!ReconcileRaise, Driver!NoPass
  <1>2. Driver!TypeOK' /\ PassIsTyped'
    BY <1>1 DEF DriverInv, Driver!TypeOK, PassIsTyped
  <1>3. PlacementsAreSound' /\ ReconcileHeals'
    BY <1>1, RegionsStay DEF ReconcileHeals
  <1> QED
    BY <1>1, <1>2, <1>3, NothingPlaced DEF DriverInv

LEMMA NextDriverInv ==
  DriverInv /\ [Driver!Next]_placementVars => DriverInv' /\ [SpreadsOut /\ KeepsFactor]_placementVars
  <1> SUFFICES ASSUME DriverInv, [Driver!Next]_placementVars
               PROVE  DriverInv' /\ [SpreadsOut /\ KeepsFactor]_placementVars
    OBVIOUS
  <1>1. CASE UNCHANGED placementVars
    BY <1>1 DEF placementVars, DriverInv, Driver!TypeOK, PassIsTyped, PlacementsAreSound, ReconcileHeals, Live,
           Known, Placed, Driver!Known, Driver!Placed
  <1>2. CASE \E r \in Region : Driver!Rebalance(r) \/ \E rf \in 1..Driver!Cardinality(Node) : Driver!Assign(r, rf)
    <2>1. PICK r \in Region : Driver!Rebalance(r) \/ \E rf \in 1..Driver!Cardinality(Node) : Driver!Assign(r, rf)
      BY <1>2
    <2>2. CASE Driver!Rebalance(r)
      <3>1. Driver!Assign(r, Len(regions[r].replicas)) /\ r \in Placed
        BY <2>2 DEF Driver!Rebalance, Driver!Placed, Placed
      <3>2. Len(regions[r].replicas) \in Nat
        BY <3>1 DEF DriverInv, Driver!TypeOK, Driver!Placements, Driver!Placed, Placed
      <3> QED
        BY <3>1, <3>2, AssignStep
    <2>3. CASE \E rf \in 1..Driver!Cardinality(Node) : Driver!Assign(r, rf)
      <3>1. PICK rf \in 1..Driver!Cardinality(Node) : Driver!Assign(r, rf)
        BY <2>3
      <3>2. Driver!Cardinality(Node) = Cardinality(Node) /\ Cardinality(Node) \in Nat
        BY PlacementAssumption, FS_CardinalityType DEF Cardinality, Driver!Cardinality
      <3>3. rf \in Nat
        BY <3>2
      <3> QED
        BY <3>1, <3>3, AssignStep
    <2> QED
      BY <2>1, <2>2, <2>3
  <1>3. CASE Driver!Next
    BY <1>2, <1>3, NodeStep, BeginStep, KeepStep, MoveStep, EndStep DEF Driver!Next
  <1> QED
    BY <1>1, <1>3

\* Every reachable state of the driver satisfies the invariant.
LEMMA DriverAlways == Driver!Spec => []DriverInv
  BY InitDriverInv, NextDriverInv, PTL DEF Driver!Spec, Driver!placementVars, placementVars

\* The driver's nodes, regions and pass are well typed.
THEOREM DriverTypeOK == Driver!Spec => []Driver!TypeOK
  BY DriverAlways, PTL DEF DriverInv

\* A region is on as many different known nodes as replicas, led by the first of them,
\* and no two placements share an epoch, whatever nodes do meanwhile (assign, 72-101).
THEOREM RegionsArePlacedSoundly == Driver!Spec => []PlacementsAreSound
  BY DriverAlways, PTL DEF DriverInv

\* What a pass has dealt with is on nodes that were live when it began, though it places by
\* later readings of the clock (109-120).
THEOREM PassesHeal == Driver!Spec => []ReconcileHeals
  BY DriverAlways, PTL DEF DriverInv

\* Every placement is on live nodes in as many zones as can be had, led by one that is
\* least loaded; no pass changes how many replicas a region has (82-95, 103-107).
THEOREM RegionsStayPlaced == Driver!Spec => PlacementsAreKept
  BY DriverAlways, NextDriverInv, PTL DEF Driver!Spec, PlacementsAreKept, Driver!placementVars, placementVars

-----------------------------------------------------------------------------
(* The run itself: a behaviour of MCCluster is a behaviour of each part. *)

runVars == <<vars, placementVars, replicatorVars, raftVars, snapshotVars, frameVars, service>>

\* One part steps, the others stand still.
LEMMA EachPart ==
    /\ MCSpec => Spec
    /\ MCSpec => Driver!Spec
    /\ MCSpec => Replicator!Spec
    /\ MCSpec => Raft!Spec
    /\ MCSpec => Snapshots!Spec
    /\ MCSpec => Frames!Spec
<1>1. MCInit => Init /\ Driver!Init /\ Replicator!Init /\ Raft!Init /\ Snapshots!Init /\ Frames!Init
    BY DEF MCInit
<1>2. [MCNext]_runVars => [Next]_vars
    BY DEF MCNext, runVars, vars
<1>3. [MCNext]_runVars => [Driver!Next]_(Driver!placementVars)
    BY DEF MCNext, runVars, placementVars, Driver!placementVars
<1>4. [MCNext]_runVars => [Replicator!Next]_(Replicator!vars)
    BY DEF MCNext, runVars, replicatorVars, Replicator!vars
<1>5. [MCNext]_runVars => [Raft!Next]_(Raft!vars)
    BY DEF MCNext, runVars, raftVars, Raft!vars
<1>6. [MCNext]_runVars => [Snapshots!Next]_(Snapshots!vars)
    BY DEF MCNext, runVars, snapshotVars, Snapshots!vars, Snapshots!store, Snapshots!raft
<1>7. [MCNext]_runVars => [Frames!Next]_(Frames!vars)
    BY DEF MCNext, runVars, frameVars, Frames!vars, Frames!client, Frames!server
<1> QED
    BY <1>1, <1>2, <1>3, <1>4, <1>5, <1>6, <1>7, PTL
       DEF MCSpec, runVars, Spec, Driver!Spec, Replicator!Spec, Raft!Spec, Snapshots!Spec, Frames!Spec

\* Lease, placements, replicas, write-ahead log, snapshot files and connections keep
\* their shape, whichever part runs: the type invariant the run checks (placement.py,
\* replication.py, raft_node_server.py, snapshot_store.py, raft_backend.py,
\* raft_transport.py).
THEOREM ClusterTypeOK == MCSpec => []TypesOK
BY EachPart, LeaderTypeOK, DriverTypeOK, ReplicatorTypeOK, RaftTypeOK, SnapshotTypeOK, FrameTypeOK, PTL DEF TypesOK

=============================================================================
