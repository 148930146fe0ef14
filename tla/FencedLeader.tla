---------------------------- MODULE FencedLeader ----------------------------
(***************************************************************************)
(* neural_pods/placement.py, FencedLeader: one leader lease with monotonic *)
(* term and fence counters.  Clients keep the LeaderLease that acquire or  *)
(* renew last returned to them.  Two clients may use the same holder name, *)
(* a restarted process for instance; acquire then replaces the lease.      *)
(***************************************************************************)
EXTENDS Naturals

CONSTANTS
    Client,    \* processes that lead or want to
    Name,      \* the holder name of each client
    NoHolder,  \* the empty name, which acquire refuses
    LeaseLen,  \* lease_s
    MaxTime,   \* bound on the clock
    MaxFence   \* bound on the number of acquisitions

ASSUME LeaderAssumption ==
    /\ NoHolder \notin {Name[c] : c \in Client}
    /\ LeaseLen \in Nat \ {0}
    /\ MaxTime \in Nat /\ MaxFence \in Nat

VARIABLES
    lease,  \* _lease; before the first acquire a lease of NoHolder
    term,   \* _term
    fence,  \* _fence
    belief, \* the lease each client was last given
    now     \* time.monotonic()

vars == <<lease, term, fence, belief, now>>

Holder == {Name[c] : c \in Client}
Lease  == [holder : Holder \cup {NoHolder}, term : Nat, fence : Nat, expires : Nat]
NoLease == [holder |-> NoHolder, term |-> 0, fence |-> 0, expires |-> 0]

Init ==
    /\ lease = NoLease
    /\ term = 0
    /\ fence = 0
    /\ belief = [c \in Client |-> NoLease]
    /\ now = 0

Give(c, l) ==
    /\ lease' = l
    /\ belief' = [belief EXCEPT ![c] = l]

Free(c) == lease = NoLease \/ lease.expires <= now \/ lease.holder = Name[c]

\* Seeded fault: the lease is built from the counters before they are advanced.
AcquireOldFence(c) ==
    /\ Free(c)
    /\ fence < MaxFence
    /\ term' = term + 1
    /\ fence' = fence + 1
    /\ Give(c, [holder |-> Name[c], term |-> term, fence |-> fence, expires |-> now + LeaseLen])
    /\ UNCHANGED now

\* Seeded fault: only a change of holder gets a new fence.
AcquireSameFence(c) ==
    /\ Free(c)
    /\ fence < MaxFence
    /\ term' = term + 1
    /\ fence' = IF lease.holder = Name[c] THEN fence ELSE fence + 1
    /\ Give(c, [holder |-> Name[c], term |-> term', fence |-> fence', expires |-> now + LeaseLen])
    /\ UNCHANGED now

Acquire(c) ==
    /\ Free(c)
    /\ fence < MaxFence
    /\ term' = term + 1
    /\ fence' = fence + 1
    /\ Give(c, [holder |-> Name[c], term |-> term', fence |-> fence', expires |-> now + LeaseLen])
    /\ UNCHANGED now

\* Seeded fault: the fence of the caller is not compared.
Renewable(c) == lease.holder = Name[c] /\ belief[c].fence > 0

\* renew(holder, fence) compares both and not the expiry: an expired lease nobody
\* took over comes back to life.
CanRenew(c) == lease.holder = Name[c] /\ lease.fence = belief[c].fence

Renew(c) ==
    /\ CanRenew(c)
    /\ Give(c, [lease EXCEPT !.expires = now + LeaseLen])
    /\ UNCHANGED <<term, fence, now>>

Tick ==
    /\ now < MaxTime
    /\ now' = now + 1
    /\ UNCHANGED <<lease, term, fence, belief>>

Next ==
    \/ \E c \in Client : Acquire(c) \/ Renew(c)
    \/ Tick

Spec == Init /\ [][Next]_vars
-----------------------------------------------------------------------------
(* What the lease promises. *)

\* validate(holder, fence), as client c would call it.
Validates(c) ==
    /\ lease.holder = Name[c]
    /\ lease.fence = belief[c].fence
    /\ lease.expires > now

\* What client c may conclude from its copy of the lease alone.
Trusts(c) == belief[c].expires > now

TypeOK ==
    /\ lease \in Lease /\ lease.term = term /\ lease.fence = fence
    /\ term \in Nat /\ fence \in Nat /\ now \in Nat
    /\ belief \in [Client -> Lease]

\* Clients that look only at the expires_at they were given never lead under two
\* names at once: nobody is given a lease that overlaps one given earlier, renewed
\* ones included (acquire, 165-174; renew, 176-183).
LeadersAgree ==
    \A c, d \in Client : Trusts(c) /\ Trusts(d) => Name[c] = Name[d]

\* At most one client validates, also among those that share a holder name: after a
\* restart and a second acquire the first process is fenced off (validate, 185-189).
OneClientValidates ==
    \A c, d \in Client : Validates(c) /\ Validates(d) => c = d

\* A client that could not renew or validate its fence against the current lease
\* never can again with it, so a superseded writer stays fenced whatever it retries
\* and whenever the leases in between expire.
FencedForGood ==
    [][\A c \in Client : CanRenew(c)' =>
         CanRenew(c) \/ belief[c]'.fence > fence]_vars

\* The expiry announced to a client is honoured: as long as it has not passed, the
\* lease keeps that holder, and a later fence never precedes an earlier one.
LeaseIsKept ==
    [][/\ lease.expires > now => lease'.holder = lease.holder
       /\ lease'.expires >= lease.expires
       /\ lease'.fence >= lease.fence]_vars
=============================================================================
