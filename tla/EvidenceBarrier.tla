-------------------------- MODULE EvidenceBarrier --------------------------
(***************************************************************************)
(* What the lineage registry promises its callers, without its tables:     *)
(* items derive from items that still count, an item that stopped counting *)
(* never counts again and takes all that depends on it along, and an       *)
(* answer is only acknowledged while everything it rests on still counts.  *)
(***************************************************************************)
EXTENDS Naturals, Sequences

VARIABLES
    deps,      \* the items each item was derived from
    dead,      \* the items that no longer count
    receipts   \* the acknowledged answers, numbered in the order of their acknowledgement

vars == <<deps, dead, receipts>>

Items == DOMAIN deps

\* A set that holds every item derived from one of its members.
TakesDependents(S, d) == \A i \in DOMAIN d : d[i] \cap S # {} => i \in S

Init == deps = <<>> /\ dead = {} /\ receipts = {}

\* Items stop counting, together with everything that depends on them.
Retiring == \E gone \in {dead'} : dead \subseteq gone /\ TakesDependents(gone, deps')

\* A new item, which may replace others.
Derive ==
    /\ \E D \in SUBSET (Items \ dead) : deps' = Append(deps, D)
    /\ Retiring
    /\ UNCHANGED receipts

Retire == UNCHANGED <<deps, receipts>> /\ Retiring

\* The answer is a new item, or one that was derived before; its receipt is the latest.
Acknowledge ==
    /\ \E new \in receipts' :
        /\ receipts' = receipts \cup {new}
        /\ \A old \in receipts : old.number < new.number
        /\ new.item \in DOMAIN deps' \ dead
    /\ \/ \E D \in SUBSET (Items \ dead) : deps' = Append(deps, D)
       \/ UNCHANGED deps
    /\ UNCHANGED dead

Next == Retire \/ Derive \/ Acknowledge

Spec == Init /\ [][Next]_vars
=============================================================================
