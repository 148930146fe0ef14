------------------------------ MODULE PortState ------------------------------
(* The parameters and the state of PortPlane, without the registry's        *)
(* revocations, and what ports and channel promise, apart from the steps so  *)
(* that a module that checks several components can extend them.             *)
EXTENDS Naturals, FiniteSets

CONSTANTS
    Knowledge,  \* knowledge keys
    Alias,      \* normalized aliases
    Call,       \* calls of bind and update_value
    Invocation, \* calls of ReflexChannel.invoke
    MaxGen      \* bound: generations published of a key

ASSUME PortAssumption == IsFiniteSet(Knowledge) /\ IsFiniteSet(Invocation) /\ MaxGen \in Nat

None == "none"

VARIABLES
    head,     \* generation of each key's head
    ports,    \* temporal_ports, slot 0 being an absent row
    aliases,  \* temporal_port_aliases
    calls,    \* where each call of bind and update_value is, and what it has read
    arms,     \* where each invocation is, and what it has read
    misses,   \* reflex_misses
    hits,     \* reflex_hits
    failovers \* failovers

NoRow == [slot |-> 0, generation |-> 0, handle |-> None, revision |-> 0]

-----------------------------------------------------------------------------
\* A port row, its slot and its alias appear together (lines 60-74), although binds
\* race: the slots in use are 1..n, one each, and an alias names a bound port.  A slot
\* is vocabulary of the trained model: two ports must not share one.
PortsAreWhole ==
    LET bound == {k \in Knowledge : ports[k] # NoRow} IN
    /\ {ports[k].slot : k \in bound} = 1..Cardinality(bound)
    /\ \A a \in Alias : aliases[a] # None => aliases[a] \in bound

\* reflex.py:13-29: failovers < reflex_misses means that a default pod did not hold.
\* Whatever runs concurrently, and wherever a call fails, hits and misses are the calls
\* that got past the choice, and the misses not failed over are those still at the
\* default pod or failed by it.
MissesAreAccounted ==
    LET at(places) == Cardinality({i \in Invocation : arms[i].at \in places}) IN
    /\ hits = at({"hit"})
    /\ misses - failovers = at({"default", "raised"})

\* Slots, aliases and counters, whatever races and whatever raises.
PortsAreSound == PortsAreWhole /\ MissesAreAccounted
=============================================================================
