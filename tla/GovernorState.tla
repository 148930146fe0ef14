---------------------------- MODULE GovernorState ----------------------------
(* The parameters and the state of ResourceGovernor, and what the governor   *)
(* promises, apart from the steps so that a module that checks several       *)
(* components can extend them.                                               *)
EXTENDS Naturals, Sequences, SequencesExt, FiniteSetsExt

CONSTANTS
    Devices,      \* the vram devices, in order
    PlaceBudget,  \* the budget of every measured place
    Handler,      \* calls of resource-bound handlers
    Resident,     \* Pods with a residency
    Generation,   \* their generations
    Executor,     \* pods of the executor pool
    Amount,       \* the bytes a handler, Pod or executor asks for
    Preferred     \* the tier a handler or Pod prefers

Nowhere == "nowhere"
Places  == Devices \o <<"ram", "disk">>
Place   == ToSet(Places)
Clients == Handler \cup Resident \cup Executor

ASSUME GovernorAssumption ==
    /\ Devices \in Seq(ToSet(Devices) \ {Nowhere})
    /\ PlaceBudget \in [DOMAIN PlaceBudget -> Nat]
    /\ Amount \in [Clients -> Nat]
    /\ Preferred \in [Handler \cup Resident -> {"vram", "ram", "disk"}]
    /\ Handler \cap Resident = {} /\ Handler \cap Executor = {} /\ Resident \cap Executor = {}

VARIABLES
    used,        \* bytes granted at each place
    residencies, \* the generation resident for each Pod and its place, or Nobody
    trying,      \* where each handler is in its walk over the places, or Idle
    held,        \* the place a running handler holds, or Nowhere
    pooled,      \* the pool's executors
    used_bytes,  \* the pool's own count
    started      \* the executors that hold their lease, inside the pool or not

-----------------------------------------------------------------------------
HeldAt(p) == {h \in Handler : held[h] = p} \cup {q \in Resident : residencies[q].place = p}
                                           \cup (IF p = "ram" THEN pooled ELSE {})
Bytes(clients) == MapThenSumSet(LAMBDA c : Amount[c], clients)

\* No byte leaks and none is handed out twice: what is counted as used at a place is
\* what the calls, residencies and executors there hold, and the pool's count agrees,
\* whatever was released directly, rejected half way or never started (try_acquire,
\* release, deactivate, 168-234; pod_executor.py:163-175).
UsedIsHeld ==
    /\ \A p \in Place : used[p] = Bytes(HeldAt(p))
    /\ used_bytes = Bytes(pooled)

\* Everybody at a place fits in its measured budget together, whichever of the three
\* ways they were admitted by (try_acquire, 171-173; pod_executor.py:120-122,
\* "draw on the same budget"), and nobody is where nothing was measured.
BudgetHolds ==
    \A p \in Place : Bytes(HeldAt(p)) <= IF p \in DOMAIN PlaceBudget THEN PlaceBudget[p] ELSE 0

\* What is held is what was given, and never more than there is.
BudgetIsKept == UsedIsHeld /\ BudgetHolds
=============================================================================
