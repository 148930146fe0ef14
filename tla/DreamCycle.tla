----------------------------- MODULE DreamCycle -----------------------------
(***************************************************************************)
(* research/run_dream_cycle.py over neural_pods/dream.py, CycleBudget and  *)
(* record_cycle: processes that dream against one registry, whose event    *)
(* log is the counter of their quota.                                      *)
(*                                                                         *)
(* Each process has a governor of its own, so leases are not contended.    *)
(* What a cycle computes is left out, as is the limit of 1000 of events(). *)
(***************************************************************************)
EXTENDS Naturals, FiniteSets

CONSTANTS
    Cycle,    \* runs of main()
    Quota,    \* max_per_window
    Window,   \* window_s
    MaxTime   \* bound: clock

VARIABLES
    now,
    at,       \* where each process is
    lease,    \* it holds the RAM lease
    worked,   \* when it began to work, {} before
    flag,     \* progress["recorded"]
    events,   \* the dream_cycle events
    unlucky,  \* history: a record failed, or a process was interrupted around one
    crowded   \* history: a cycle was admitted while another was under way

vars == <<now, at, lease, worked, flag, events, unlucky, crowded>>

Init ==
    /\ now = 0
    /\ at = [c \in Cycle |-> "idle"]
    /\ lease = [c \in Cycle |-> FALSE]
    /\ worked = [c \in Cycle |-> {}]
    /\ flag = [c \in Cycle |-> FALSE]
    /\ events = {}
    /\ unlucky = {} /\ crowded = FALSE

Goes(c, place) == at' = [at EXCEPT ![c] = place]
UnderWay == {c \in Cycle : at[c] \in {"lease", "work", "finally"}}

-----------------------------------------------------------------------------
Tick ==
    /\ now < MaxTime
    /\ now' = now + 1
    /\ UNCHANGED <<at, lease, worked, flag, events, unlucky, crowded>>

Recent == {e \in events : e.ts + Window >= now}

\* budget.check()
Check(c) ==
    /\ at[c] = "idle"
    /\ Goes(c, IF Cardinality(Recent) >= Quota THEN "refused" ELSE "lease")
    /\ crowded' = (crowded \/ UnderWay # {})
    /\ UNCHANGED <<now, lease, worked, flag, events, unlucky>>

\* Without room for the replay the process exits before it has done any work.
Acquire(c) ==
    /\ at[c] = "lease"
    /\ \/ Goes(c, "refused") /\ UNCHANGED <<lease, worked>>
       \/ /\ Goes(c, "work")
          /\ lease' = [lease EXCEPT ![c] = TRUE]
          /\ worked' = [worked EXCEPT ![c] = {now}]
    /\ UNCHANGED <<now, flag, events, unlucky, crowded>>

\* Committed with the registry's time, or not at all.
Recorded(c, status) == events' = events \cup {[cycle |-> c, status |-> status, ts |-> now]}

\* _cycle: it raises before it has a winner, or records that it completed; an interrupt
\* may come between the commit and the flag.
Work(c) ==
    /\ at[c] = "work"
    /\ \/ Goes(c, "finally") /\ UNCHANGED <<flag, events, unlucky>>
       \/ /\ Recorded(c, "completed")
          /\ Goes(c, "finally")
          /\ \/ flag' = [flag EXCEPT ![c] = TRUE] /\ UNCHANGED unlucky
             \/ unlucky' = unlucky \cup {c} /\ UNCHANGED flag
    /\ UNCHANGED <<now, lease, worked, crowded>>

\* Seeded fault: only a cycle that found a winner is recorded.
FinallySilent(c) ==
    /\ at[c] = "finally"
    /\ lease' = [lease EXCEPT ![c] = FALSE]
    /\ Goes(c, "exited")
    /\ UNCHANGED <<now, worked, flag, events, unlucky, crowded>>

\* The finally of main(), whose record may meet a locked database.
Finally(c) ==
    /\ at[c] = "finally"
    /\ lease' = [lease EXCEPT ![c] = FALSE]
    /\ Goes(c, "exited")
    /\ IF flag[c] THEN UNCHANGED <<events, unlucky>>
       ELSE \/ Recorded(c, "aborted") /\ UNCHANGED unlucky
            \/ unlucky' = unlucky \cup {c} /\ UNCHANGED events
    /\ UNCHANGED <<now, worked, flag, crowded>>

Kill(c) ==
    /\ at[c] \in {"lease", "work", "finally"}
    /\ Goes(c, "killed")
    /\ lease' = [lease EXCEPT ![c] = FALSE]
    /\ UNCHANGED <<now, worked, flag, events, unlucky, crowded>>

Next ==
    \/ Tick
    \/ \E c \in Cycle : Check(c) \/ Acquire(c) \/ Work(c) \/ Finally(c) \/ Kill(c)

Spec == Init /\ [][Next]_vars
-----------------------------------------------------------------------------
(* What the budget promises. *)

Of(c) == {e \in events : e.cycle = c}

TypeOK ==
    /\ now \in 0..MaxTime
    /\ at \in [Cycle -> {"idle", "refused", "lease", "work", "finally", "exited", "killed"}]
    /\ \A c \in Cycle : lease[c] => at[c] \in {"work", "finally"}
    /\ \A e \in events : e.cycle \in Cycle /\ e.ts \in 0..now

\* dream.py:437-442: "The quota bounds work performed, not work that succeeded".  A cycle
\* that worked and ended has one event whatever stopped it, unless it was killed or could
\* not write; so cycles that do not overlap and can write never work more often in a
\* window than the quota allows.
WorkIsCounted ==
    /\ \A c \in Cycle : at[c] = "exited" /\ c \notin unlucky => Cardinality(Of(c)) = 1
    /\ ~crowded /\ unlucky = {} /\ (\A c \in Cycle : at[c] # "killed") =>
         \A c \in Cycle : \A t \in worked[c] :
             Cardinality({d \in Cycle : \E u \in worked[d] : u <= t /\ t <= u + Window}) <= Quota
=============================================================================
