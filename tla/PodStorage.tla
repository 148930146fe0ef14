----------------------------- MODULE PodStorage -----------------------------
(***************************************************************************)
(* neural_pods/storage.py: put and get of one key over the shared hot tier *)
(* (Redis, with a TTL) and the table "kv".  Each access of a tier is one   *)
(* step; a process that dies in a call takes no further step of it.  A     *)
(* value stands for the put that wrote it: values of different puts        *)
(* differ, or nothing could be told about staleness.                       *)
(***************************************************************************)
EXTENDS Naturals, FiniteSets

CONSTANTS
    Put,     \* calls of put
    Cold,    \* the puts with l1=False
    Get      \* calls of get

None == "none"
Migrated == "migrated"  \* a row from before the column l1_eligible

VARIABLES
    l1,      \* the value in Redis
    row,     \* the key's row of "kv"
    puts,    \* where each put is
    gets,    \* where each get is, and what it has read
    raced    \* history: a value stayed in Redis, or came to it, that a put had replaced

vars == <<l1, row, puts, gets, raced>>

NoRow == [value |-> None, eligible |-> FALSE]

Init ==
    /\ l1 = None
    /\ row \in {NoRow, [value |-> Migrated, eligible |-> TRUE]}
    /\ puts = [p \in Put |-> [at |-> "idle", after |-> {}]]
    /\ gets = [g \in Get |-> [at |-> "idle", after |-> {}, value |-> None]]
    /\ raced = FALSE

\* after: what had been written when a call began.
Written == {p \in Put : puts[p].at = "done"} \cup {None, Migrated}
Replaced(after) == {v \in after : \E p \in Put \cap after : v \in puts[p].after}

\* Seeded fault: the put leaves Redis to the next back-fill.
BeginPutTableOnly(p) ==
    /\ puts[p].at = "idle"
    /\ puts' = [puts EXCEPT ![p] = [at |-> "table", after |-> Written]]
    /\ UNCHANGED <<l1, row, gets, raced>>

\* _l1_put, unless the put opts out: then what Redis holds of the key stays there.
BeginPut(p) ==
    /\ puts[p].at = "idle"
    /\ puts' = [puts EXCEPT ![p] = [at |-> "table", after |-> Written]]
    /\ IF p \in Cold
       THEN raced' = (raced \/ l1 # None) /\ UNCHANGED l1
       ELSE l1' = p /\ UNCHANGED raced
    /\ UNCHANGED <<row, gets>>

\* The upsert by (key, principal).
WriteRow(p) ==
    /\ puts[p].at = "table"
    /\ row' = [value |-> p, eligible |-> p \notin Cold]
    /\ puts' = [puts EXCEPT ![p].at = "done"]
    /\ UNCHANGED <<l1, gets, raced>>

Expire ==
    /\ l1 # None
    /\ l1' = None
    /\ UNCHANGED <<row, puts, gets, raced>>

BeginGet(g) ==
    /\ gets[g].at = "idle"
    /\ gets' = [gets EXCEPT ![g] = [at |-> IF l1 = None THEN "table" ELSE "done", after |-> Written,
                                    value |-> l1]]
    /\ UNCHANGED <<l1, row, puts, raced>>

ReadRow(g) ==
    /\ gets[g].at = "table"
    /\ gets' = [gets EXCEPT ![g].at = IF row.eligible THEN "warm" ELSE "done",
                            ![g].value = row.value]
    /\ UNCHANGED <<l1, row, puts, raced>>

\* The back-fill, by now perhaps of a value that was replaced.
Warm(g) ==
    /\ gets[g].at = "warm"
    /\ l1' = gets[g].value
    /\ raced' = (raced \/ \E p \in Put : puts[p].at # "idle" /\ gets[g].value # p /\ gets[g].value \in puts[p].after)
    /\ gets' = [gets EXCEPT ![g].at = "done"]
    /\ UNCHANGED <<row, puts>>

Next ==
    \/ \E p \in Put : BeginPut(p) \/ WriteRow(p)
    \/ Expire
    \/ \E g \in Get : BeginGet(g) \/ ReadRow(g) \/ Warm(g)

Spec == Init /\ [][Next]_vars
-----------------------------------------------------------------------------
(* What the storage promises. *)

TypeOK ==
    /\ l1 \in Put \cup {None, Migrated}
    /\ row.value \in Put \cup {None, Migrated}
    /\ \A p \in Put : puts[p].at \in {"idle", "table", "done"}
    /\ \A g \in Get : gets[g].at \in {"idle", "table", "warm", "done"}

\* Lines 182-184: l1=False is stored with the row, or "the first get() would put the
\* value into the shared hot tier the writer just asked to keep it out of".
OptedOutStaysCold == l1 \notin Cold

\* A get returns nothing that a put had replaced before it began, unless a put with
\* l1=False left the older value in Redis, or a back-fill restored one.
GetsAreRegular ==
    ~raced => \A g \in Get : gets[g].at = "done" => gets[g].value \notin Replaced(gets[g].after)
=============================================================================
