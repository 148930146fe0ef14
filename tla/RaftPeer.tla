------------------------------ MODULE RaftPeer ------------------------------
(***************************************************************************)
(* research/raft_node_server.py over bindings/raft_binding: one node of a  *)
(* Raft cluster that logs every Ready of the library before it sends the   *)
(* messages of that Ready, and restarts from its log.                      *)
(*                                                                         *)
(* The server's lock is held from the step of the node to the end of       *)
(* emit(), so only a crash comes in between.  The library (raft-rs) is     *)
(* external: of its state only the term, the vote and the log are          *)
(* modelled, of its answers to peers the votes and the acknowledgements of *)
(* entries.  An entry stands for its term.  Connections may lose anything  *)
(* and are left out, as are commit indices, what is applied, the control   *)
(* port and --bootstrap-from.                                              *)
(***************************************************************************)
EXTENDS RaftState, FiniteSetsExt

vars == <<hard, log, ready, emit, wal, votes, owed>>

Fresh == [term |-> 0, vote |-> Nobody]

Init ==
    /\ hard = Fresh /\ log = <<>>
    /\ ready = {} /\ emit = "idle"
    /\ wal = <<>>
    /\ votes = {} /\ owed = <<>>

-----------------------------------------------------------------------------
(* raft-rs. *)

\* A Ready: the entries from an index on, the hard state if it changed, the messages.
Ready(from, entries, h, votesFor, acked) ==
    ready' = {[from |-> from, entries |-> entries, hard |-> IF h = hard THEN {} ELSE {h},
               votes |-> votesFor, acked |-> acked]}

\* A vote is granted once per term; a granted one is granted again.
StepVote(t, c) ==
    /\ emit = "idle" /\ Len(wal) < MaxWal
    /\ \/ t > hard.term
       \/ t = hard.term /\ hard.vote \in {Nobody, c}
    /\ hard' = [term |-> t, vote |-> c]
    /\ Ready(Len(log) + 1, <<>>, hard', {[term |-> t, for |-> c, entries |-> log # <<>>]}, 0)
    /\ emit' = "wal"
    /\ UNCHANGED <<log, wal, votes, owed>>

\* An entry of a leader's log behind a prefix of this one: a conflict cuts this log off.
StepAppend(t, prev, e) ==
    /\ emit = "idle" /\ Len(wal) < MaxWal
    /\ t >= hard.term /\ t > 0
    /\ prev <= Len(log) /\ prev < MaxIndex
    /\ e <= t /\ (prev > 0 => e >= log[prev])
    /\ hard' = IF t > hard.term THEN [term |-> t, vote |-> Nobody] ELSE hard
    /\ IF prev < Len(log) /\ log[prev + 1] = e
       THEN Ready(Len(log) + 1, <<>>, hard', {}, prev + 1) /\ UNCHANGED <<log, owed>>
       ELSE /\ log' = Append(SubSeq(log, 1, prev), e)
            /\ owed' = SubSeq(owed, 1, Min({prev, Len(owed)}))
            /\ Ready(prev + 1, <<e>>, hard', {}, prev + 1)
    /\ emit' = "wal"
    /\ UNCHANGED <<wal, votes>>

-----------------------------------------------------------------------------
(* emit. *)

Line(r) == [from |-> r.from, entries |-> r.entries, hard |-> r.hard]

\* Seeded fault: a line that could not be written is passed over.
WriteWalOrGoOn ==
    /\ emit = "wal"
    /\ \E r \in ready : wal' \in {wal, Append(wal, Line(r))}
    /\ emit' = "send"
    /\ UNCHANGED <<hard, log, ready, votes, owed>>

\* wal.append, which may raise: the batch is cleared, and since the Ready stays pending
\* in the node there is never another one.
WriteWal ==
    /\ emit = "wal"
    /\ \E r \in ready :
         \/ wal' = (IF r.entries = <<>> /\ r.hard = {} THEN wal ELSE Append(wal, Line(r))) /\ emit' = "send"
         \/ emit' = "halted" /\ UNCHANGED wal
    /\ UNCHANGED <<hard, log, ready, votes, owed>>

\* pending_messages and ack_ready_messages.
Send ==
    /\ emit = "send"
    /\ \E r \in ready : /\ votes' = votes \cup r.votes
                        /\ owed' = IF r.acked > 0 THEN SubSeq(log, 1, r.acked) ELSE owed
    /\ ready' = {}
    /\ emit' = "idle"
    /\ UNCHANGED <<hard, log, wal>>

-----------------------------------------------------------------------------
(* Wal.load, and a restart. *)

\* Each line's entries replace those of the same index; what a line cut off stays.
Folded(lines) ==
    LET At(i)    == {n \in DOMAIN lines : i \in lines[n].from..(lines[n].from + Len(lines[n].entries) - 1)}
        Entry(i) == LET n == Max(At(i)) IN lines[n].entries[i - lines[n].from + 1]
    IN  [i \in {i \in 1..MaxIndex : At(i) # {}} |-> Entry(i)]

HardOf(lines) ==
    LET with == {n \in DOMAIN lines : lines[n].hard # {}}
    IN  IF with = {} THEN Fresh ELSE CHOOSE h \in lines[Max(with)].hard : TRUE

Load ==
    LET entries == Folded(wal) IN
    /\ log' = [i \in DOMAIN entries |-> entries[i]]
    \* The constructor is given the hard state only along with entries.
    /\ hard' = IF entries = <<>> THEN Fresh ELSE HardOf(wal)

\* Killed at any moment, and started again; amid an append the last line may be cut,
\* which load() cannot parse.
Crash ==
    /\ emit # "torn"
    /\ ready' = {}
    /\ UNCHANGED <<wal, votes, owed>>
    /\ \/ emit' = "idle" /\ Load
       \/ emit = "wal" /\ emit' = "torn" /\ UNCHANGED <<hard, log>>

Next ==
    \/ \E t \in 1..MaxTerm :
         \/ \E c \in Candidate : StepVote(t, c)
         \/ \E prev \in 0..(MaxIndex - 1), e \in 1..t : StepAppend(t, prev, e)
    \/ WriteWal \/ Send
    \/ Crash

Spec == Init /\ [][Next]_vars
-----------------------------------------------------------------------------
(* What the node promises its peers. *)

TypeOK ==
    /\ hard.term \in 0..MaxTerm /\ hard.vote \in Candidate \cup {Nobody}
    /\ log \in Seq(1..MaxTerm) /\ Len(log) <= MaxIndex
    /\ emit \in {"idle", "wal", "send", "halted", "torn"}
    /\ ready # {} <=> emit \in {"wal", "send", "halted"}
    /\ Len(wal) <= MaxWal

\* The hard state is persisted for the vote (188-189): a node votes for one candidate in
\* a term, also when it was restarted.
OneVotePerTerm == \A v, w \in votes : v.term = w.term => v.for = w.for
=============================================================================
