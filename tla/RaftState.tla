------------------------------ MODULE RaftState ------------------------------
(* The parameters and the state of RaftPeer, and what the node promises its   *)
(* peers, apart from the steps so that a module that checks several           *)
(* components can extend them.                                                *)
EXTENDS Naturals, Sequences, SequencesExt

CONSTANTS
    Candidate,  \* peers that ask for votes
    MaxTerm,    \* bound: terms
    MaxIndex,   \* bound: entries of a log
    MaxWal      \* bound: lines of the log file

Nobody == "nobody"

ASSUME RaftAssumption ==
    /\ Nobody \notin Candidate
    /\ MaxTerm \in Nat /\ MaxIndex \in Nat /\ MaxWal \in Nat

VARIABLES
    hard,      \* the node's term and vote
    log,       \* the node's log: the term of each entry
    ready,     \* ready_batch, at most the node's pending Ready
    emit,      \* where emit() is; "halted": it raised, "torn": the last line is cut
    wal,       \* the lines of the log file
    votes,     \* history: the votes sent, with their terms, and whether the log had entries
    owed       \* history: entries acknowledged to a leader and not replaced by one since

-----------------------------------------------------------------------------
\* Lines 188-189: "persist the Ready (entries + hard state) before it is acknowledged and
\* before its messages are released".  Wherever the node is killed, and although load()
\* keeps entries behind a cut, what it acknowledged and no leader replaced is in its log
\* again; and it does not vote twice in a term in which it voted with entries in its log.
PromisesSurvive ==
    /\ emit # "torn" => IsPrefix(owed, log)
    /\ \A v, w \in votes : v.term = w.term /\ v.entries /\ w.entries => v.for = w.for
=============================================================================
