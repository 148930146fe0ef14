------------------------------ MODULE FrameState ------------------------------
(* The parameters and the state of RaftTransport, and what the transport      *)
(* promises, apart from the steps so that a module that checks several        *)
(* components can extend them.                                                *)
EXTENDS Naturals, Sequences, Functions

CONSTANTS
    MaxFrame,   \* bound: frames sent
    MaxRetries, \* max_retries
    MaxBreak    \* bound: connections the network breaks

ASSUME FrameAssumption == MaxFrame \in Nat /\ MaxRetries \in Nat /\ MaxBreak \in Nat

VARIABLES
    sequence, \* _sequence, which numbers the frames
    attempts, \* what is left to the send in progress, 0 without one
    socket,   \* the connection in _sockets, 0 without one
    raised,   \* the frames whose send raised
    streams,  \* of each connection, what was written and not read
    ends,     \* the connections whose stream ends after that
    threads,  \* where the server's thread for each connection is
    stop,     \* _stop
    handed,   \* what on_frame was given: by which connection, which frame
    late,     \* of that, the connections whose frame came after close()
    breaks    \* connections broken so far

-----------------------------------------------------------------------------
\* Although send() repeats itself over new connections and never hears an answer, the
\* callback is given whole frames, each once and never one whose send raised; frames
\* overtake each other only over different connections; and after close() a connection
\* hands over one more frame at most (send, 69-85; _connection and close, 141-159).
FramesArriveOnce ==
    /\ \A j \in DOMAIN handed : handed[j].frame \in 1..sequence \ raised
    /\ \A i, j \in DOMAIN handed : i < j =>
         /\ handed[i].frame # handed[j].frame
         /\ handed[i].by = handed[j].by => handed[i].frame < handed[j].frame
    /\ IsInjective(late)
=============================================================================
