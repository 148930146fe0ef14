---------------------------- MODULE RaftTransport ----------------------------
(***************************************************************************)
(* neural_pods/raft_transport.py: the frames one client sends to one       *)
(* server over connections it opens again when one fails.  send() holds    *)
(* the client's lock, so its frames are written one after the other; the   *)
(* network and the server's threads, one for each connection, go on        *)
(* meanwhile.                                                              *)
(*                                                                         *)
(* A connection is a stream: what was written arrives in order, without    *)
(* gaps, up to where the connection breaks.  A write that fails has left a *)
(* part of its frame in the stream, or nothing.  The handshake of TLS, the *)
(* size and the manifest of a frame are left out.                          *)
(***************************************************************************)
EXTENDS FrameState, SequencesExt

client == <<sequence, attempts, socket, raised>>
server == <<threads, stop, handed, late>>
vars == <<client, streams, ends, server, breaks>>

Connections == DOMAIN streams

\* A part of a frame; and what is read as one when more follows it.
Torn == 0

Init ==
    /\ sequence = 0 /\ attempts = 0 /\ socket = 0 /\ raised = {}
    /\ streams = <<>> /\ ends = {} /\ breaks = 0
    /\ threads = <<>> /\ stop = FALSE /\ handed = <<>> /\ late = <<>>

-----------------------------------------------------------------------------
(* PersistentRaftClient *)

Send ==
    /\ attempts = 0 /\ sequence < MaxFrame
    /\ sequence' = sequence + 1
    /\ attempts' = MaxRetries + 1
    /\ UNCHANGED <<socket, raised, streams, ends, server, breaks>>

\* The last attempt that fails raises.
Fails ==
    /\ attempts' = attempts - 1
    /\ raised' = IF attempts = 1 THEN raised \cup {sequence} ELSE raised
    /\ UNCHANGED sequence

\* The listening socket takes a connection before accept() returns it.
Connect ==
    /\ attempts > 0 /\ socket = 0
    /\ \/ /\ ~stop
          /\ socket' = Len(streams) + 1
          /\ streams' = Append(streams, <<>>)
          /\ threads' = Append(threads, "backlog")
          /\ UNCHANGED <<sequence, attempts, raised>>
       \/ Fails /\ UNCHANGED <<socket, streams, threads>>
    /\ UNCHANGED <<ends, stop, handed, late, breaks>>

Written(what) == streams' = [streams EXCEPT ![socket] = IF socket \in ends THEN @ ELSE Append(@, what)]

\* sendall returns once the system has taken the frame, whether or not it arrives.
Write ==
    /\ attempts > 0 /\ socket # 0
    /\ Written(sequence)
    /\ attempts' = 0
    /\ UNCHANGED <<sequence, socket, raised, ends, server, breaks>>

\* Seeded fault: the next attempt goes on with the connection.
WriteFailsGoingOn ==
    /\ attempts > 0 /\ socket # 0
    /\ Written(Torn) \/ UNCHANGED streams
    /\ Fails
    /\ UNCHANGED <<socket, ends, server, breaks>>

\* The connection is forgotten and closed.
WriteFails ==
    /\ attempts > 0 /\ socket # 0
    /\ Written(Torn) \/ UNCHANGED streams
    /\ Fails
    /\ socket' = 0 /\ ends' = ends \cup {socket}
    /\ UNCHANGED <<server, breaks>>

CloseClient ==
    /\ attempts = 0 /\ socket # 0
    /\ socket' = 0 /\ ends' = ends \cup {socket}
    /\ UNCHANGED <<sequence, attempts, raised, streams, server, breaks>>

\* What was not read is lost from some point on.
Break ==
    /\ breaks < MaxBreak
    /\ \E c \in Connections : \E kept \in 0..Len(streams[c]) :
         /\ streams' = [streams EXCEPT ![c] = SubSeq(@, 1, kept)]
         /\ ends' = ends \cup {c}
    /\ breaks' = breaks + 1
    /\ UNCHANGED <<client, server>>

-----------------------------------------------------------------------------
(* PersistentRaftServer *)

Becomes(c, at) == threads' = [threads EXCEPT ![c] = at]

\* A thread is started for a connection, or it looks whether to go on.
Check(c) ==
    /\ threads[c] \in {"backlog", "check"}
    /\ Becomes(c, IF stop THEN "ended" ELSE "read")
    /\ UNCHANGED <<client, streams, ends, stop, handed, late, breaks>>

\* A part is completed by the bytes behind it, which is no frame that was sent.  When
\* the callback raises, the thread ends.
Read(c) ==
    /\ threads[c] = "read" /\ streams[c] # <<>> /\ (streams[c][1] = Torn => Len(streams[c]) > 1)
    /\ handed' = Append(handed, [by |-> c, frame |-> streams[c][1]])
    /\ late' = IF stop THEN Append(late, c) ELSE late
    /\ streams' = [streams EXCEPT ![c] = Tail(@)]
    /\ \E at \in {"check", "ended"} : Becomes(c, at)
    /\ UNCHANGED <<client, ends, stop, breaks>>

\* The stream is over, before a frame or within one.
ReadNothing(c) ==
    /\ threads[c] = "read" /\ c \in ends /\ streams[c] \in {<<>>, <<Torn>>}
    /\ Becomes(c, "ended")
    /\ UNCHANGED <<client, streams, ends, stop, handed, late, breaks>>

\* close() waits for the accepting thread alone; a connection nobody accepted is over.
Close ==
    /\ ~stop
    /\ stop' = TRUE
    /\ threads' = [c \in Connections |-> IF threads[c] = "backlog" THEN "ended" ELSE threads[c]]
    /\ UNCHANGED <<client, streams, ends, handed, late, breaks>>

Next ==
    \/ Send \/ Connect \/ Write \/ WriteFails \/ CloseClient \/ Break \/ Close
    \/ \E c \in Connections : Check(c) \/ Read(c) \/ ReadNothing(c)

Spec == Init /\ [][Next]_vars
-----------------------------------------------------------------------------
(* What the transport promises. *)

TypeOK ==
    /\ sequence \in 0..MaxFrame /\ attempts \in 0..(MaxRetries + 1)
    /\ socket \in {0} \cup Connections /\ raised \subseteq 1..sequence
    /\ \A c \in Connections : ToSet(streams[c]) \subseteq 0..sequence
    /\ ends \subseteq Connections
    /\ threads \in [Connections -> {"backlog", "check", "read", "ended"}]
=============================================================================
