--------------------------- MODULE NeuralSymlinks ---------------------------
(***************************************************************************)
(* neural_pods/symlink.py, NeuralSymlinks: the catalogue entry of one      *)
(* knowledge, under which a model learns to name it.  An entry holds the   *)
(* identity it was compiled from, its cluster, and the adapter trained to  *)
(* answer with both.                                                       *)
(*                                                                         *)
(* Every query and every transaction is one step; head() and the           *)
(* snapshot() that validates it are one, as in PortPlane.  Of the registry *)
(* there are the generations of the knowledge and of its identity, each    *)
(* replaced by the next; a generation and the identities compiled from it  *)
(* share their origins, the only ones that are revoked.  A cluster slot    *)
(* stands for its cluster, which it never changes.  A call that raises     *)
(* changes nothing more.                                                   *)
(***************************************************************************)
EXTENDS Naturals, Sequences

CONSTANTS
    Descriptor, \* identity descriptors
    ClusterOf,  \* the cluster of each descriptor
    Register,   \* calls of register
    Attach,     \* trainings, each ending in a call of attach
    Resolve,    \* calls of resolve
    MaxGen      \* bound: generations of the knowledge

None == "none"

VARIABLES
    described,  \* what each generation of the knowledge describes
    withdrawn,  \* the generations whose origins are revoked
    identities, \* the generations of its identity: the descriptor, and whose origins
    link,       \* its row of neural_symlinks
    registers, attaches, resolves  \* where each call is, and what it has read

registry == <<described, withdrawn>>
vars == <<registry, identities, link, registers, attaches, resolves>>

NoAdapter == [identity |-> 0, cluster |-> None, text |-> None]
NoLink    == [identity |-> 0, cluster |-> None, adapter |-> NoAdapter]

Latest == Len(described)
Live(i) == i = Len(identities) /\ identities[i].roots \notin withdrawn
LiveLatest(g) == g = Latest /\ g > 0 /\ g \notin withdrawn

Init ==
    /\ described = <<>> /\ withdrawn = {}
    /\ identities = <<>>
    /\ link = NoLink
    /\ registers = [c \in Register |-> [at |-> "idle", generation |-> 0, row |-> NoLink, identity |-> 0]]
    /\ attaches = [c \in Attach |-> [at |-> "idle", text |-> None, row |-> NoLink, adapter |-> NoAdapter]]
    /\ resolves = [c \in Resolve |-> [at |-> "idle", text |-> None, row |-> NoLink, generation |-> 0]]

-----------------------------------------------------------------------------
(* The registry. *)

Publish ==
    /\ Latest < MaxGen
    /\ \E d \in Descriptor : described' = Append(described, d)
    /\ UNCHANGED <<withdrawn, identities, link, registers, attaches, resolves>>

Withdraw ==
    /\ \E g \in 1..Latest : withdrawn' = withdrawn \cup {g}
    /\ UNCHANGED <<described, identities, link, registers, attaches, resolves>>

-----------------------------------------------------------------------------
(* register *)

Registers(c, now) == registers' = [registers EXCEPT ![c] = now] /\ UNCHANGED <<registry, attaches, resolves>>

BeginRegister(c) ==
    /\ registers[c].at = "idle" /\ LiveLatest(Latest)
    /\ Registers(c, [registers[c] EXCEPT !.at = "row", !.generation = Latest])
    /\ UNCHANGED <<identities, link>>

ReadLink(c) ==
    /\ registers[c].at = "row"
    /\ Registers(c, [registers[c] EXCEPT !.at = "check", !.row = link])
    /\ UNCHANGED <<identities, link>>

Compiled(row, d) == row # NoLink /\ Live(row.identity) /\ identities[row.identity].descriptor = d

\* The entry stays when its identity is valid and says what the knowledge says.
CheckIdentity(c) ==
    /\ registers[c].at = "check"
    /\ Registers(c, [registers[c] EXCEPT !.at =
            IF Compiled(registers[c].row, described[registers[c].generation]) THEN "done" ELSE "publish"])
    /\ UNCHANGED <<identities, link>>

\* publish() validates the origins, not the generation they belong to.
PublishIdentity(c) ==
    LET g == registers[c].generation IN
    /\ registers[c].at = "publish"
    /\ IF g \in withdrawn
       THEN Registers(c, [registers[c] EXCEPT !.at = "raised"]) /\ UNCHANGED identities
       ELSE /\ identities' = Append(identities, [descriptor |-> described[g], roots |-> g])
            /\ Registers(c, [registers[c] EXCEPT !.at = "write", !.identity = Len(identities) + 1])
    /\ UNCHANGED link

WriteLink(c) ==
    LET i == registers[c].identity IN
    /\ registers[c].at = "write"
    /\ link' = [identity |-> i, cluster |-> ClusterOf[identities[i].descriptor], adapter |-> NoAdapter]
    /\ Registers(c, [registers[c] EXCEPT !.at = "done"])
    /\ UNCHANGED identities

-----------------------------------------------------------------------------
(* A training and attach. *)

Attaches(c, now) == attaches' = [attaches EXCEPT ![c] = now] /\ UNCHANGED <<registry, identities, registers, resolves>>

\* The caller asks for the text the model is to learn, and trains it.
TakeTarget(c) ==
    /\ attaches[c].at = "idle" /\ link # NoLink
    /\ Attaches(c, [attaches[c] EXCEPT !.at = "binding", !.text = link.cluster])
    /\ UNCHANGED link

ReadBinding(c) ==
    /\ attaches[c].at = "binding"
    /\ Attaches(c, [attaches[c] EXCEPT !.at = "target", !.row = link])
    /\ UNCHANGED link

\* target_text() reads the row once more.
CheckTarget(c) ==
    /\ attaches[c].at = "target"
    /\ Attaches(c, [attaches[c] EXCEPT !.at = IF attaches[c].text = link.cluster THEN "artifact" ELSE "raised"])
    /\ UNCHANGED link

MakeAdapter(c) ==
    LET row == attaches[c].row IN
    /\ attaches[c].at = "artifact"
    /\ Attaches(c, IF ~Live(row.identity) THEN [attaches[c] EXCEPT !.at = "raised"]
                   ELSE [attaches[c] EXCEPT !.at = "write", !.adapter =
                           [identity |-> row.identity, cluster |-> row.cluster, text |-> attaches[c].text]])
    /\ UNCHANGED link

WriteAdapter(c) ==
    /\ attaches[c].at = "write"
    /\ link' = [link EXCEPT !.adapter = attaches[c].adapter]
    /\ Attaches(c, [attaches[c] EXCEPT !.at = "done"])

-----------------------------------------------------------------------------
(* resolve and active_binding *)

Resolves(c, now) == resolves' = [resolves EXCEPT ![c] = now] /\ UNCHANGED <<registry, identities, link, registers, attaches>>

\* The text is what some model answers.
BeginResolve(c) ==
    /\ resolves[c].at = "idle" /\ link.adapter # NoAdapter
    /\ \E d \in Descriptor : Resolves(c, [resolves[c] EXCEPT !.at = "active", !.text = ClusterOf[d], !.row = link])

\* The snapshot of identity, adapter and head.
Valid(row, g) == Live(row.identity) /\ Live(row.adapter.identity) /\ LiveLatest(g)

\* What active_binding() and resolve() compare, once the snapshot is taken.
Matches(row, text, g) ==
    /\ identities[row.identity].descriptor = described[g]
    /\ row.adapter.identity = row.identity
    /\ row.adapter.cluster = row.cluster
    /\ row.cluster = ClusterOf[identities[row.identity].descriptor]
    /\ text = row.cluster

Activate(c) ==
    LET call == resolves[c] IN
    /\ call.at = "active"
    /\ Resolves(c, IF Valid(call.row, Latest) /\ Matches(call.row, call.text, Latest)
                   THEN [call EXCEPT !.at = "snapshot", !.generation = Latest]
                   ELSE [call EXCEPT !.at = "raised"])

\* Seeded fault: what active_binding() found is trusted.
SnapshotTrusted(c) ==
    /\ resolves[c].at = "snapshot"
    /\ \E at \in {"resolved", "raised"} : Resolves(c, [resolves[c] EXCEPT !.at = at])

\* All of it is validated again, together with the indexed Pod, if there is one.
Snapshot(c) ==
    LET call == resolves[c] IN
    /\ call.at = "snapshot"
    /\ \/ Valid(call.row, call.generation) /\ Resolves(c, [call EXCEPT !.at = "resolved"])
       \/ Resolves(c, [call EXCEPT !.at = "raised"])

Next ==
    \/ Publish \/ Withdraw
    \/ \E c \in Register : BeginRegister(c) \/ ReadLink(c) \/ CheckIdentity(c) \/ PublishIdentity(c) \/ WriteLink(c)
    \/ \E c \in Attach : TakeTarget(c) \/ ReadBinding(c) \/ CheckTarget(c) \/ MakeAdapter(c) \/ WriteAdapter(c)
    \/ \E c \in Resolve : BeginResolve(c) \/ Activate(c) \/ Snapshot(c)

Spec == Init /\ [][Next]_vars
-----------------------------------------------------------------------------
(* What the catalogue promises. *)

TypeOK ==
    /\ described \in Seq(Descriptor) /\ withdrawn \subseteq 1..Latest
    /\ \A i \in DOMAIN identities : identities[i].descriptor = described[identities[i].roots]
    /\ link.identity \in 0..Len(identities)
    /\ \A c \in Register : registers[c].at \in {"idle", "row", "check", "publish", "write", "done", "raised"}
    /\ \A c \in Attach : attaches[c].at \in {"idle", "binding", "target", "artifact", "write", "done", "raised"}
    /\ \A c \in Resolve : resolves[c].at \in {"idle", "active", "snapshot", "resolved", "raised"}

\* Although trainings take long, register and attach race for the entry and each reads it
\* more than once, a link that resolves was given by a model trained to answer with it,
\* for an identity that is the knowledge's as it is published at that moment, and nothing
\* it rests on is withdrawn (attach, 158-166; active_binding and resolve, 168-195).
LinksAreCurrent ==
    [][\A c \in Resolve : resolves[c].at # "resolved" /\ resolves'[c].at = "resolved" =>
         LET adapter == resolves[c].row.adapter IN
         /\ resolves[c].text = adapter.text /\ adapter.text = ClusterOf[described[Latest]]
         /\ identities[adapter.identity].descriptor = described[Latest]
         /\ {Latest, identities[adapter.identity].roots} \cap withdrawn = {}]_vars
=============================================================================
