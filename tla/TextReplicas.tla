---------------------------- MODULE TextReplicas ----------------------------
(***************************************************************************)
(* The operations of a Text, on the replicas of Replicas.                  *)
(***************************************************************************)
EXTENDS Replicas, RGATreeSplit

CONSTANTS
    Contents,       \* the lengths of the contents applications insert
    Replacing       \* whether an edit may remove and insert in this instance

ASSUME ContentsAssumption == Contents \subseteq Nat /\ Replacing \in BOOLEAN

\* operation.Edit with latestCreatedAtMapByActor.  deleted are the characters
\* the author of the edit saw disappear, each by its insertion and its offset
\* there; the code does not send them.
Position == [createdAt : Nat, offset : Nat, rel : Nat]
TextOperation ==
    [type : {"edit"}, from : Position, to : Position, latest : [Clients -> Nat], len : Nat,
     deleted : SUBSET (Nat \X Nat)]

TextFails(t, op, at) ==
    \/ LookupFails(t, op.to)
    \/ LookupFails(SplitAt(t, op.to), op.from)

TextExecute(t, op, at) ==
    Edit(t, op.from, op.to, op.latest, NewBlock(at, op.len, InitialTicket), at)

\* The characters of a block.
Chars(n) == {n.createdAt} \X (n.offset .. (n.offset + n.len - 1))

\* TextProxy.Edit: it edits the clone and pushes the positions with the map
\* that deleteNodes has returned.
TextEdit(t, at, from, to, len) ==
    LET fromPos == FindNodePos(t, from)
        toPos == FindNodePos(t, to)
        s == SplitForEdit(t, fromPos, toPos)
        places == Deleted(s, fromPos, toPos, NoMap, at)
    IN  [type |-> "edit", from |-> fromPos, to |-> toPos, len |-> len,
         latest |-> LatestCreatedAt(s, places),
         deleted |-> UNION {Chars(s.nodes[i]) :
                                i \in {j \in places : s.nodes[j].removedAt = Nil}}]

\* The edits up to an index that do something.
TextEdits(t, at, end) ==
    {TextEdit(t, at, e[1], e[2], e[3]) :
        e \in {f \in (0 .. end) \X (0 .. end) \X Contents :
                  \/ f[1] < f[2] /\ (f[3] = 0 \/ Replacing)
                  \/ f[1] = f[2] /\ f[3] > 0}}

TextOperations(t, at) == TextEdits(t, at, Length(t))

-----------------------------------------------------------------------------
(***************************************************************************)
(* Properties                                                              *)
(***************************************************************************)

\* The characters of a text that are shown, and those that are removed.
Live(t) == UNION {Chars(t.nodes[i]) : i \in {j \in DOMAIN t.nodes : t.nodes[j].removedAt = Nil}}
Removed(t) == UNION {Chars(t.nodes[i]) : i \in {j \in DOMAIN t.nodes : t.nodes[j].removedAt # Nil}}

\* What the authors of the edits the replica of c has executed saw disappear.
SeenDeleted(c) ==
    UNION {change.op.deleted : change \in {e \in Executed(c) : e.op.type = "edit"}}

\* Replicas that have executed the same edits have cut the text into the same
\* blocks and have them in the same order, whoever inserted first.
SameOrder ==
    \A c, d \in Clients : SameChanges(c, d) =>
        [i \in DOMAIN data[c].nodes |-> ID(data[c].nodes[i])] =
        [i \in DOMAIN data[d].nodes |-> ID(data[d].nodes[i])]

\* An edit removes nothing on any replica but what its author saw disappear:
\* what others insert meanwhile into the deleted range survives.
OnlySelectedDeleted ==
    \A c \in Clients : Removed(data[c]) \subseteq SeenDeleted(c)

\* What an author saw disappear is gone.  The code does not keep this: the right
\* half of a removed block that is split is shown again.
DeletedIsGone ==
    \A c \in Clients : c \notin dead =>
        Live(data[c]) \cap SeenDeleted(c) = {}

\* Replicas that have executed the same edits show the same text.  The code does
\* not keep this either.
SameText ==
    \A c, d \in Clients : SameChanges(c, d) => Live(data[c]) = Live(data[d])
=============================================================================
