----------------------------- MODULE RGATreeSplit -----------------------------
(***************************************************************************)
(* json.RGATreeSplit, the replicated text behind Text and RichText: a      *)
(* linked list of blocks that edits split.  The nodes are the sequence of  *)
(* the blocks with the initial head first.  Of the contents only the       *)
(* length is kept, and of the attributes of a RichText the updatedAt of    *)
(* one, InitialTicket if it is not set.                                    *)
(*                                                                         *)
(* The blocks of one insertion have its createdAt and the offsets they     *)
(* begin at.  insPrev and insNext link them in the order of the offsets,   *)
(* so they are not kept beside the nodes.  treeByID is the order of the    *)
(* ids and treeByIndex the sum of the lengths.                             *)
(***************************************************************************)
EXTENDS Tickets, FiniteSetsExt

CONSTANT MaxTicket      \* time.MaxTicket, above every ticket of the instance

ASSUME MaxTicketAssumption == MaxTicket \in Nat

Block ==
    [createdAt : Nat, offset : Nat, len : Nat, attrs : Nat, removedAt : Nat \cup {Nil}]

\* The key of removedNodeMap and of treeByID.
ID(n) == <<n.createdAt, n.offset>>

\* removed is removedNodeMap, registered tells whether the text is among the
\* removedNodeTextElements of the root.
Text == [nodes : Seq(Block), removed : SUBSET (Nat \X Nat), registered : BOOLEAN]

NewBlock(createdAt, len, attrs) ==
    [createdAt |-> createdAt, offset |-> 0, len |-> len, attrs |-> attrs, removedAt |-> Nil]

NewText ==
    [nodes |-> <<NewBlock(InitialTicket, 0, InitialTicket)>>, removed |-> {}, registered |-> FALSE]

VisibleLen(n) == IF n.removedAt = Nil THEN n.len ELSE 0

\* The number of visible characters in the first i blocks.
LengthUpTo(t, i) ==
    LET length[j \in 0 .. i] ==
            IF j = 0 THEN 0 ELSE length[j - 1] + VisibleLen(t.nodes[j])
    IN  length[i]
Length(t) == LengthUpTo(t, Len(t.nodes))

\* RGATreeSplitNodePos: a place relative to a block.
Pos(n, rel) == [createdAt |-> n.createdAt, offset |-> n.offset, rel |-> rel]

\* findNodePos: the first block the index is in, or at the end of.
FindNodePos(t, index) ==
    LET i == Min({j \in DOMAIN t.nodes : LengthUpTo(t, j) >= index})
    IN  Pos(t.nodes[i], index - LengthUpTo(t, i - 1))

-----------------------------------------------------------------------------
\* The places of the blocks of an insertion, up to an offset.
BlocksUpTo(t, createdAt, offset) ==
    {i \in DOMAIN t.nodes : t.nodes[i].createdAt = createdAt /\ t.nodes[i].offset <= offset}

\* findFloorNode.
Floor(t, createdAt, offset) ==
    CHOOSE i \in BlocksUpTo(t, createdAt, offset) :
        \A j \in BlocksUpTo(t, createdAt, offset) : t.nodes[j].offset <= t.nodes[i].offset

\* findFloorNodePreferToLeft: at the edge of two blocks the left one, unless
\* it has been collected.
FloorPreferToLeft(t, createdAt, offset) ==
    IF /\ offset > 0
       /\ t.nodes[Floor(t, createdAt, offset)].offset = offset
       /\ BlocksUpTo(t, createdAt, offset - 1) # {}
    THEN Floor(t, createdAt, offset - 1)
    ELSE Floor(t, createdAt, offset)

\* The lookup of a position fails: its block is not there, or it has been
\* collected and the block found instead does not reach so far.
LookupFails(t, pos) ==
    LET offset == pos.offset + pos.rel
    IN  \/ BlocksUpTo(t, pos.createdAt, offset) = {}
        \/ LET n == t.nodes[FloorPreferToLeft(t, pos.createdAt, offset)]
           IN  offset - n.offset > n.len

\* A mutant of RightPart: the right block loses a character.
RightPartShort(n, at) ==
    [n EXCEPT !.offset = @ + at, !.len = @ - at - 1, !.removedAt = Nil]

\* RGATreeSplitNode.split: the right block is a new node with a copy of the
\* attributes, which is not removed even if the left one is.
RightPart(n, at) ==
    [n EXCEPT !.offset = @ + at, !.len = @ - at, !.removedAt = Nil]

\* splitNode.
Split(t, i, at) ==
    IF at \in {0, t.nodes[i].len}
    THEN t
    ELSE [t EXCEPT !.nodes =
             SubSeq(@, 1, i - 1)
             \o <<[t.nodes[i] EXCEPT !.len = at], RightPart(t.nodes[i], at)>>
             \o SubSeq(@, i + 1, Len(@))]

\* The first half of findNodeWithSplit.
SplitAt(t, pos) ==
    LET i == FloorPreferToLeft(t, pos.createdAt, pos.offset + pos.rel)
    IN  Split(t, i, pos.offset + pos.rel - t.nodes[i].offset)

\* A mutant of LeftOf: the block at the position, whatever follows it.
LeftOfPosition(t, pos, at) == FloorPreferToLeft(t, pos.createdAt, pos.offset + pos.rel)

\* The second half of findNodeWithSplit, after the split: the left node, which
\* is behind the blocks that follow the position and are newer.
LeftOf(t, pos, at) ==
    LET first == FloorPreferToLeft(t, pos.createdAt, pos.offset + pos.rel)
    IN  CHOOSE i \in first .. Len(t.nodes) :
            /\ i < Len(t.nodes) => t.nodes[i + 1].createdAt <= at
            /\ \A j \in (first + 1) .. i : t.nodes[j].createdAt > at

-----------------------------------------------------------------------------
\* A mutant of Removes: the latest creation seen is not asked for.
RemovesUnseen(n, latest, at) == n.removedAt = Nil \/ at > n.removedAt

\* RGATreeSplitNode.Remove, with the latest creation the author of the edit
\* had seen of the block's actor.
Removes(n, latest, at) ==
    /\ n.createdAt <= latest[ActorOf(n.createdAt)]
    /\ n.removedAt = Nil \/ at > n.removedAt

\* edit, up to the split: the text, the left of from, and the places between
\* from and to.
SplitForEdit(t, from, to) == SplitAt(SplitAt(t, to), from)
Between(t, from, to, at) ==
    LET toRight == LeftOf(t, to, at) + 1
        fromRight == LeftOf(t, from, at) + 1
    IN  IF toRight < fromRight THEN fromRight .. Len(t.nodes) ELSE fromRight .. (toRight - 1)

\* deleteNodes: the places of the blocks that are removed.
Deleted(t, from, to, latest, at) ==
    {i \in Between(t, from, to, at) : Removes(t.nodes[i], latest, at)}

\* The first result of deleteNodes: the latest creation removed, per actor.
LatestCreatedAt(t, places) ==
    [c \in Clients |->
        Max({InitialTicket} \cup
            {t.nodes[i].createdAt : i \in {j \in places : ActorOf(t.nodes[j].createdAt) = c}})]

\* The map of a local edit is nil, which is above all tickets.
NoMap == [c \in Clients |-> MaxTicket]

\* edit and RegisterRemovedNodeTextElement, which looks at the relative offsets.
Edit(t, from, to, latest, block, at) ==
    LET s == SplitForEdit(t, from, to)
        left == LeftOf(s, from, at)
        places == Deleted(s, from, to, latest, at)
        marked == [i \in DOMAIN s.nodes |->
                      IF i \in places THEN [s.nodes[i] EXCEPT !.removedAt = at] ELSE s.nodes[i]]
        content == IF block.len > 0 THEN <<block>> ELSE <<>>
    IN  [nodes |-> SubSeq(marked, 1, left) \o content \o SubSeq(marked, left + 1, Len(marked)),
         removed |-> t.removed \cup {ID(s.nodes[i]) : i \in places},
         registered |-> t.registered \/ from.rel # to.rel]

\* cleanupRemovedNodes, of a text the root knows to have removed nodes.
CleanupRemovedNodes(t, ticket) ==
    LET Collectable(n) == ID(n) \in t.removed /\ n.removedAt # Nil /\ n.removedAt <= ticket
        purged == {i \in DOMAIN t.nodes : Collectable(t.nodes[i])}
    IN  IF t.registered /\ purged # {}
        THEN [nodes |-> SelectSeq(t.nodes, LAMBDA n : ~Collectable(n)),
              removed |-> t.removed \ {ID(t.nodes[i]) : i \in purged},
              registered |-> FALSE]
        ELSE t

\* toText and fromJSONText: every block is kept and linked as it was, but the
\* removed ones are registered nowhere.
DecodedText(t) == [t EXCEPT !.removed = {}, !.registered = FALSE]
=============================================================================
