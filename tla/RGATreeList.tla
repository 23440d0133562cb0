----------------------------- MODULE RGATreeList -----------------------------
(***************************************************************************)
(* json.RGATreeList, the replicated list behind Array: a linked list of    *)
(* nodes with tombstones.  A list is the sequence of its nodes, without    *)
(* the dummy head, which has index 0, and the size the code counts beside  *)
(* them.  The splay tree only finds the idx-th node that is not removed.   *)
(*                                                                         *)
(* An element is identified by createdAt, as in nodeMapByCreatedAt; the    *)
(* dummy head by InitialTicket.  movedAt and removedAt of an element that  *)
(* was neither are Nil.                                                    *)
(***************************************************************************)
EXTENDS Tickets

Node == [createdAt : Nat \ {0}, movedAt : Nat \cup {Nil}, removedAt : Nat \cup {Nil}]
List == [nodes : Seq(Node), size : Int]

NewRGATreeList == [nodes |-> <<>>, size |-> 0]
NewNode(createdAt) == [createdAt |-> createdAt, movedAt |-> Nil, removedAt |-> Nil]

PositionedAt(n) == IF n.movedAt # Nil THEN n.movedAt ELSE n.createdAt
IsRemoved(n) == n.removedAt # Nil

\* nodeMapByCreatedAt: whether the list has the element, and where.
Has(l, t) == t = InitialTicket \/ \E i \in DOMAIN l.nodes : l.nodes[i].createdAt = t
IndexOf(l, t) ==
    IF t = InitialTicket THEN 0 ELSE CHOOSE i \in DOMAIN l.nodes : l.nodes[i].createdAt = t

\* The places of the nodes that are not removed, and their elements.
Live(l) == {i \in DOMAIN l.nodes : ~IsRemoved(l.nodes[i])}
Elements(l) == {l.nodes[i].createdAt : i \in Live(l)}

\* The element of the last node, the dummy head's of an empty list.
LastCreatedAt(l) == IF l.nodes = <<>> THEN InitialTicket ELSE l.nodes[Len(l.nodes)].createdAt

\* The element before the given one that is not removed, or the dummy head.
FindPrevCreatedAt(l, t) ==
    LET before == {i \in Live(l) : i < IndexOf(l, t)}
    IN  IF before = {}
        THEN InitialTicket
        ELSE l.nodes[CHOOSE i \in before : \A j \in before : j <= i].createdAt

\* A mutant of FindNextBeforeExecutedAt: the new node comes right after prev.
FindPrevOnly(l, prev, at) == IndexOf(l, prev)

\* The place to insert after: behind prev, and behind the nodes that follow it
\* and were positioned later.
FindNextBeforeExecutedAt(l, prev, at) ==
    CHOOSE i \in IndexOf(l, prev) .. Len(l.nodes) :
        /\ i < Len(l.nodes) => PositionedAt(l.nodes[i + 1]) <= at
        /\ \A j \in (IndexOf(l, prev) + 1) .. i : PositionedAt(l.nodes[j]) > at

\* insertAfter of the given node; the size grows even if the node is removed.
InsertAfter(l, prev, node, at) ==
    LET i == FindNextBeforeExecutedAt(l, prev, at)
    IN  [nodes |-> SubSeq(l.nodes, 1, i) \o <<node>> \o SubSeq(l.nodes, i + 1, Len(l.nodes)),
         size |-> l.size + 1]

\* release: the node is unlinked.
Release(l, t) ==
    LET i == IndexOf(l, t)
    IN  [nodes |-> SubSeq(l.nodes, 1, i - 1) \o SubSeq(l.nodes, i + 1, Len(l.nodes)),
         size |-> IF IsRemoved(l.nodes[i]) THEN l.size ELSE l.size - 1]

\* Element.Remove and DeleteByCreatedAt: the latest removal is kept.
DeleteByCreatedAt(l, t, at) ==
    LET i == IndexOf(l, t)
    IN  IF at > t /\ (~IsRemoved(l.nodes[i]) \/ at > l.nodes[i].removedAt)
        THEN [nodes |-> [l.nodes EXCEPT ![i].removedAt = at], size |-> l.size - 1]
        ELSE l

\* A mutant of Moves: the move received last is kept.
MovesAlways(l, t, at) == TRUE

\* Whether MoveAfter moves: the latest move is kept.
Moves(l, t, at) ==
    LET n == l.nodes[IndexOf(l, t)]
    IN  n.movedAt = Nil \/ at > n.movedAt

MoveAfter(l, prev, t, at) ==
    IF Moves(l, t, at)
    THEN InsertAfter(Release(l, t), prev, [l.nodes[IndexOf(l, t)] EXCEPT !.movedAt = at], at)
    ELSE l

\* toJSONArray and fromJSONArray: every node is kept and added at the end, and
\* the size counts it, removed or not.
DecodedList(l) == [l EXCEPT !.size = Len(l.nodes)]

\* Root.GarbageCollect with purge: the nodes removed at or before the ticket go.
PurgeRemoved(l, ticket) ==
    LET Purged(n) == IsRemoved(n) /\ n.removedAt <= ticket
    IN  IF \E i \in DOMAIN l.nodes : Purged(l.nodes[i])
        THEN [l EXCEPT !.nodes = SelectSeq(@, LAMBDA n : ~Purged(n))]
        ELSE l
=============================================================================
