----------------------------- MODULE TreeByIndex -----------------------------
(***************************************************************************)
(* The splay tree beside the linked list of a text or an array, with which *)
(* RGATreeSplit (treeByIndex) and RGATreeList (nodeMapByIndex) find the    *)
(* node at an index; the modules of these names take for granted that it   *)
(* finds what the list says.  Here the tree is kept as the code keeps it,  *)
(* through any sequence of insertions, splits, removals, moves and purges. *)
(*                                                                         *)
(* A block is its id, and its own splay node.  A content inserted with id  *)
(* k may be split, and its part from offset o on has the id k + o, so that *)
(* ids are ordered by creation and offset; the ids of the contents are     *)
(* Width apart.                                                            *)
(***************************************************************************)
EXTENDS SplayTree, FiniteSetsExt

CONSTANTS
    Contents,   \* bound on the contents that are inserted
    Width,      \* the greatest length of a content
    MaxBlocks,  \* bound on the blocks that are in the list at once
    MaxRemoved  \* bound on the removed blocks that are not purged yet

ASSUME ContentsAssumption == Contents \in Nat
ASSUME WidthAssumption == Width \in Nat \ {0}
ASSUME BoundsAssumption == {MaxBlocks, MaxRemoved} \subseteq Nat
ASSUME NodesAssumption == Nodes = 0 .. (Contents * Width) /\ Nil \notin Nodes

VARIABLES
    kind,       \* what the tree belongs to
    list,       \* the blocks in the order of the linked list, the head first
    content,    \* contentLen of the blocks
    removed,    \* the blocks with a removedAt
    made,       \* the contents inserted so far, also those purged since
    index       \* treeByIndex, nodeMapByIndex

vars == <<kind, list, content, removed, made, index>>

Head0 == 0

\* The id of a content.
IdOf(k) == (k - 1) * Width + 1

-----------------------------------------------------------------------------
Blocks == {list[i] : i \in DOMAIN list}
PlaceOf(l, b) == CHOOSE i \in DOMAIN l : l[i] = b

\* Len of every block, given the contents and the removals.
Lens(contents, gone) == [b \in Nodes |-> IF b \in gone THEN 0 ELSE contents[b]]

ListInsert(l, prev, b) ==
    SubSeq(l, 1, PlaceOf(l, prev)) \o <<b>> \o SubSeq(l, PlaceOf(l, prev) + 1, Len(l))
ListRemove(l, b) == SubSeq(l, 1, PlaceOf(l, b) - 1) \o SubSeq(l, PlaceOf(l, b) + 1, Len(l))

\* NewRGATreeSplit, NewRGATreeList: the dummy head of a list counts as removed.
Init ==
    /\ kind \in {"text", "array"}
    /\ list = <<Head0>>
    /\ content = [b \in Nodes |-> 0]
    /\ removed = {}
    /\ made = {}
    /\ index = NewTree(Head0)

\* InsertAfter of a block b after prev, with the contents cs from then on.
Place(prev, b, cs) ==
    /\ Len(list) < MaxBlocks
    /\ list' = ListInsert(list, prev, b)
    /\ content' = cs
    /\ index' = InsertAfter(index, Lens(cs, removed), prev, b)
    /\ UNCHANGED <<kind, removed>>

\* edit inserts a content, insertAfter an element; which node becomes prev is
\* a matter of tickets, and ids arrive in any order.
Insert(prev, k, len) ==
    /\ k \notin made
    /\ kind = "array" => len = 1
    /\ made' = made \cup {k}
    /\ Place(prev, IdOf(k), [content EXCEPT ![IdOf(k)] = len])

\* splitNode: the right part is inserted behind the left one.  The left one
\* may be removed; the right one is not.
Split(b, at) ==
    /\ kind = "text"
    /\ at < content[b]
    /\ Place(b, b + at, [content EXCEPT ![b] = at, ![b + at] = content[b] - at])
    /\ UNCHANGED made

\* A mutant of Remove: the node is not splayed.
RemoveInPlace(b) ==
    /\ b # Head0
    /\ Cardinality(removed \cup {b}) <= MaxRemoved
    /\ removed' = removed \cup {b}
    /\ UNCHANGED <<kind, list, content, made, index>>

\* deleteNodes, DeleteByCreatedAt: the length is gone first, then the node is
\* splayed, also when it was removed before.
Remove(b) ==
    /\ b # Head0
    /\ Cardinality(removed \cup {b}) <= MaxRemoved
    /\ removed' = removed \cup {b}
    /\ index' = Splay(index, Lens(content, removed'), b)
    /\ UNCHANGED <<kind, list, content, made>>

\* cleanupRemovedNodes and purge.
Purge(b) ==
    /\ b \in removed
    /\ list' = ListRemove(list, b)
    /\ index' = Delete(index, Lens(content, removed), b)
    /\ removed' = removed \ {b}
    /\ content' = [content EXCEPT ![b] = 0]
    /\ UNCHANGED <<kind, made>>

\* MoveAfter: release, and insertAfter with a new node for the element.
MoveAfter(prev, b) ==
    /\ kind = "array"
    /\ b \notin {Head0, prev}
    /\ list' = ListInsert(ListRemove(list, b), prev, b)
    /\ LET now == Lens(content, removed)
       IN  index' = InsertAfter(Delete(index, now, b), now, prev, b)
    /\ UNCHANGED <<kind, content, removed, made>>

Next ==
    \/ \E prev \in Blocks, k \in 1 .. Contents, len \in 1 .. Width : Insert(prev, k, len)
    \/ \E b \in Blocks, at \in 1 .. (Width - 1) : Split(b, at)
    \/ \E b \in Blocks : Remove(b)
    \/ \E b \in Blocks : Purge(b)
    \/ \E prev, b \in Blocks : MoveAfter(prev, b)

Spec == Init /\ [][Next]_vars

-----------------------------------------------------------------------------
(***************************************************************************)
(* Properties                                                              *)
(***************************************************************************)
lens == Lens(content, removed)

\* The length of the first blocks of a list.
LengthUpTo(l, len, i) ==
    LET length[j \in 0 .. i] == IF j = 0 THEN 0 ELSE length[j - 1] + len[l[j]]
    IN  length[i]

\* The splay tree holds the linked list in its order, and its pointers up are
\* those down, whatever rotations, insertions and deletions came before.
IndexIsList ==
    /\ InOrder(index, index.root) = list
    /\ index.parent[index.root] = Nil
    /\ \A b \in Nodes, s \in Sides :
        index.child[s][b] # Nil => b \in Blocks /\ index.parent[index.child[s][b]] = b

\* Every weight below the root is the length of its node and of the subtrees under
\* it; removals and splits change lengths anywhere in the tree and repair the
\* weights by splaying.  The weight of the root is not read before it is no longer
\* root.
WeightsSummed ==
    \A b \in Blocks \ {index.root} :
        index.weight[b] = lens[b] + Weight(index, index.child["left"][b])
                                  + Weight(index, index.child["right"][b])

\* findNodePos: every index of the text is found in the first block that
\* reaches it, as FindNodePos of module RGATreeSplit has it, and never fails.
FindIsFirst ==
    \A i \in 0 .. LengthUpTo(list, lens, Len(list)) :
        LET place == Min({j \in DOMAIN list : LengthUpTo(list, lens, j) >= i})
        IN  /\ Find(index, lens, i) = <<list[place], i - LengthUpTo(list, lens, place - 1)>>
            /\ ~FindFails(lens, Find(index, lens, i))

\* RGATreeList.Get: from what Find returns to the next node that is not removed.
Live == {i \in DOMAIN list : list[i] \notin removed \cup {Head0}}
NextLive(b) == list[Min({i \in Live : i > PlaceOf(list, b)})]
Get(i) ==
    LET found == Find(index, lens, i)
    IN  IF (i = 0 /\ found[1] = Head0) \/ found[2] > 0 THEN NextLive(found[1]) ELSE found[1]

\* Get of every index below the length is the element at that index.
GetIsNth ==
    kind = "array" =>
        \A place \in Live :
            Get(Cardinality({j \in Live : j < place})) = list[place]
=============================================================================
