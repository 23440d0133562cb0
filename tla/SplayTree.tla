------------------------------ MODULE SplayTree ------------------------------
(***************************************************************************)
(* splay.Tree: the weighted splay tree with which RGATreeSplit and         *)
(* RGATreeList find the node at an index.  The nodes are linked by         *)
(* pointers in both directions; the weight of a node is the sum of the     *)
(* lengths in its subtree and is repaired along the way, never summed up   *)
(* again.  len is the length of every node's value at the moment.          *)
(***************************************************************************)
EXTENDS Integers, Sequences, FiniteSets

CONSTANTS
    Nodes,      \* the splay nodes
    Nil         \* the nil pointer

Sides == {"left", "right"}
Other(side) == IF side = "left" THEN "right" ELSE "left"

Tree == [root : Nodes \cup {Nil},
         child : [Sides -> [Nodes -> Nodes \cup {Nil}]],
         parent : [Nodes -> Nodes \cup {Nil}],
         weight : [Nodes -> Nat]]

Weight(t, n) == IF n = Nil THEN 0 ELSE t.weight[n]
LeftWeight(t, n) == Weight(t, t.child["left"][n])

\* NewTree with the node of the head, which has no content.
NewTree(head) ==
    [root |-> head, child |-> [s \in Sides |-> [n \in Nodes |-> Nil]],
     parent |-> [n \in Nodes |-> Nil], weight |-> [n \in Nodes |-> 0]]

\* UpdateSubtree: the weight from the value and the children.
UpdateSubtree(t, len, n) ==
    [t EXCEPT !.weight[n] = len[n] + Weight(t, t.child["left"][n]) + Weight(t, t.child["right"][n])]

\* Parent pointers follow child pointers; there is none to follow from Nil.
SetParent(t, n, p) == IF n = Nil THEN t ELSE [t EXCEPT !.parent[n] = p]

\* isLeftChild and isRightChild.
IsChild(t, n, side) == n # Nil /\ t.parent[n] # Nil /\ t.child[side][t.parent[n]] = n

\* A mutant of Rotate: the weight of the node that goes down is left as it was.
RotateForgetting(t, len, pivot, side) ==
    LET root == t.parent[pivot]
        up == t.parent[root]
        inner == t.child[Other(side)][pivot]
        linked == [t EXCEPT !.child[side][root] = inner, !.child[Other(side)][pivot] = root,
                            !.parent[pivot] = up, !.parent[root] = pivot]
        above == IF up = Nil
                 THEN [linked EXCEPT !.root = pivot]
                 ELSE [linked EXCEPT !.child[IF t.child["left"][up] = root THEN "left" ELSE "right"][up] = pivot]
    IN  UpdateSubtree(SetParent(above, inner, root), len, pivot)

\* rotateLeft of a right child, rotateRight of a left child.
Rotate(t, len, pivot, side) ==
    LET root == t.parent[pivot]
        up == t.parent[root]
        inner == t.child[Other(side)][pivot]
        linked == [t EXCEPT !.child[side][root] = inner, !.child[Other(side)][pivot] = root,
                            !.parent[pivot] = up, !.parent[root] = pivot]
        above == IF up = Nil
                 THEN [linked EXCEPT !.root = pivot]
                 ELSE [linked EXCEPT !.child[IF t.child["left"][up] = root THEN "left" ELSE "right"][up] = pivot]
    IN  UpdateSubtree(UpdateSubtree(SetParent(above, inner, root), len, root), len, pivot)

\* An iteration of Splay: zig-zag, zig-zig, zig, or nothing at the root.
SplayStep(t, len, n) ==
    IF \A side \in Sides : ~IsChild(t, n, side)
    THEN t
    ELSE LET p == t.parent[n]
             side == CHOOSE s \in Sides : IsChild(t, n, s)
         IN  IF IsChild(t, p, Other(side))
             THEN Rotate(Rotate(t, len, n, side), len, n, Other(side))
             ELSE IF IsChild(t, p, side)
                  THEN Rotate(Rotate(t, len, p, side), len, n, side)
                  ELSE Rotate(t, len, n, side)

\* The loops of the code go up or down the tree, where no path is longer than the
\* number of nodes; once at its end they stay there.
Depth == Cardinality(Nodes)

\* Splay: the node goes to the root.
Splay(t, len, n) ==
    LET splayed[k \in 0 .. Depth] ==
            IF k = 0 THEN t ELSE SplayStep(splayed[k - 1], len, n)
    IN  splayed[Depth]

\* A mutant of InsertAfter: what was on the right of prev is not taken over.
InsertAfterLosing(t, len, prev, n) ==
    LET s == Splay(t, len, prev)
        linked == [s EXCEPT !.root = n, !.child["left"][n] = prev, !.parent[prev] = n,
                            !.child["right"][prev] = Nil]
    IN  UpdateSubtree(UpdateSubtree(linked, len, prev), len, n)

\* InsertAfter: the new node becomes the root, between prev and what follows it.
InsertAfter(t, len, prev, n) ==
    LET s == Splay(t, len, prev)
        right == s.child["right"][prev]
        linked == [s EXCEPT !.root = n,
                            !.child["right"][n] = right, !.child["left"][n] = prev,
                            !.parent[prev] = n, !.child["right"][prev] = Nil]
    IN  UpdateSubtree(UpdateSubtree(SetParent(linked, right, n), len, prev), len, n)

\* maximum, of the subtree of a node.
MaximumStep(t, n) == IF t.child["right"][n] = Nil THEN n ELSE t.child["right"][n]
Maximum(t, n) ==
    LET last[k \in 0 .. Depth] == IF k = 0 THEN n ELSE MaximumStep(t, last[k - 1])
    IN  last[Depth]

Unlink(t, n) == [t EXCEPT !.child["left"][n] = Nil, !.child["right"][n] = Nil, !.parent[n] = Nil]

\* Delete: the maximum of the left subtree becomes the root, with the right
\* subtree on its right.
Delete(t, len, n) ==
    LET s == Splay(t, len, n)
        left == s.child["left"][n]
        right == s.child["right"][n]
        cut == SetParent(SetParent(s, left, Nil), right, Nil)
        leftTree == Splay([cut EXCEPT !.root = left], len, Maximum(cut, left))
        joined == SetParent([leftTree EXCEPT !.child["right"][leftTree.root] = right], right, leftTree.root)
        all == Unlink(IF left = Nil THEN [cut EXCEPT !.root = right] ELSE joined, n)
    IN  IF all.root = Nil THEN all ELSE UpdateSubtree(all, len, all.root)

\* An iteration of Find: a node and the offset behind where its subtree begins.
FindStep(t, len, at) ==
    LET n == at[1]
        offset == at[2]
        left == t.child["left"][n]
        right == t.child["right"][n]
        upTo == LeftWeight(t, n) + len[n]
    IN  IF left # Nil /\ offset <= LeftWeight(t, n)
        THEN <<left, offset>>
        ELSE IF right # Nil /\ upTo < offset
             THEN <<right, offset - upTo>>
             ELSE at

\* Find: the node the index is in, and the offset in it.
Find(t, len, index) ==
    LET at[k \in 0 .. Depth] ==
            IF k = 0 THEN <<t.root, index>> ELSE FindStep(t, len, at[k - 1])
        found == at[Depth]
    IN  <<found[1], found[2] - LeftWeight(t, found[1])>>

\* Find calls log.Logger.Fatalf for an offset beyond the node it has found.
FindFails(len, found) == found[2] > len[found[1]]

\* traverseInOrder: the nodes below every node, one level deeper than before.
WalkStep(t, walk) ==
    [m \in Nodes \cup {Nil} |->
        IF m = Nil
        THEN <<>>
        ELSE walk[t.child["left"][m]] \o <<m>> \o walk[t.child["right"][m]]]
InOrder(t, n) ==
    LET walk[k \in 0 .. Depth] ==
            IF k = 0 THEN [m \in Nodes \cup {Nil} |-> <<>>] ELSE WalkStep(t, walk[k - 1])
    IN  walk[Depth][n]
=============================================================================
