------------------------------ MODULE LLRBTree ------------------------------
(***************************************************************************)
(* llrb.Tree: the left-leaning red-black tree with which RGATreeSplit      *)
(* finds the block of an id.  A tree is the value of its root, and the     *)
(* functions of the code that return the new top of a subtree return it    *)
(* here.  The parent pointers are written and read by Floor alone, on its  *)
(* way down, so that they are the path Floor has come.                     *)
(***************************************************************************)
EXTENDS Integers, Sequences

NilTree == [red |-> FALSE]
NewNode(k, v) == [key |-> k, value |-> v, red |-> TRUE, left |-> NilTree, right |-> NilTree]

IsRed(n) == n.red

RotateLeft(n) ==
    [n.right EXCEPT !.left = [n EXCEPT !.right = n.right.left, !.red = TRUE], !.red = n.red]
RotateRight(n) ==
    [n.left EXCEPT !.right = [n EXCEPT !.left = n.left.right, !.red = TRUE], !.red = n.red]

\* flipColors reads both children, which panics on nil.
FlipColors(n) ==
    IF n.left = NilTree \/ n.right = NilTree
    THEN NilTree
    ELSE [n EXCEPT !.red = ~@, !.left.red = ~@, !.right.red = ~@]

\* The three repairs at the end of put, of which fixUp shares two.
LeanLeft(n, leaning) == IF leaning THEN RotateLeft(n) ELSE n
BreakReds(n) == IF IsRed(n.left) /\ IsRed(n.left.left) THEN RotateRight(n) ELSE n
SplitFour(n) == IF IsRed(n.left) /\ IsRed(n.right) THEN FlipColors(n) ELSE n

\* put, below the root.
RECURSIVE PutBelow(_, _, _)
PutBelow(n, k, v) ==
    IF n = NilTree
    THEN NewNode(k, v)
    ELSE LET m == IF k < n.key THEN [n EXCEPT !.left = PutBelow(@, k, v)]
                  ELSE IF k > n.key THEN [n EXCEPT !.right = PutBelow(@, k, v)]
                  ELSE [n EXCEPT !.value = v]
         IN  SplitFour(BreakReds(LeanLeft(m, IsRed(m.right) /\ ~IsRed(m.left))))

\* Put: the root is black.
Put(t, k, v) == [PutBelow(t, k, v) EXCEPT !.red = FALSE]

\* A mutant of FixUp: a red right child is left where it is.
FixUpNotLeaning(n) == SplitFour(BreakReds(n))

FixUp(n) == SplitFour(BreakReds(LeanLeft(n, IsRed(n.right))))

\* A red link is moved down to the side the removal goes to.
MoveRedLeft(n) ==
    LET f == FlipColors(n)
    IN  IF IsRed(f.right.left)
        THEN FlipColors(RotateLeft([f EXCEPT !.right = RotateRight(@)]))
        ELSE f
MoveRedRight(n) ==
    LET f == FlipColors(n)
    IN  IF IsRed(f.left.left) THEN FlipColors(RotateRight(f)) ELSE f

RECURSIVE MinNode(_)
MinNode(n) == IF n.left = NilTree THEN n ELSE MinNode(n.left)

RECURSIVE RemoveMin(_)
RemoveMin(n) ==
    IF n.left = NilTree
    THEN NilTree
    ELSE LET m == IF ~IsRed(n.left) /\ ~IsRed(n.left.left) THEN MoveRedLeft(n) ELSE n
         IN  FixUp([m EXCEPT !.left = RemoveMin(@)])

\* A mutant of Replace: the smallest node gives its key but not its value.
ReplaceKeyOnly(n) ==
    [n EXCEPT !.key = MinNode(n.right).key, !.right = RemoveMin(@)]

\* The node of the removed key takes the key and the value of the next one.
Replace(n) ==
    LET smallest == MinNode(n.right)
    IN  [n EXCEPT !.key = smallest.key, !.value = smallest.value, !.right = RemoveMin(@)]

\* remove, below the root.
RECURSIVE RemoveBelow(_, _)
RemoveBelow(n, k) ==
    IF k < n.key
    THEN LET m == IF ~IsRed(n.left) /\ ~IsRed(n.left.left) THEN MoveRedLeft(n) ELSE n
         IN  FixUp([m EXCEPT !.left = RemoveBelow(@, k)])
    ELSE LET r == IF IsRed(n.left) THEN RotateRight(n) ELSE n
         IN  IF k = r.key /\ r.right = NilTree
             THEN NilTree
             ELSE LET m == IF ~IsRed(r.right) /\ ~IsRed(r.right.left) THEN MoveRedRight(r) ELSE r
                  IN  FixUp(IF k = m.key THEN Replace(m) ELSE [m EXCEPT !.right = RemoveBelow(@, k)])

\* Remove, of a key that is in the tree: the root is red on the way down and
\* black in the end.
Remove(t, k) ==
    LET top == IF ~IsRed(t.left) /\ ~IsRed(t.right) THEN [t EXCEPT !.red = TRUE] ELSE t
        rest == RemoveBelow(top, k)
    IN  IF rest = NilTree THEN NilTree ELSE [rest EXCEPT !.red = FALSE]

\* Floor, from a node on: path holds its ancestors, the nearest first, with the
\* side on which Floor left them.  The way back up ends at the first ancestor
\* left to the right.  With none the code reads the parent of the root, which
\* is nil or stale: the result is none.
RECURSIVE FloorFrom(_, _, _)
FloorFrom(n, k, path) ==
    LET below == SelectSeq(path, LAMBDA step : step.side = "right")
        Step(side) == <<[node |-> n, side |-> side]>> \o path
    IN  IF k > n.key /\ n.right # NilTree THEN FloorFrom(n.right, k, Step("right"))
        ELSE IF k < n.key /\ n.left # NilTree THEN FloorFrom(n.left, k, Step("left"))
        ELSE IF k >= n.key THEN <<n.value>>
        ELSE IF below = <<>> THEN <<>> ELSE <<Head(below).node.value>>

Floor(t, k) == FloorFrom(t, k, <<>>)

\* traverseInOrder.
RECURSIVE InOrder(_)
InOrder(n) ==
    IF n = NilTree THEN <<>> ELSE InOrder(n.left) \o <<[key |-> n.key, value |-> n.value]>> \o InOrder(n.right)
=============================================================================
