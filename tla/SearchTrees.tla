----------------------------- MODULE SearchTrees -----------------------------
(***************************************************************************)
(* Both trees beside the linked list: TreeByIndex, and the red-black tree  *)
(* with which a text finds the block of an id (treeByID).  It needs more   *)
(* ids than a small text has before all its repairs are used, and is also  *)
(* taken alone, with no list beside it.                                    *)
(***************************************************************************)
EXTENDS TreeByIndex

CONSTANT MaxKey     \* bound on the ids of the tree that is taken alone

ASSUME MaxKeyAssumption == MaxKey \in Nat

VARIABLES
    alone,      \* there is only treeByID
    keys,       \* the ids of the blocks
    ids         \* treeByID

Llrb == INSTANCE LLRBTree

TreesInit ==
    /\ Init
    /\ alone \in BOOLEAN
    /\ alone => kind = "text"
    /\ keys = {Head0}
    /\ ids = Llrb!Put(Llrb!NilTree, Head0, Head0)

\* An array has no treeByID.
PutId(b) ==
    /\ keys' = IF kind = "array" THEN keys ELSE keys \cup {b}
    /\ ids' = IF kind = "array" THEN ids ELSE Llrb!Put(ids, b, b)
    /\ UNCHANGED alone

RemoveId(b) ==
    /\ keys' = keys \ {b}
    /\ ids' = IF kind = "array" THEN ids ELSE Llrb!Remove(ids, b)
    /\ UNCHANGED alone

\* A block enters or leaves both trees.
InsertBoth(prev, k, len) == Insert(prev, k, len) /\ PutId(IdOf(k))
SplitBoth(b, at) == Split(b, at) /\ PutId(b + at)
PurgeBoth(b) == Purge(b) /\ RemoveId(b)

\* treeByID alone.
PutAlone(k) == k \notin keys /\ PutId(k) /\ UNCHANGED vars
RemoveAlone(k) == k \in keys \ {Head0} /\ RemoveId(k) /\ UNCHANGED vars

TreesNext ==
    \/ alone /\ \E k \in 1 .. MaxKey : PutAlone(k) \/ RemoveAlone(k)
    \/ /\ ~alone
       /\ \/ \E prev \in Blocks, k \in 1 .. Contents, len \in 1 .. Width : InsertBoth(prev, k, len)
          \/ \E b \in Blocks, at \in 1 .. (Width - 1) : SplitBoth(b, at)
          \/ \E b \in Blocks : PurgeBoth(b)
          \/ (\E b \in Blocks : Remove(b)) /\ UNCHANGED <<alone, keys, ids>>
          \/ (\E prev, b \in Blocks : MoveAfter(prev, b)) /\ UNCHANGED <<alone, keys, ids>>

TreesSpec == TreesInit /\ [][TreesNext]_<<vars, alone, keys, ids>>

-----------------------------------------------------------------------------
(***************************************************************************)
(* Properties                                                              *)
(***************************************************************************)

\* The invariants the source states of llrb.Tree: no red node has a red child,
\* every path has as many black nodes, only left children are red; and the tree
\* holds the ids of the blocks in their order, each with its block.
RECURSIVE BlackHeights(_)
BlackHeights(n) ==
    IF n = Llrb!NilTree
    THEN {0}
    ELSE {h + (IF n.red THEN 0 ELSE 1) : h \in BlackHeights(n.left) \cup BlackHeights(n.right)}

RECURSIVE LeftLeaning(_)
LeftLeaning(n) ==
    n # Llrb!NilTree =>
        /\ ~Llrb!IsRed(n.right)
        /\ Llrb!IsRed(n) => ~Llrb!IsRed(n.left)
        /\ LeftLeaning(n.left)
        /\ LeftLeaning(n.right)

IdsBalanced ==
    /\ Cardinality(BlackHeights(ids)) = 1
    /\ LeftLeaning(ids)
    /\ Llrb!InOrder(ids) = [i \in 1 .. Cardinality(keys) |->
            LET k == CHOOSE x \in keys : Cardinality({y \in keys : y < x}) = i - 1
            IN  [key |-> k, value |-> k]]

\* FindNode and findFloorNode: the block of any id is the one with the greatest
\* id up to it, after any splits, purges and rotations.
FloorIsGreatest ==
    kind # "array" =>
        \A k \in 0 .. (MaxKey + 1) : Llrb!Floor(ids, k) = <<Max({b \in keys : b <= k})>>
=============================================================================
