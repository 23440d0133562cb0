----------------------------- MODULE TreeProofs -----------------------------
(***************************************************************************)
(* Proofs about the splay tree of TreeByIndex, for any number of blocks:   *)
(* through rotations, insertions and deletions it holds the list in its    *)
(* order, its weights are right below the root, and every index is found.  *)
(***************************************************************************)
EXTENDS TreeByIndex, TLAPS, WellFoundedInduction, FiniteSetTheorems, SequenceTheorems

-----------------------------------------------------------------------------
(***************************************************************************)
(* Induction and loops                                                     *)
(***************************************************************************)

\* A set of numbers that is not empty has a smallest.
LEMMA LeastNatural ==
    ASSUME NEW T, T \subseteq Nat, T # {}
    PROVE  \E m \in T : \A n \in T : m <= n
<1> DEFINE R == OpToRel(<, Nat)
<1>1. IsWellFoundedOn(R, Nat)
    BY NatLessThanWellFounded
<1>2. \A x, y \in Nat : <<y, x>> \in R <=> y < x
    BY DEF OpToRel
<1> HIDE DEF R
<1>3. \E x \in T : \A y \in T : ~(<<y, x>> \in R)
    BY <1>1, WFMin
<1>4. PICK x \in T : \A y \in T : ~(<<y, x>> \in R)
    BY <1>3
<1>5. \A y \in T : ~(y < x)
    BY <1>2, <1>4
<1>6. \A y \in T : x <= y
    BY <1>5
<1> QED BY <1>6

\* Induction up to a bound.
LEMMA BoundedInduction ==
    ASSUME NEW n \in Nat, NEW T, 0 \in T, \A i \in 1 .. n : i - 1 \in T => i \in T
    PROVE  \A i \in 0 .. n : i \in T
<1> DEFINE B == {i \in 0 .. n : i \notin T}
<1> SUFFICES ASSUME B # {} PROVE FALSE
    OBVIOUS
<1>1. B \subseteq Nat
    OBVIOUS
<1>2. PICK m \in B : \A i \in B : m <= i
    BY <1>1, LeastNatural
<1>3. m \in 1 .. n /\ m - 1 \in 0 .. n
    BY <1>2
<1>4. m - 1 \in T
    BY <1>2, <1>3
<1> QED BY <1>2, <1>3, <1>4

\* The iterations of a loop: where it begins, and what an iteration makes of a state.
Loops(f, n, a, F) == f = [k \in 0 .. n |-> IF k = 0 THEN a ELSE F[f[k - 1]]]

LEMMA LoopsExist ==
    ASSUME NEW n \in Nat, NEW a, NEW F
    PROVE  \E f : Loops(f, n, a, F)
<1> DEFINE T == {m \in Nat : \E f : Loops(f, m, a, F)}
<1>1. 0 \in T
    <2> DEFINE g == [k \in 0 .. 0 |-> a]
    <2>1. Loops(g, 0, a, F)
        BY DEF Loops
    <2> QED BY <2>1
<1>2. ASSUME NEW m \in 1 .. n, m - 1 \in T
      PROVE  m \in T
    <2>1. PICK f : Loops(f, m - 1, a, F)
        BY <1>2
    <2> DEFINE Step(x, k) == IF k = 0 THEN a ELSE F[x[k - 1]]
               g == [k \in 0 .. m |-> Step(f, k)]
    <2>2. \A k \in 0 .. (m - 1) : f[k] = Step(f, k) /\ g[k] = Step(f, k)
        <3>1. f = [k \in 0 .. (m - 1) |-> Step(f, k)]
            BY <2>1 DEF Loops
        <3> HIDE DEF Step
        <3> QED BY <1>2, <3>1
    <2>3. \A k \in 0 .. m : k # 0 => k - 1 \in 0 .. (m - 1)
        BY <1>2
    <2>4. \A k \in 0 .. m : Step(g, k) = Step(f, k)
        <3> HIDE DEF g
        <3> QED BY <2>2, <2>3
    <2>5. g = [k \in 0 .. m |-> Step(g, k)]
        <3> HIDE DEF Step
        <3> QED BY <2>4
    <2>6. Loops(g, m, a, F)
        <3> HIDE DEF g
        <3> QED BY <2>5 DEF Loops
    <2>7. m \in Nat
        BY <1>2
    <2> QED BY <2>6, <2>7
<1> HIDE DEF T
<1>3. \A i \in 0 .. n : i \in T
    BY <1>1, <1>2, BoundedInduction
<1>4. n \in T
    BY <1>3
<1> QED BY <1>4 DEF T

LEMMA LoopFacts ==
    ASSUME NEW n \in Nat, NEW a, NEW F, NEW f, Loops(f, n, a, F)
    PROVE  f[0] = a /\ \A k \in 1 .. n : f[k] = F[f[k - 1]]
<1>1. \A k \in 0 .. n : f[k] = IF k = 0 THEN a ELSE F[f[k - 1]]
    BY DEF Loops
<1> QED BY <1>1

\* A loop stays in a set that no iteration leaves.
LEMMA LoopStays ==
    ASSUME NEW n \in Nat, NEW a, NEW F, NEW f, Loops(f, n, a, F),
           NEW U, a \in U, \A u \in U : F[u] \in U
    PROVE  \A k \in 0 .. n : f[k] \in U
<1> DEFINE T == {k \in 0 .. n : f[k] \in U}
<1>1. f[0] = a /\ \A k \in 1 .. n : f[k] = F[f[k - 1]]
    BY LoopFacts
<1>2. 0 \in T
    BY <1>1
<1>3. ASSUME NEW i \in 1 .. n, i - 1 \in T
      PROVE  i \in T
    BY <1>1, <1>3
<1> HIDE DEF T
<1>4. \A i \in 0 .. n : i \in T
    BY <1>2, <1>3, BoundedInduction
<1> QED BY <1>4 DEF T

\* A loop that comes one step nearer with every iteration.
LEMMA LoopReaches ==
    ASSUME NEW n \in Nat, NEW f, NEW S, f[0] \in S[0],
           \A k \in 1 .. n : f[k - 1] \in S[k - 1] => f[k] \in S[k]
    PROVE  f[n] \in S[n]
<1> DEFINE T == {k \in 0 .. n : f[k] \in S[k]}
<1>1. 0 \in T
    OBVIOUS
<1>2. \A k \in 1 .. n : k - 1 \in T => k \in T
    OBVIOUS
<1> HIDE DEF T
<1>3. \A k \in 0 .. n : k \in T
    BY <1>1, <1>2, BoundedInduction
<1> QED BY <1>3 DEF T

-----------------------------------------------------------------------------
(***************************************************************************)
(* What a rotation changes                                                 *)
(***************************************************************************)

Kid(t, s, b) == t.child[s][b]
Up(t, b) == t.parent[b]
Heavy(t, b) == t.weight[b]
Top(t) == t.root

\* The weight of a node is right.
Sums(t, len, b) ==
    Heavy(t, b) = len[b] + Weight(t, Kid(t, "left", b)) + Weight(t, Kid(t, "right", b))

LEMMA SideFacts ==
    ASSUME NEW s \in Sides
    PROVE  /\ Other(s) \in Sides /\ Other(s) # s /\ Other(Other(s)) = s
           /\ \A r \in Sides : r = s \/ r = Other(s)
BY DEF Sides, Other

LEMMA NilFacts == Nil \notin Nodes
BY NodesAssumption

LEMMA TreeType ==
    ASSUME NEW t \in Tree
    PROVE  /\ Top(t) \in Nodes \cup {Nil}
           /\ \A b \in Nodes : /\ Up(t, b) \in Nodes \cup {Nil}
                               /\ Heavy(t, b) \in Nat
                               /\ \A s \in Sides : Kid(t, s, b) \in Nodes \cup {Nil}
BY DEF Tree, Top, Up, Heavy, Kid

LEMMA WeightType ==
    ASSUME NEW t \in Tree, NEW b \in Nodes \cup {Nil}
    PROVE  Weight(t, b) \in Nat
BY TreeType DEF Weight, Heavy

\* A change of one child pointer.
LEMMA ChildSet ==
    ASSUME NEW M, NEW f \in [Sides -> [Nodes -> M]], NEW s \in Sides, NEW b \in Nodes, NEW x \in M
    PROVE  /\ [f EXCEPT ![s][b] = x] \in [Sides -> [Nodes -> M]]
           /\ \A r \in Sides, c \in Nodes :
                [f EXCEPT ![s][b] = x][r][c] = IF r = s /\ c = b THEN x ELSE f[r][c]
<1> DEFINE g == [f[s] EXCEPT ![b] = x]
<1>1. f[s] \in [Nodes -> M]
    OBVIOUS
<1>2. g \in [Nodes -> M] /\ \A c \in Nodes : g[c] = IF c = b THEN x ELSE f[s][c]
    BY <1>1
<1>3. [f EXCEPT ![s][b] = x] = [f EXCEPT ![s] = g]
    BY <1>1
<1> HIDE DEF g
<1>4. [f EXCEPT ![s] = g] \in [Sides -> [Nodes -> M]]
    BY <1>2
<1>5. \A r \in Sides : [f EXCEPT ![s] = g][r] = IF r = s THEN g ELSE f[r]
    OBVIOUS
<1> QED BY <1>2, <1>3, <1>4, <1>5

\* What a rotation of pivot above its parent r does to the pointers and weights.
SideUnder(t, r, up) == IF Kid(t, "left", up) = r THEN "left" ELSE "right"
Rotated(t, v, len, r, pivot, side) ==
    /\ v \in Tree
    /\ Top(v) = IF Up(t, r) = Nil THEN pivot ELSE Top(t)
    /\ \A s \in Sides, b \in Nodes :
        Kid(v, s, b) = IF b = Up(t, r) /\ s = SideUnder(t, r, Up(t, r)) THEN pivot
                       ELSE IF b = pivot /\ s = Other(side) THEN r
                       ELSE IF b = r /\ s = side THEN Kid(t, Other(side), pivot)
                       ELSE Kid(t, s, b)
    /\ \A b \in Nodes :
        Up(v, b) = IF b = Kid(t, Other(side), pivot) THEN r
                   ELSE IF b = r THEN pivot
                   ELSE IF b = pivot THEN Up(t, r)
                   ELSE Up(t, b)
    /\ Sums(v, len, r)
    /\ \A b \in Nodes \ {r, pivot} : Heavy(v, b) = Heavy(t, b)

LEMMA UpdateFacts ==
    ASSUME NEW t \in Tree, NEW len \in [Nodes -> Nat], NEW b \in Nodes
    PROVE  LET v == UpdateSubtree(t, len, b)
           IN  /\ v \in Tree /\ v.root = t.root /\ v.child = t.child /\ v.parent = t.parent
               /\ \A c \in Nodes \ {b} : Heavy(v, c) = Heavy(t, c)
               /\ Heavy(v, b) = len[b] + Weight(t, Kid(t, "left", b)) + Weight(t, Kid(t, "right", b))
<1> DEFINE w == len[b] + Weight(t, t.child["left"][b]) + Weight(t, t.child["right"][b])
           v == [t EXCEPT !.weight[b] = w]
<1>1. w \in Nat
    <2>1. t.child["left"][b] \in Nodes \cup {Nil} /\ t.child["right"][b] \in Nodes \cup {Nil}
        BY TreeType DEF Kid, Sides
    <2> QED BY <2>1, WeightType
<1>2. UpdateSubtree(t, len, b) = v
    BY DEF UpdateSubtree
<1> HIDE DEF w
<1>3. /\ v \in Tree /\ v.root = t.root /\ v.child = t.child /\ v.parent = t.parent
      /\ \A c \in Nodes : v.weight[c] = IF c = b THEN w ELSE t.weight[c]
    BY <1>1 DEF Tree
<1> HIDE DEF v
<1> QED BY <1>2, <1>3 DEF Heavy, w, Kid

ParentSet(v, t, n, p) ==
    /\ v \in Tree /\ v.root = t.root /\ v.child = t.child /\ v.weight = t.weight
    /\ \A c \in Nodes : Up(v, c) = IF c = n THEN p ELSE Up(t, c)

LEMMA SetParentFacts ==
    ASSUME NEW t \in Tree, NEW n \in Nodes \cup {Nil}, NEW p \in Nodes \cup {Nil}
    PROVE  ParentSet(SetParent(t, n, p), t, n, p)
<1>1. CASE n = Nil
    BY <1>1, NilFacts DEF SetParent, Up, ParentSet
<1>2. CASE n # Nil
    <2> DEFINE v == [t EXCEPT !.parent[n] = p]
    <2>1. /\ v \in Tree /\ v.root = t.root /\ v.child = t.child /\ v.weight = t.weight
          /\ \A c \in Nodes : v.parent[c] = IF c = n THEN p ELSE t.parent[c]
        BY <1>2 DEF Tree
    <2>2. SetParent(t, n, p) = v
        BY <1>2 DEF SetParent
    <2> HIDE DEF v
    <2> QED BY <2>1, <2>2 DEF Up, ParentSet
<1> QED BY <1>1, <1>2

\* The first four assignments of a rotation, and the one above them.
Linked(t, r, pivot, side, inner, up) ==
    [t EXCEPT !.child[side][r] = inner, !.child[Other(side)][pivot] = r,
              !.parent[pivot] = up, !.parent[r] = pivot]
LinkedAbove(t, r, pivot, side, inner, up) ==
    IF up = Nil
    THEN [Linked(t, r, pivot, side, inner, up) EXCEPT !.root = pivot]
    ELSE [Linked(t, r, pivot, side, inner, up) EXCEPT
             !.child[IF t.child["left"][up] = r THEN "left" ELSE "right"][up] = pivot]

\* A change of one field.
LEMMA SetRoot ==
    ASSUME NEW t \in Tree, NEW b \in Nodes \cup {Nil}
    PROVE  LET v == [t EXCEPT !.root = b]
           IN  /\ v \in Tree /\ v.root = b
               /\ v.child = t.child /\ v.parent = t.parent /\ v.weight = t.weight
BY DEF Tree

LEMMA SetChild ==
    ASSUME NEW t \in Tree, NEW f \in [Sides -> [Nodes -> Nodes \cup {Nil}]]
    PROVE  LET v == [t EXCEPT !.child = f]
           IN  /\ v \in Tree /\ v.child = f
               /\ v.root = t.root /\ v.parent = t.parent /\ v.weight = t.weight
BY DEF Tree

LEMMA SetParents ==
    ASSUME NEW t \in Tree, NEW f \in [Nodes -> Nodes \cup {Nil}]
    PROVE  LET v == [t EXCEPT !.parent = f]
           IN  /\ v \in Tree /\ v.parent = f
               /\ v.root = t.root /\ v.child = t.child /\ v.weight = t.weight
BY DEF Tree

LinksRight(v, t, r, pivot, side, inner, up) ==
    /\ v \in Tree /\ v.root = t.root /\ v.weight = t.weight
    /\ \A s \in Sides, b \in Nodes :
        v.child[s][b] = IF b = pivot /\ s = Other(side) THEN r
                        ELSE IF b = r /\ s = side THEN inner
                        ELSE t.child[s][b]
    /\ \A b \in Nodes : v.parent[b] = IF b = r THEN pivot
                                      ELSE IF b = pivot THEN up
                                      ELSE t.parent[b]

LEMMA LinkedFacts ==
    ASSUME NEW t \in Tree, NEW r \in Nodes, NEW pivot \in Nodes, NEW side \in Sides,
           NEW inner \in Nodes \cup {Nil}, NEW up \in Nodes \cup {Nil}, r # pivot
    PROVE  LinksRight(Linked(t, r, pivot, side, inner, up), t, r, pivot, side, inner, up)
<1> DEFINE M == Nodes \cup {Nil}
           o == Other(side)
           f == [t.child EXCEPT ![side][r] = inner]
           g == [f EXCEPT ![o][pivot] = r]
           h == [[t.parent EXCEPT ![pivot] = up] EXCEPT ![r] = pivot]
<1>1. t.child \in [Sides -> [Nodes -> M]] /\ t.parent \in [Nodes -> M]
    BY DEF Tree
<1>o. o \in Sides
    BY SideFacts
<1>m. inner \in M /\ r \in M
    OBVIOUS
<1>2. /\ f \in [Sides -> [Nodes -> M]]
      /\ \A s \in Sides, b \in Nodes : f[s][b] = IF s = side /\ b = r THEN inner ELSE t.child[s][b]
    <2> HIDE DEF M
    <2> QED BY <1>1, <1>m, ChildSet
<1>3. /\ g \in [Sides -> [Nodes -> M]]
      /\ \A s \in Sides, b \in Nodes : g[s][b] = IF s = o /\ b = pivot THEN r ELSE f[s][b]
    <2> HIDE DEF M, f, o
    <2>1. f \in [Sides -> [Nodes -> M]]
        BY <1>2
    <2> QED BY <1>o, <1>m, <2>1, ChildSet
<1>4. /\ h \in [Nodes -> M]
      /\ \A b \in Nodes : h[b] = IF b = r THEN pivot ELSE IF b = pivot THEN up ELSE t.parent[b]
    BY <1>1
<1> DEFINE t1 == [t EXCEPT !.child = f]
           t2 == [t1 EXCEPT !.child = g]
           q == [t.parent EXCEPT ![pivot] = up]
           t3 == [t2 EXCEPT !.parent = q]
           v == [t3 EXCEPT !.parent = h]
<1>5. Linked(t, r, pivot, side, inner, up) = v
    BY DEF Linked, Tree
<1>6. q \in [Nodes -> M]
    BY <1>1
<1> HIDE DEF f, g, h, o, q
<1>7. t1 \in Tree /\ t1.root = t.root /\ t1.weight = t.weight
    BY <1>2, <1>4, SetChild
<1> HIDE DEF t1
<1>8. t2 \in Tree /\ t2.root = t.root /\ t2.weight = t.weight /\ t2.child = g
    BY <1>3, <1>7, SetChild
<1> HIDE DEF t2
<1>9. t3 \in Tree /\ t3.root = t.root /\ t3.weight = t.weight /\ t3.child = g
    BY <1>3, <1>6, <1>8, SetParents
<1> HIDE DEF t3
<1>10. v \in Tree /\ v.root = t.root /\ v.weight = t.weight /\ v.child = g /\ v.parent = h
    BY <1>3, <1>4, <1>9, SetParents
<1> HIDE DEF v
<1> QED BY <1>2, <1>3, <1>4, <1>5, <1>10 DEF o, LinksRight

LinksAbove(v, t, r, pivot, side, inner, up) ==
    /\ v \in Tree /\ v.weight = t.weight
    /\ v.root = IF up = Nil THEN pivot ELSE t.root
    /\ \A s \in Sides, b \in Nodes :
        v.child[s][b] = IF b = up /\ s = SideUnder(t, r, up) THEN pivot
                        ELSE IF b = pivot /\ s = Other(side) THEN r
                        ELSE IF b = r /\ s = side THEN inner
                        ELSE t.child[s][b]
    /\ \A b \in Nodes : v.parent[b] = IF b = r THEN pivot
                                      ELSE IF b = pivot THEN up
                                      ELSE t.parent[b]

LEMMA LinkedAboveFacts ==
    ASSUME NEW t \in Tree, NEW r \in Nodes, NEW pivot \in Nodes, NEW side \in Sides,
           NEW inner \in Nodes \cup {Nil}, NEW up \in Nodes \cup {Nil}, r # pivot
    PROVE  LinksAbove(LinkedAbove(t, r, pivot, side, inner, up), t, r, pivot, side, inner, up)
<1> DEFINE u == Linked(t, r, pivot, side, inner, up)
           v == LinkedAbove(t, r, pivot, side, inner, up)
           a == SideUnder(t, r, up)
           M == Nodes \cup {Nil}
           f == [u.child EXCEPT ![a][up] = pivot]
<1>1. LinksRight(u, t, r, pivot, side, inner, up)
    BY LinkedFacts
<1>2. v = IF up = Nil THEN [u EXCEPT !.root = pivot] ELSE [u EXCEPT !.child[a][up] = pivot]
    BY DEF LinkedAbove, SideUnder, Kid
<1>3. a \in Sides
    BY DEF SideUnder, Sides
<1> HIDE DEF u, v, a
<1>u. /\ u \in Tree /\ u.root = t.root /\ u.weight = t.weight
      /\ \A s \in Sides, b \in Nodes :
           u.child[s][b] = IF b = pivot /\ s = Other(side) THEN r
                           ELSE IF b = r /\ s = side THEN inner
                           ELSE t.child[s][b]
      /\ \A b \in Nodes : u.parent[b] = IF b = r THEN pivot
                                        ELSE IF b = pivot THEN up
                                        ELSE t.parent[b]
    BY <1>1 DEF LinksRight
<1>4. CASE up = Nil
    <2> DEFINE w == [u EXCEPT !.root = pivot]
    <2>1. w \in Tree /\ w.root = pivot /\ w.child = u.child /\ w.parent = u.parent /\ w.weight = u.weight
        BY <1>u, SetRoot
    <2> HIDE DEF w
    <2>2. v = w
        BY <1>2, <1>4 DEF w
    <2> QED BY <1>u, <1>4, <2>1, <2>2, NilFacts DEF v, a, LinksAbove
<1>5. CASE up # Nil
    <2>1. u.child \in [Sides -> [Nodes -> M]]
        BY <1>u DEF Tree
    <2>2. up \in Nodes /\ pivot \in M
        BY <1>5
    <2>3. /\ f \in [Sides -> [Nodes -> M]]
          /\ \A s \in Sides, b \in Nodes : f[s][b] = IF s = a /\ b = up THEN pivot ELSE u.child[s][b]
        <3> DEFINE y == u.child
        <3>1. y \in [Sides -> [Nodes -> M]]
            BY <2>1
        <3> HIDE DEF M, y
        <3>2. /\ [y EXCEPT ![a][up] = pivot] \in [Sides -> [Nodes -> M]]
              /\ \A s \in Sides, b \in Nodes :
                    [y EXCEPT ![a][up] = pivot][s][b] = IF s = a /\ b = up THEN pivot ELSE y[s][b]
            BY <1>3, <2>2, <3>1, ChildSet
        <3> QED BY <3>2 DEF y
    <2> DEFINE w == [u EXCEPT !.child = f]
    <2>4. v = w
        BY <1>u, <1>2, <1>5 DEF Tree
    <2> HIDE DEF f
    <2>5. w \in Tree /\ w.root = u.root /\ w.child = f /\ w.parent = u.parent /\ w.weight = u.weight
        BY <1>u, <2>3, SetChild
    <2> HIDE DEF w
    <2> QED BY <1>u, <1>5, <2>3, <2>4, <2>5 DEF v, a, LinksAbove
<1> QED BY <1>4, <1>5

LEMMA RotateFacts ==
    ASSUME NEW t \in Tree, NEW len \in [Nodes -> Nat], NEW pivot \in Nodes, NEW r \in Nodes,
           NEW side \in Sides, r = Up(t, pivot), Kid(t, side, r) = pivot, r # pivot,
           Kid(t, Other(side), r) \notin {r, pivot}, Kid(t, Other(side), pivot) \notin {r, pivot},
           Up(t, r) \notin {r, pivot}
    PROVE  Rotated(t, Rotate(t, len, pivot, side), len, r, pivot, side)
<1> DEFINE up == Up(t, r)
           o == Other(side)
           inner == Kid(t, o, pivot)
           above == LinkedAbove(t, r, pivot, side, inner, up)
           x == SetParent(above, inner, r)
           y == UpdateSubtree(x, len, r)
           v == UpdateSubtree(y, len, pivot)
<1>1. Rotate(t, len, pivot, side) = v
    BY DEF Rotate, LinkedAbove, Linked, Up, Kid
<1>o. o \in Sides /\ o # side
    BY SideFacts
<1>2. inner \in Nodes \cup {Nil} /\ up \in Nodes \cup {Nil}
    BY <1>o, TreeType
<1> HIDE DEF up, o, inner
<1>3. /\ above \in Tree /\ above.weight = t.weight
      /\ above.root = IF up = Nil THEN pivot ELSE t.root
      /\ \A s \in Sides, b \in Nodes :
           above.child[s][b] = IF b = up /\ s = SideUnder(t, r, up) THEN pivot
                           ELSE IF b = pivot /\ s = o THEN r
                           ELSE IF b = r /\ s = side THEN inner
                           ELSE t.child[s][b]
      /\ \A b \in Nodes : above.parent[b] = IF b = r THEN pivot
                                        ELSE IF b = pivot THEN up
                                        ELSE t.parent[b]
    <2>1. LinksAbove(above, t, r, pivot, side, inner, up)
        BY <1>2, LinkedAboveFacts
    <2> HIDE DEF above
    <2> QED BY <2>1 DEF LinksAbove, o
<1> HIDE DEF above
<1>4. /\ x \in Tree /\ x.root = above.root /\ x.child = above.child /\ x.weight = t.weight
      /\ \A c \in Nodes : Up(x, c) = IF c = inner THEN r ELSE Up(above, c)
    <2>1. /\ x \in Tree /\ x.root = above.root /\ x.child = above.child
          /\ x.weight = above.weight
          /\ \A c \in Nodes : Up(x, c) = IF c = inner THEN r ELSE Up(above, c)
        <3>1. above \in Tree /\ inner \in Nodes \cup {Nil} /\ r \in Nodes \cup {Nil}
            BY <1>2, <1>3
        <3>2. ParentSet(x, above, inner, r)
            BY <3>1, SetParentFacts
        <3> HIDE DEF x
        <3> QED BY <3>2 DEF ParentSet
    <2> HIDE DEF x
    <2> QED BY <1>3, <2>1
<1> HIDE DEF x
<1>5. /\ y \in Tree /\ y.root = x.root /\ y.child = x.child /\ y.parent = x.parent
      /\ \A c \in Nodes \ {r} : Heavy(y, c) = Heavy(x, c)
      /\ Heavy(y, r) = len[r] + Weight(x, Kid(x, "left", r)) + Weight(x, Kid(x, "right", r))
    BY <1>4, UpdateFacts
<1> HIDE DEF y
<1>6. /\ v \in Tree /\ v.root = y.root /\ v.child = y.child /\ v.parent = y.parent
      /\ \A c \in Nodes \ {pivot} : Heavy(v, c) = Heavy(y, c)
    BY <1>5, UpdateFacts
<1> HIDE DEF v
<1>7. Top(v) = IF up = Nil THEN pivot ELSE Top(t)
    BY <1>3, <1>4, <1>5, <1>6 DEF Top
<1>8. \A s \in Sides, b \in Nodes :
        Kid(v, s, b) = IF b = up /\ s = SideUnder(t, r, up) THEN pivot
                       ELSE IF b = pivot /\ s = o THEN r
                       ELSE IF b = r /\ s = side THEN inner
                       ELSE Kid(t, s, b)
    BY <1>3, <1>4, <1>5, <1>6 DEF Kid
<1>9. \A b \in Nodes :
        Up(v, b) = IF b = inner THEN r
                   ELSE IF b = r THEN pivot
                   ELSE IF b = pivot THEN up
                   ELSE Up(t, b)
    BY <1>3, <1>4, <1>5, <1>6 DEF Up
<1>10. \A b \in Nodes \ {r, pivot} : Heavy(v, b) = Heavy(t, b)
    BY <1>4, <1>5, <1>6 DEF Heavy
<1>11. Sums(v, len, r)
    <2>1. \A s \in Sides : Kid(x, s, r) \notin {r, pivot} /\ Kid(v, s, r) = Kid(x, s, r)
        <3>1. \A s \in Sides : Kid(v, s, r) = Kid(x, s, r)
            BY <1>5, <1>6 DEF Kid
        <3>2. r # up
            BY DEF up
        <3>3. \A s \in Sides : Kid(v, s, r) = IF s = side THEN inner ELSE Kid(t, s, r)
            BY <1>8, <3>2
        <3>4. Kid(t, o, r) \notin {r, pivot} /\ inner \notin {r, pivot}
            BY DEF o, inner
        <3>5. \A s \in Sides : s = side \/ s = o
            BY SideFacts DEF o
        <3> QED BY <3>1, <3>3, <3>4, <3>5
    <2>2. \A s \in Sides : Kid(x, s, r) \in Nodes \cup {Nil}
        BY <1>4, TreeType
    <2>3. \A s \in Sides : Weight(v, Kid(v, s, r)) = Weight(x, Kid(x, s, r))
        <3> TAKE s \in Sides
        <3>1. Kid(x, s, r) # Nil => Heavy(v, Kid(x, s, r)) = Heavy(x, Kid(x, s, r))
            BY <1>5, <1>6, <2>1, <2>2
        <3> QED BY <2>1, <3>1 DEF Weight, Heavy
    <2>4. Heavy(v, r) = Heavy(y, r)
        BY <1>6
    <2> QED BY <1>5, <2>3, <2>4 DEF Sums, Sides
<1> QED BY <1>1, <1>6, <1>7, <1>8, <1>9, <1>10, <1>11 DEF Rotated, up, o, inner

-----------------------------------------------------------------------------
(***************************************************************************)
(* Where the subtrees lie                                                  *)
(***************************************************************************)

\* A layout gives nodes their places on a line, and every subtree an interval.
Layouts(D) == [at : [D -> Int], edge : [Sides -> [D -> Int]]]
At(p, b) == p.at[b]
Edge(p, s, b) == p.edge[s][b]
Toward(s) == IF s = "left" THEN -1 ELSE 1
Holds(p, x, b) == Edge(p, "left", b) <= x /\ x <= Edge(p, "right", b)

\* The nodes of D hang together as the layout has them.
Hangs(t, D, p, s, b) ==
    IF Kid(t, s, b) = Nil
    THEN Edge(p, s, b) = At(p, b)
    ELSE /\ Kid(t, s, b) \in D
         /\ Up(t, Kid(t, s, b)) = b
         /\ Edge(p, s, Kid(t, s, b)) = Edge(p, s, b)
         /\ Edge(p, Other(s), Kid(t, s, b)) = At(p, b) + Toward(s)
Forest(t, D, p) ==
    /\ t \in Tree /\ D \subseteq Nodes /\ p \in Layouts(D)
    /\ \A b \in D : Holds(p, At(p, b), b)
    /\ \A b, c \in D : At(p, b) = At(p, c) => b = c
    /\ \A s \in Sides, b \in D : Hangs(t, D, p, s, b)

\* One tree, which fills an interval.
Whole(t, D, p, lo, hi) ==
    /\ Forest(t, D, p)
    /\ lo \in Int /\ hi \in Int
    /\ Top(t) \in D /\ Up(t, Top(t)) = Nil
    /\ Edge(p, "left", Top(t)) = lo /\ Edge(p, "right", Top(t)) = hi
    /\ \A b \in D : lo <= Edge(p, "left", b) /\ Edge(p, "right", b) <= hi

\* The weights are right but for the nodes above a place.
SummedBut(t, len, D, p, x) == \A b \in D : ~Holds(p, x, b) => Sums(t, len, b)

LEMMA TowardFacts ==
    ASSUME NEW s \in Sides
    PROVE  Toward(s) \in Int /\ Toward(Other(s)) = -Toward(s)
BY DEF Sides, Toward, Other

LEMMA LayoutType ==
    ASSUME NEW D, NEW p \in Layouts(D), NEW b \in D
    PROVE  At(p, b) \in Int /\ \A s \in Sides : Edge(p, s, b) \in Int
BY DEF Layouts, At, Edge

LEMMA ForestFacts ==
    ASSUME NEW t, NEW D, NEW p, Forest(t, D, p)
    PROVE  /\ t \in Tree /\ D \subseteq Nodes /\ p \in Layouts(D)
           /\ \A b \in D : /\ At(p, b) \in Int
                           /\ Edge(p, "left", b) \in Int /\ Edge(p, "right", b) \in Int
                           /\ Edge(p, "left", b) <= At(p, b) /\ At(p, b) <= Edge(p, "right", b)
           /\ \A b, c \in D : At(p, b) = At(p, c) => b = c
<1>1. p \in Layouts(D)
    BY DEF Forest
<1>2. "left" \in Sides /\ "right" \in Sides
    BY DEF Sides
<1> QED BY <1>1, <1>2, LayoutType DEF Forest, Holds

\* A kid lies beside its parent, and within its parent's interval.
LEMMA KidFacts ==
    ASSUME NEW t, NEW D, NEW p, Forest(t, D, p), NEW s \in Sides, NEW b \in D, Kid(t, s, b) # Nil
    PROVE  LET k == Kid(t, s, b)
           IN  /\ k \in D /\ Up(t, k) = b /\ k # b
               /\ Edge(p, s, k) = Edge(p, s, b)
               /\ Edge(p, Other(s), k) = At(p, b) + Toward(s)
               /\ Edge(p, "left", b) <= Edge(p, "left", k)
               /\ Edge(p, "right", k) <= Edge(p, "right", b)
               /\ ~Holds(p, At(p, b), k)
               /\ Edge(p, "right", k) - Edge(p, "left", k) < Edge(p, "right", b) - Edge(p, "left", b)
<1> DEFINE k == Kid(t, s, b)
<1>1. /\ k \in D /\ Up(t, k) = b /\ Edge(p, s, k) = Edge(p, s, b)
      /\ Edge(p, Other(s), k) = At(p, b) + Toward(s)
    BY DEF Forest, Hangs
<1> HIDE DEF k
<1>2. /\ Edge(p, "left", b) <= Edge(p, "left", k)
      /\ Edge(p, "right", k) <= Edge(p, "right", b)
      /\ ~Holds(p, At(p, b), k)
      /\ Edge(p, "right", k) - Edge(p, "left", k) < Edge(p, "right", b) - Edge(p, "left", b)
    <2>1. s = "left" \/ s = "right"
        BY DEF Sides
    <2>2. CASE s = "left"
        <3>1. Edge(p, "left", k) = Edge(p, "left", b) /\ Edge(p, "right", k) = At(p, b) + -1
            BY <1>1, <2>2 DEF Toward, Other
        <3> QED BY <1>1, <3>1, ForestFacts DEF Holds
    <2>3. CASE s = "right"
        <3>1. Edge(p, "right", k) = Edge(p, "right", b) /\ Edge(p, "left", k) = At(p, b) + 1
            BY <1>1, <2>3 DEF Toward, Other
        <3> QED BY <1>1, <3>1, ForestFacts DEF Holds
    <2> QED BY <2>1, <2>2, <2>3
<1>3. k # b
    BY <1>2, ForestFacts DEF Holds
<1> QED BY <1>1, <1>2, <1>3 DEF k

LEMMA NilKid ==
    ASSUME NEW t, NEW D, NEW p, Forest(t, D, p), NEW s \in Sides, NEW b \in D, Kid(t, s, b) = Nil
    PROVE  Edge(p, s, b) = At(p, b)
BY DEF Forest, Hangs

\* The two kids of a node are different nodes.
LEMMA KidsDiffer ==
    ASSUME NEW t, NEW D, NEW p, Forest(t, D, p), NEW b \in D, Kid(t, "left", b) # Nil
    PROVE  Kid(t, "left", b) # Kid(t, "right", b)
<1> SUFFICES ASSUME Kid(t, "left", b) = Kid(t, "right", b) PROVE FALSE
    OBVIOUS
<1> DEFINE k == Kid(t, "left", b)
<1>1. k \in D /\ Edge(p, Other("left"), k) = At(p, b) + Toward("left")
    BY KidFacts DEF Sides
<1>2. Edge(p, Other("right"), k) = At(p, b) + Toward("right")
    BY KidFacts DEF Sides
<1>3. Edge(p, "right", k) = At(p, b) + -1 /\ Edge(p, "left", k) = At(p, b) + 1
    BY <1>1, <1>2 DEF Toward, Other
<1> HIDE DEF k
<1> QED BY <1>1, <1>3, ForestFacts

\* A place in the interval of a node is its own or in the interval of a kid.
LEMMA Descend ==
    ASSUME NEW t, NEW D, NEW p, Forest(t, D, p), NEW b \in D, NEW x \in Int, Holds(p, x, b),
           x # At(p, b)
    PROVE  \E s \in Sides : Kid(t, s, b) # Nil /\ Holds(p, x, Kid(t, s, b))
<1> DEFINE Found(s) == Kid(t, s, b) # Nil /\ Holds(p, x, Kid(t, s, b))
<1>0. At(p, b) \in Int /\ "left" \in Sides /\ "right" \in Sides
    BY ForestFacts DEF Sides
<1>1. CASE x < At(p, b)
    <2>1. Kid(t, "left", b) # Nil
        BY <1>0, <1>1, NilKid DEF Holds
    <2> DEFINE k == Kid(t, "left", b)
    <2>2. k \in D /\ Edge(p, "left", k) = Edge(p, "left", b)
                  /\ Edge(p, Other("left"), k) = At(p, b) + Toward("left")
        BY <1>0, <2>1, KidFacts
    <2>3. Edge(p, "right", k) = At(p, b) + -1
        BY <2>2 DEF Toward, Other
    <2> HIDE DEF k
    <2>4. Holds(p, x, k)
        BY <1>0, <1>1, <2>2, <2>3 DEF Holds
    <2>5. Found("left")
        BY <2>1, <2>4 DEF k
    <2> QED BY <1>0, <2>5
<1>2. CASE At(p, b) < x
    <2>1. Kid(t, "right", b) # Nil
        BY <1>0, <1>2, NilKid DEF Holds
    <2> DEFINE k == Kid(t, "right", b)
    <2>2. k \in D /\ Edge(p, "right", k) = Edge(p, "right", b)
                  /\ Edge(p, Other("right"), k) = At(p, b) + Toward("right")
        BY <1>0, <2>1, KidFacts
    <2>3. Edge(p, "left", k) = At(p, b) + 1
        BY <2>2 DEF Toward, Other
    <2> HIDE DEF k
    <2>4. Holds(p, x, k)
        BY <1>0, <1>2, <2>2, <2>3 DEF Holds
    <2>5. Found("right")
        BY <2>1, <2>4 DEF k
    <2> QED BY <1>0, <2>5
<1>3. x < At(p, b) \/ At(p, b) < x
    BY <1>0
<1> QED BY <1>1, <1>2, <1>3

\* Among nodes above a place there is one with the smallest interval.
LEMMA Lowest ==
    ASSUME NEW t, NEW D, NEW p, Forest(t, D, p), NEW C, C \subseteq D, C # {}
    PROVE  \E c \in C : \A b \in C : Edge(p, "right", c) - Edge(p, "left", c)
                                         <= Edge(p, "right", b) - Edge(p, "left", b)
<1> DEFINE Size(b) == Edge(p, "right", b) - Edge(p, "left", b)
           T == {Size(b) : b \in C}
<1>1. \A b \in C : Size(b) \in Nat
    BY ForestFacts
<1> HIDE DEF Size
<1>2. T \subseteq Nat /\ T # {}
    BY <1>1
<1>3. PICK m \in T : \A n \in T : m <= n
    BY <1>2, LeastNatural
<1>4. PICK c \in C : m = Size(c)
    BY <1>3
<1>5. \A b \in C : Size(c) <= Size(b)
    BY <1>3, <1>4
<1> QED BY <1>5 DEF Size

\* Whoever lies in the interval of another node is somebody's kid.
LEMMA Climb ==
    ASSUME NEW t, NEW D, NEW p, Forest(t, D, p), NEW n \in D, NEW b \in D, b # n,
           Holds(p, At(p, n), b)
    PROVE  \E c \in D, s \in Sides : Kid(t, s, c) = n /\ Kid(t, s, c) # Nil /\ Holds(p, At(p, n), c)
<1> DEFINE x == At(p, n)
           C == {c \in D : c # n /\ Holds(p, x, c)}
<1>1. C \subseteq D /\ C # {}
    OBVIOUS
<1>0. x \in Int
    BY ForestFacts
<1> HIDE DEF x
<1>2. PICK c \in C : \A a \in C : Edge(p, "right", c) - Edge(p, "left", c)
                                    <= Edge(p, "right", a) - Edge(p, "left", a)
    <2> HIDE DEF C
    <2> QED BY <1>1, Lowest
<1>3. c \in D /\ c # n /\ Holds(p, x, c)
    BY <1>2
<1>4. x # At(p, c)
    BY <1>3, ForestFacts DEF x
<1>5. PICK s \in Sides : Kid(t, s, c) # Nil /\ Holds(p, x, Kid(t, s, c))
    BY <1>0, <1>3, <1>4, Descend
<1> DEFINE k == Kid(t, s, c)
<1>6. k \in D /\ Edge(p, "right", k) - Edge(p, "left", k) < Edge(p, "right", c) - Edge(p, "left", c)
    BY <1>3, <1>5, KidFacts
<1> HIDE DEF k
<1>7. k \notin C
    BY <1>2, <1>3, <1>6, ForestFacts
<1>8. k = n
    BY <1>5, <1>6, <1>7 DEF k
<1> QED BY <1>3, <1>5, <1>8 DEF k, x

\* Every node but the one at the top is a kid of its parent.
LEMMA ParentFacts ==
    ASSUME NEW t, NEW D, NEW p, NEW lo, NEW hi, Whole(t, D, p, lo, hi), NEW n \in D
    PROVE  /\ Up(t, n) = Nil => n = Top(t)
           /\ Up(t, n) # Nil => /\ n # Top(t) /\ Up(t, n) \in D
                                /\ \E s \in Sides : Kid(t, s, Up(t, n)) = n
<1>1. Forest(t, D, p) /\ Top(t) \in D /\ Up(t, Top(t)) = Nil
    BY DEF Whole
<1>2. CASE n = Top(t)
    BY <1>1, <1>2
<1>3. CASE n # Top(t)
    <2>1. Holds(p, At(p, n), Top(t))
        BY <1>1, ForestFacts DEF Whole, Holds
    <2>2. PICK c \in D, s \in Sides : Kid(t, s, c) = n /\ Kid(t, s, c) # Nil
        BY <1>1, <1>3, <2>1, Climb
    <2>3. Up(t, n) = c
        BY <1>1, <2>2, KidFacts
    <2>4. c # Nil
        BY <1>1, ForestFacts, NilFacts
    <2> QED BY <1>3, <2>2, <2>3, <2>4
<1> QED BY <1>2, <1>3

\* No other node has the top in its interval.
LEMMA TopAbove ==
    ASSUME NEW t, NEW D, NEW p, NEW lo, NEW hi, Whole(t, D, p, lo, hi), NEW b \in D, b # Top(t)
    PROVE  ~Holds(p, At(p, Top(t)), b)
<1> SUFFICES ASSUME Holds(p, At(p, Top(t)), b) PROVE FALSE
    OBVIOUS
<1>1. Forest(t, D, p) /\ Top(t) \in D /\ Up(t, Top(t)) = Nil
    BY DEF Whole
<1>2. PICK c \in D, s \in Sides : Kid(t, s, c) = Top(t) /\ Kid(t, s, c) # Nil
    BY <1>1, Climb
<1>3. Up(t, Top(t)) = c
    BY <1>1, <1>2, KidFacts
<1> QED BY <1>1, <1>3, ForestFacts, NilFacts

\* What a rotation does to the layout: the pivot takes over the interval of its parent.
Turned(q, p, D, r, pivot, side) ==
    /\ q \in Layouts(D)
    /\ \A b \in D : At(q, b) = At(p, b)
    /\ \A s \in Sides, b \in D :
        Edge(q, s, b) = IF b = pivot THEN Edge(p, s, r)
                        ELSE IF b = r /\ s = side THEN At(p, pivot) + Toward(Other(side))
                        ELSE Edge(p, s, b)

LEMMA TurnedExists ==
    ASSUME NEW D, NEW p \in Layouts(D), NEW r \in D, NEW pivot \in D, NEW side \in Sides
    PROVE  \E q : Turned(q, p, D, r, pivot, side)
<1> DEFINE E(s, b) == IF b = pivot THEN Edge(p, s, r)
                      ELSE IF b = r /\ s = side THEN At(p, pivot) + Toward(Other(side))
                      ELSE Edge(p, s, b)
           e == [s \in Sides |-> [b \in D |-> E(s, b)]]
           q == [at |-> p.at, edge |-> e]
<1>1. \A s \in Sides, b \in D : E(s, b) \in Int
    BY LayoutType, SideFacts, TowardFacts
<1> HIDE DEF E
<1>2. e \in [Sides -> [D -> Int]] /\ \A s \in Sides, b \in D : e[s][b] = E(s, b)
    BY <1>1
<1> HIDE DEF e
<1>3. q \in Layouts(D) /\ q.at = p.at /\ q.edge = e
    BY <1>2 DEF Layouts
<1> HIDE DEF q
<1>4. \A b \in D : At(q, b) = At(p, b)
    BY <1>3 DEF At
<1>5. \A s \in Sides, b \in D : Edge(q, s, b) = E(s, b)
    BY <1>2, <1>3 DEF Edge
<1>6. Turned(q, p, D, r, pivot, side)
    BY <1>3, <1>4, <1>5 DEF Turned, E
<1> QED BY <1>6

\* The situation of a rotation.
CanTurn(t, D, p, r, pivot, side) ==
    /\ Forest(t, D, p) /\ pivot \in D /\ r \in D /\ side \in Sides
    /\ Up(t, pivot) = r /\ Kid(t, side, r) = pivot
    /\ Up(t, r) # Nil => /\ Up(t, r) \in D
                         /\ \E s \in Sides : Kid(t, s, Up(t, r)) = r

LEMMA CanTurnFacts ==
    ASSUME NEW t, NEW D, NEW p, NEW r, NEW pivot, NEW side, CanTurn(t, D, p, r, pivot, side)
    PROVE  /\ pivot \in Nodes /\ r \in Nodes /\ side \in Sides /\ r # pivot
           /\ Kid(t, Other(side), r) \notin {r, pivot}
           /\ Kid(t, Other(side), pivot) \notin {r, pivot}
           /\ Kid(t, side, pivot) \notin {r, pivot}
           /\ Up(t, r) \notin {r, pivot}
           /\ Up(t, r) # Nil => Up(t, r) \in D /\ Kid(t, SideUnder(t, r, Up(t, r)), Up(t, r)) = r
           /\ \A b \in D, s \in Sides :
                /\ Kid(t, s, b) = r <=> b = Up(t, r) /\ s = SideUnder(t, r, Up(t, r))
                /\ Kid(t, s, b) = pivot <=> b = r /\ s = side
<1> DEFINE o == Other(side)
           up == Up(t, r)
           a == SideUnder(t, r, up)
<1>1. Forest(t, D, p) /\ pivot \in D /\ r \in D /\ side \in Sides
    BY DEF CanTurn
<1>2. pivot \in Nodes /\ r \in Nodes /\ pivot # Nil /\ r # Nil
    BY <1>1, ForestFacts, NilFacts
<1>3. Up(t, pivot) = r /\ Kid(t, side, r) = pivot
    BY DEF CanTurn
<1>4. \A b \in D, s \in Sides : Kid(t, s, b) # Nil =>
        Up(t, Kid(t, s, b)) = b /\ Kid(t, s, b) # b /\ ~Holds(p, At(p, b), Kid(t, s, b))
    BY <1>1, KidFacts
<1>5. r # pivot
    BY <1>1, <1>2, <1>3, <1>4
<1>6. \A b \in D, s \in Sides : Kid(t, s, b) # Nil => Kid(t, Other(s), b) # Kid(t, s, b)
    <2> TAKE b \in D, s \in Sides
    <2>1. (s = "left" /\ Other(s) = "right") \/ (s = "right" /\ Other(s) = "left")
        BY DEF Sides, Other
    <2>2. CASE s = "left" /\ Other(s) = "right"
        BY <1>1, <2>2, KidsDiffer
    <2>3. CASE s = "right" /\ Other(s) = "left"
        BY <1>1, <2>3, KidsDiffer
    <2> QED BY <2>1, <2>2, <2>3
<1>o. o \in Sides /\ \A s \in Sides : s = side \/ s = o
    BY <1>1, SideFacts
<1>7. Kid(t, o, r) \notin {r, pivot}
    BY <1>1, <1>2, <1>3, <1>4, <1>6, <1>o
<1>8. \A s \in Sides : Kid(t, s, pivot) \notin {r, pivot}
    <2> TAKE s \in Sides
    <2>1. Kid(t, s, pivot) # pivot
        BY <1>1, <1>2, <1>4
    <2>2. ASSUME Kid(t, s, pivot) = r PROVE FALSE
        <3>1. Edge(p, "right", r) - Edge(p, "left", r) < Edge(p, "right", pivot) - Edge(p, "left", pivot)
            BY <1>1, <1>2, <2>2, KidFacts
        <3>2. Edge(p, "right", pivot) - Edge(p, "left", pivot) < Edge(p, "right", r) - Edge(p, "left", r)
            BY <1>1, <1>2, <1>3, KidFacts
        <3> QED BY <1>1, <3>1, <3>2, ForestFacts
    <2> QED BY <2>1, <2>2
<1>9. up # Nil => up \in D /\ Kid(t, a, up) = r
    <2> SUFFICES ASSUME up # Nil PROVE up \in D /\ Kid(t, a, up) = r
        OBVIOUS
    <2>1. up \in D /\ \E s \in Sides : Kid(t, s, up) = r
        BY DEF CanTurn
    <2>2. Kid(t, "left", up) = r \/ Kid(t, "right", up) = r
        BY <2>1 DEF Sides
    <2> QED BY <2>1, <2>2 DEF SideUnder
<1>a. a \in Sides
    BY DEF SideUnder, Sides
<1>10. up \notin {r, pivot}
    <2>1. up # r
        BY <1>1, <1>2, <1>4, <1>9, <1>a
    <2>2. up = pivot => FALSE
        BY <1>1, <1>2, <1>8, <1>9, <1>a
    <2> QED BY <2>1, <2>2
<1>11. ASSUME NEW b \in D, NEW s \in Sides
       PROVE  /\ Kid(t, s, b) = r <=> b = up /\ s = a
              /\ Kid(t, s, b) = pivot <=> b = r /\ s = side
    <2>1. Kid(t, s, b) = pivot => b = r /\ s = side
        BY <1>2, <1>3, <1>4, <1>7, <1>o
    <2>2. Kid(t, s, b) = r => b = up
        BY <1>2, <1>4
    <2>3. Kid(t, s, b) = r => s = a
        <3> SUFFICES ASSUME Kid(t, s, b) = r, s # a PROVE FALSE
            OBVIOUS
        <3>1. b = up /\ up # Nil /\ Kid(t, a, up) = r
            BY <1>1, <1>9, <2>2, ForestFacts, NilFacts
        <3>2. s = Other(a)
            BY <1>a, SideFacts
        <3> QED BY <1>2, <1>6, <1>a, <3>1, <3>2
    <2>4. b = up /\ s = a => Kid(t, s, b) = r
        BY <1>1, <1>9, ForestFacts, NilFacts
    <2> QED BY <1>3, <2>1, <2>2, <2>3, <2>4
<1> HIDE DEF up, o, a
<1>12. \A b \in D, s \in Sides : /\ Kid(t, s, b) = r <=> b = up /\ s = a
                                 /\ Kid(t, s, b) = pivot <=> b = r /\ s = side
    BY <1>11
<1>13. Kid(t, o, pivot) \notin {r, pivot} /\ Kid(t, side, pivot) \notin {r, pivot}
    BY <1>1, <1>8, <1>o
<1> QED BY <1>1, <1>2, <1>5, <1>7, <1>9, <1>10, <1>12, <1>13 DEF up, o, a

\* A rotation keeps the nodes hanging together.
LEMMA TurnHangs ==
    ASSUME NEW t, NEW D, NEW p, NEW len, NEW r, NEW pivot, NEW side, CanTurn(t, D, p, r, pivot, side),
           NEW q, Turned(q, p, D, r, pivot, side), NEW v, Rotated(t, v, len, r, pivot, side),
           NEW s \in Sides, NEW b \in D
    PROVE  Hangs(v, D, q, s, b)
<1> DEFINE o == Other(side)
           up == Up(t, r)
           a == SideUnder(t, r, up)
           inner == Kid(t, o, pivot)
<1>1. /\ pivot \in Nodes /\ r \in Nodes /\ side \in Sides /\ r # pivot
      /\ Kid(t, o, r) \notin {r, pivot} /\ inner \notin {r, pivot}
      /\ Kid(t, side, pivot) \notin {r, pivot} /\ up \notin {r, pivot}
      /\ up # Nil => up \in D /\ Kid(t, a, up) = r
    BY CanTurnFacts
<1>2. /\ Forest(t, D, p) /\ pivot \in D /\ r \in D
      /\ Up(t, pivot) = r /\ Kid(t, side, r) = pivot
    BY DEF CanTurn
<1>3. \A c \in D, s1 \in Sides : /\ Kid(t, s1, c) = r <=> c = up /\ s1 = a
                                 /\ Kid(t, s1, c) = pivot <=> c = r /\ s1 = side
    BY CanTurnFacts
<1>o. o \in Sides /\ o # side /\ Other(o) = side /\ \A s1 \in Sides : s1 = side \/ s1 = o
    BY <1>1, SideFacts
<1>4. /\ D \subseteq Nodes /\ Nil \notin D /\ Nil # r /\ Nil # pivot /\ b # Nil
    BY <1>2, ForestFacts, NilFacts
<1>5. \A c \in D : At(q, c) = At(p, c)
    BY DEF Turned
<1>6. \A s1 \in Sides, c \in D :
        Edge(q, s1, c) = IF c = pivot THEN Edge(p, s1, r)
                         ELSE IF c = r /\ s1 = side THEN At(p, pivot) + Toward(o)
                         ELSE Edge(p, s1, c)
    BY DEF Turned
<1>7. \A s1 \in Sides, c \in Nodes :
        Kid(v, s1, c) = IF c = up /\ s1 = a THEN pivot
                        ELSE IF c = pivot /\ s1 = o THEN r
                        ELSE IF c = r /\ s1 = side THEN inner
                        ELSE Kid(t, s1, c)
    BY DEF Rotated
<1>8. \A c \in Nodes :
        Up(v, c) = IF c = inner THEN r
                   ELSE IF c = r THEN pivot
                   ELSE IF c = pivot THEN up
                   ELSE Up(t, c)
    BY DEF Rotated
<1>9. \A c \in D, s1 \in Sides : Kid(t, s1, c) # Nil =>
        /\ Kid(t, s1, c) \in D /\ Up(t, Kid(t, s1, c)) = c
        /\ Edge(p, s1, Kid(t, s1, c)) = Edge(p, s1, c)
        /\ Edge(p, Other(s1), Kid(t, s1, c)) = At(p, c) + Toward(s1)
    BY <1>2, KidFacts
<1>10. \A c \in D, s1 \in Sides : Kid(t, s1, c) = Nil => Edge(p, s1, c) = At(p, c)
    BY <1>2, NilKid
<1>s. Other(s) \in Sides /\ Other(s) # s
    BY SideFacts
<1>a. a \in Sides
    BY DEF SideUnder, Sides
<1> HIDE DEF o, up, a, inner
<1>11. CASE b = up /\ s = a
    <2>1. up \in D /\ Kid(t, a, up) = r /\ Kid(v, s, b) = pivot
        BY <1>1, <1>4, <1>7, <1>11
    <2>2. Up(v, pivot) = b
        BY <1>1, <1>8, <1>11
    <2>3. Edge(q, s, pivot) = Edge(p, s, b) /\ Edge(q, s, b) = Edge(p, s, b)
        BY <1>1, <1>2, <1>4, <1>6, <1>9, <1>11, <2>1
    <2>4. Edge(q, Other(s), pivot) = At(p, b) + Toward(s)
        BY <1>2, <1>4, <1>6, <1>9, <1>11, <1>s, <2>1
    <2> QED BY <1>2, <1>4, <1>5, <2>1, <2>2, <2>3, <2>4 DEF Hangs
<1>12. CASE b = pivot /\ s = o
    <2>1. Kid(v, s, b) = r
        BY <1>1, <1>7, <1>12
    <2>2. Up(v, r) = b
        BY <1>1, <1>8, <1>12
    <2>3. Edge(q, s, r) = Edge(q, s, b)
        BY <1>1, <1>2, <1>6, <1>12, <1>o
    <2>4. Edge(q, Other(s), r) = At(q, b) + Toward(s)
        BY <1>1, <1>2, <1>5, <1>6, <1>12, <1>o
    <2> QED BY <1>2, <1>4, <2>1, <2>2, <2>3, <2>4 DEF Hangs
<1>13. CASE b = r /\ s = side
    <2>1. Kid(v, s, b) = inner
        BY <1>1, <1>7, <1>13, <1>o
    <2>2. Edge(q, s, b) = At(p, pivot) + Toward(o)
        BY <1>1, <1>2, <1>6, <1>13
    <2>3. Edge(p, o, pivot) = At(p, r) + Toward(side)
        BY <1>2, <1>4, <1>9, <1>1
          DEF o
    <2>4. CASE inner = Nil
        <3>1. Edge(p, o, pivot) = At(p, pivot)
            BY <1>2, <1>10, <1>o, <2>4 DEF inner
        <3>2. Toward(o) = -Toward(side) /\ Toward(side) \in Int
            BY <1>1, TowardFacts DEF o
        <3>3. At(p, r) \in Int /\ At(p, pivot) \in Int
            BY <1>2, ForestFacts
        <3>4. Edge(q, s, b) = At(p, r)
            BY <2>2, <2>3, <3>1, <3>2, <3>3
        <3> QED BY <1>2, <1>5, <1>13, <2>1, <2>4, <3>4 DEF Hangs
    <2>5. CASE inner # Nil
        <3>1. /\ inner \in D
              /\ Edge(p, o, inner) = Edge(p, o, pivot)
              /\ Edge(p, side, inner) = At(p, pivot) + Toward(o)
            BY <1>2, <1>9, <1>o, <2>5 DEF inner
        <3>2. Up(v, inner) = b
            BY <1>4, <1>8, <1>13, <3>1
        <3>3. Edge(q, s, inner) = Edge(q, s, b)
            BY <1>1, <1>6, <1>13, <2>2, <3>1
        <3>4. Edge(q, Other(s), inner) = At(q, b) + Toward(s)
            <4>1. Edge(q, o, inner) = Edge(p, o, inner)
                BY <1>1, <1>6, <1>o, <3>1
            <4> QED BY <1>2, <1>5, <1>13, <2>3, <3>1, <4>1 DEF o
        <3> QED BY <2>1, <2>5, <3>1, <3>2, <3>3, <3>4 DEF Hangs
    <2> QED BY <2>4, <2>5
<1>14. CASE ~(b = up /\ s = a) /\ ~(b = pivot /\ s = o) /\ ~(b = r /\ s = side)
    <2> DEFINE k == Kid(t, s, b)
    <2>1. Kid(v, s, b) = k
        BY <1>4, <1>7, <1>14
    <2>2. k # r /\ k # pivot
        BY <1>3, <1>14
    <2>3. Edge(q, s, b) = Edge(p, s, b)
        <3>1. CASE b = pivot
            <4>1. s = side
                BY <1>14, <1>o, <3>1
            <4>2. Edge(p, s, pivot) = Edge(p, s, r)
                BY <1>1, <1>2, <1>4, <1>9, <4>1
            <4> QED BY <1>6, <3>1, <4>2
        <3>2. CASE b # pivot
            BY <1>6, <1>14, <3>2
        <3> QED BY <3>1, <3>2
    <2>4. CASE k = Nil
        BY <1>5, <1>10, <2>1, <2>3, <2>4 DEF Hangs
    <2>5. CASE k # Nil
        <3>1. /\ k \in D /\ Up(t, k) = b
              /\ Edge(p, s, k) = Edge(p, s, b)
              /\ Edge(p, Other(s), k) = At(p, b) + Toward(s)
            BY <1>9, <2>5
        <3> HIDE DEF k
        <3>2. k # inner
            <4> SUFFICES ASSUME k = inner PROVE FALSE
                OBVIOUS
            <4>1. Up(t, k) = pivot
                BY <1>2, <1>9, <1>o, <2>5 DEF inner
            <4>2. b = pivot /\ s = side
                BY <1>14, <1>o, <3>1, <4>1
            <4>3. Kid(t, side, pivot) = Kid(t, o, pivot) /\ Kid(t, "left", pivot) # Nil
                BY <2>5, <4>2, <1>o DEF k, inner, Sides
            <4>4. Kid(t, "left", pivot) = Kid(t, "right", pivot)
                BY <1>o, <1>1, <4>3 DEF Sides
            <4> QED BY <1>2, <4>3, <4>4, KidsDiffer
        <3>3. Up(v, k) = b
            BY <1>4, <1>8, <2>2, <3>1, <3>2
        <3>4. Edge(q, s, k) = Edge(p, s, k) /\ Edge(q, Other(s), k) = Edge(p, Other(s), k)
            BY <1>6, <1>s, <2>2, <3>1
        <3>5. Kid(v, s, b) = k
            BY <2>1 DEF k
        <3> QED BY <1>5, <2>3, <2>5, <3>1, <3>3, <3>4, <3>5 DEF Hangs
    <2> QED BY <2>4, <2>5
<1> QED BY <1>11, <1>12, <1>13, <1>14

LEMMA TurnForest ==
    ASSUME NEW t, NEW D, NEW p, NEW len, NEW r, NEW pivot, NEW side, CanTurn(t, D, p, r, pivot, side),
           NEW q, Turned(q, p, D, r, pivot, side), NEW v, Rotated(t, v, len, r, pivot, side)
    PROVE  Forest(v, D, q)
<1>1. Forest(t, D, p) /\ pivot \in D /\ r \in D /\ side \in Sides /\ Kid(t, side, r) = pivot
    BY DEF CanTurn
<1>2. v \in Tree /\ q \in Layouts(D)
    BY DEF Rotated, Turned
<1>3. \A s \in Sides, b \in D : Hangs(v, D, q, s, b)
    BY TurnHangs
<1>4. \A b \in D : At(q, b) = At(p, b)
    BY DEF Turned
<1>5. \A s \in Sides, b \in D :
        Edge(q, s, b) = IF b = pivot THEN Edge(p, s, r)
                        ELSE IF b = r /\ s = side THEN At(p, pivot) + Toward(Other(side))
                        ELSE Edge(p, s, b)
    BY DEF Turned
<1>6. pivot # Nil /\ pivot # r
    BY <1>1, ForestFacts, NilFacts, CanTurnFacts
<1>7. /\ Edge(p, side, pivot) = Edge(p, side, r)
      /\ Edge(p, Other(side), pivot) = At(p, r) + Toward(side)
    BY <1>1, <1>6, KidFacts
<1>8. \A b \in D : /\ At(p, b) \in Int /\ Edge(p, "left", b) \in Int /\ Edge(p, "right", b) \in Int
                   /\ Edge(p, "left", b) <= At(p, b) /\ At(p, b) <= Edge(p, "right", b)
    BY <1>1, ForestFacts
<1>9. ASSUME NEW b \in D PROVE Holds(q, At(q, b), b)
    <2>1. side = "left" \/ side = "right"
        BY <1>1 DEF Sides
    <2>s. "left" \in Sides /\ "right" \in Sides
        BY DEF Sides
    <2>2. CASE side = "left"
        <3>1. Other(side) = "right" /\ Toward(side) = -1 /\ Toward(Other(side)) = 1
            BY <2>2 DEF Other, Toward
        <3>2. Edge(p, "left", pivot) = Edge(p, "left", r) /\ Edge(p, "right", pivot) = At(p, r) + -1
            BY <1>7, <2>2, <3>1
        <3>3. Edge(q, "left", b) = IF b = pivot THEN Edge(p, "left", r)
                        ELSE IF b = r THEN At(p, pivot) + 1
                        ELSE Edge(p, "left", b)
            BY <1>5, <2>2, <2>s, <3>1
        <3>4. Edge(q, "right", b) = IF b = pivot THEN Edge(p, "right", r) ELSE Edge(p, "right", b)
            BY <1>5, <2>2, <2>s, <3>1
        <3> QED BY <1>1, <1>4, <1>8, <3>2, <3>3, <3>4 DEF Holds
    <2>3. CASE side = "right"
        <3>1. Other(side) = "left" /\ Toward(side) = 1 /\ Toward(Other(side)) = -1
            BY <2>3 DEF Other, Toward
        <3>2. Edge(p, "right", pivot) = Edge(p, "right", r) /\ Edge(p, "left", pivot) = At(p, r) + 1
            BY <1>7, <2>3, <3>1
        <3>3. Edge(q, "right", b) = IF b = pivot THEN Edge(p, "right", r)
                        ELSE IF b = r THEN At(p, pivot) + -1
                        ELSE Edge(p, "right", b)
            BY <1>5, <2>3, <2>s, <3>1
        <3>4. Edge(q, "left", b) = IF b = pivot THEN Edge(p, "left", r) ELSE Edge(p, "left", b)
            BY <1>5, <2>3, <2>s, <3>1
        <3> QED BY <1>1, <1>4, <1>8, <3>2, <3>3, <3>4 DEF Holds
    <2> QED BY <2>1, <2>2, <2>3
<1>10. D \subseteq Nodes /\ \A b, c \in D : At(q, b) = At(q, c) => b = c
    BY <1>1, <1>4, ForestFacts
<1> QED BY <1>2, <1>3, <1>9, <1>10 DEF Forest

-----------------------------------------------------------------------------
(***************************************************************************)
(* A splay                                                                 *)
(***************************************************************************)

\* One tree over D with the weights right but for those above the place x.
Held(t, len, D, p, lo, hi, x) == Whole(t, D, p, lo, hi) /\ SummedBut(t, len, D, p, x)

\* The nodes outside D are as they were.
Apart(t, v, D) ==
    \A b \in Nodes \ D : /\ Up(v, b) = Up(t, b) /\ Heavy(v, b) = Heavy(t, b)
                         /\ \A s \in Sides : Kid(v, s, b) = Kid(t, s, b)

Size(p, b) == Edge(p, "right", b) - Edge(p, "left", b)

LEMMA HoldsAbove ==
    ASSUME NEW t, NEW D, NEW p, Forest(t, D, p), NEW b \in D, NEW s \in Sides, Kid(t, s, b) # Nil,
           NEW x \in Int, Holds(p, x, Kid(t, s, b))
    PROVE  Holds(p, x, b)
<1> DEFINE k == Kid(t, s, b)
<1>1. k \in D /\ Edge(p, "left", b) <= Edge(p, "left", k) /\ Edge(p, "right", k) <= Edge(p, "right", b)
    BY KidFacts
<1>2. Holds(p, x, k)
    OBVIOUS
<1> HIDE DEF k
<1> QED BY <1>1, <1>2, ForestFacts DEF Holds

LEMMA TurnWhole ==
    ASSUME NEW t, NEW D, NEW p, NEW lo, NEW hi, Whole(t, D, p, lo, hi),
           NEW len, NEW r, NEW pivot, NEW side, CanTurn(t, D, p, r, pivot, side),
           NEW q, Turned(q, p, D, r, pivot, side), NEW v, Rotated(t, v, len, r, pivot, side)
    PROVE  Whole(v, D, q, lo, hi)
<1>1. Forest(v, D, q)
    BY TurnForest
<1>2. /\ Forest(t, D, p) /\ lo \in Int /\ hi \in Int /\ Top(t) \in D /\ Up(t, Top(t)) = Nil
      /\ Edge(p, "left", Top(t)) = lo /\ Edge(p, "right", Top(t)) = hi
      /\ \A b \in D : lo <= Edge(p, "left", b) /\ Edge(p, "right", b) <= hi
    BY DEF Whole
<1>3. pivot \in D /\ r \in D /\ Up(t, pivot) = r /\ side \in Sides
    BY DEF CanTurn
<1>4. r # pivot /\ Up(t, r) \notin {r, pivot} /\ Kid(t, Other(side), pivot) \notin {r, pivot}
    BY CanTurnFacts
<1>5. r # Nil /\ pivot # Nil /\ \A b \in D : b \in Nodes
    BY <1>2, <1>3, ForestFacts, NilFacts
<1>6. "left" \in Sides /\ "right" \in Sides
    BY DEF Sides
<1>7. \A s \in Sides, b \in D :
        Edge(q, s, b) = IF b = pivot THEN Edge(p, s, r)
                        ELSE IF b = r /\ s = side THEN At(p, pivot) + Toward(Other(side))
                        ELSE Edge(p, s, b)
    BY DEF Turned
<1>8. Up(t, Top(t)) # r
    BY <1>2, <1>5
<1>9. Top(t) # pivot
    BY <1>3, <1>8
<1>10. Up(t, r) = Nil => r = Top(t)
    BY <1>3, ParentFacts
<1>11. Kid(t, Other(side), pivot) # Nil => Up(t, Kid(t, Other(side), pivot)) = pivot
    BY <1>2, <1>3, SideFacts, KidFacts
<1>12. /\ Top(v) = IF Up(t, r) = Nil THEN pivot ELSE Top(t)
       /\ \A b \in D :
            Up(v, b) = IF b = Kid(t, Other(side), pivot) THEN r
                       ELSE IF b = r THEN pivot
                       ELSE IF b = pivot THEN Up(t, r)
                       ELSE Up(t, b)
    BY <1>5 DEF Rotated
<1>13. Top(v) \in D /\ Up(v, Top(v)) = Nil
    <2>1. CASE Up(t, r) = Nil
        BY <1>3, <1>4, <1>12, <2>1
    <2>2. CASE Up(t, r) # Nil
        <3>1. Top(t) # r
            BY <1>2, <2>2
        <3>2. Top(t) # Kid(t, Other(side), pivot)
            BY <1>2, <1>5, <1>11, NilFacts
        <3> QED BY <1>2, <1>9, <1>12, <2>2, <3>1, <3>2
    <2> QED BY <2>1, <2>2
<1>14. Edge(q, "left", Top(v)) = lo /\ Edge(q, "right", Top(v)) = hi
    <2>1. CASE Up(t, r) = Nil
        BY <1>2, <1>3, <1>6, <1>7, <1>10, <1>12, <2>1
    <2>2. CASE Up(t, r) # Nil
        <3>1. Top(t) # r
            BY <1>2, <2>2
        <3> QED BY <1>2, <1>6, <1>7, <1>9, <1>12, <2>2, <3>1
    <2> QED BY <2>1, <2>2
<1>15. ASSUME NEW b \in D PROVE lo <= Edge(q, "left", b) /\ Edge(q, "right", b) <= hi
    <2>1. CASE b = pivot
        BY <1>2, <1>3, <1>6, <1>7, <2>1
    <2>2. CASE b = r
        <3>0. /\ At(q, b) \in Int /\ Edge(q, "left", b) <= At(q, b) /\ At(q, b) <= Edge(q, "right", b)
              /\ Edge(q, "left", b) \in Int /\ Edge(q, "right", b) \in Int
              /\ At(p, pivot) \in Int
              /\ Edge(p, "left", pivot) \in Int /\ Edge(p, "right", pivot) \in Int
              /\ Edge(p, "left", pivot) <= At(p, pivot) /\ At(p, pivot) <= Edge(p, "right", pivot)
            BY <1>1, <1>2, <1>3, ForestFacts
        <3>1. CASE side = "left"
            <4>1. Edge(q, "left", b) = At(p, pivot) + 1 /\ Edge(q, "right", b) = Edge(p, "right", b)
                BY <1>3, <1>4, <1>6, <1>7, <2>2, <3>1 DEF Other, Toward
            <4> QED BY <1>2, <1>3, <3>0, <4>1
        <3>2. CASE side = "right"
            <4>1. Edge(q, "right", b) = At(p, pivot) + -1 /\ Edge(q, "left", b) = Edge(p, "left", b)
                BY <1>3, <1>4, <1>6, <1>7, <2>2, <3>2 DEF Other, Toward
            <4> QED BY <1>2, <1>3, <3>0, <4>1
        <3> QED BY <1>3, <3>1, <3>2 DEF Sides
    <2>3. CASE b \notin {r, pivot}
        BY <1>2, <1>6, <1>7, <2>3
    <2> QED BY <2>1, <2>2, <2>3
<1> QED BY <1>1, <1>2, <1>13, <1>14, <1>15 DEF Whole

LEMMA TurnSums ==
    ASSUME NEW t, NEW D, NEW p, NEW len, NEW x \in Int, SummedBut(t, len, D, p, x),
           NEW r, NEW pivot, NEW side, CanTurn(t, D, p, r, pivot, side), Holds(p, x, r),
           NEW q, Turned(q, p, D, r, pivot, side), NEW v, Rotated(t, v, len, r, pivot, side)
    PROVE  SummedBut(v, len, D, q, x)
<1> SUFFICES ASSUME NEW b \in D, ~Holds(q, x, b) PROVE Sums(v, len, b)
    BY DEF SummedBut
<1>1. Forest(t, D, p) /\ pivot \in D /\ r \in D /\ side \in Sides
    BY DEF CanTurn
<1>2. \A c \in D, s \in Sides : /\ Kid(t, s, c) = r <=> c = Up(t, r) /\ s = SideUnder(t, r, Up(t, r))
                                /\ Kid(t, s, c) = pivot <=> c = r /\ s = side
    BY CanTurnFacts
<1>3. "left" \in Sides /\ "right" \in Sides
    BY DEF Sides
<1>4. b # pivot
    <2> SUFFICES ASSUME b = pivot PROVE FALSE
        OBVIOUS
    <2>1. Edge(q, "left", b) = Edge(p, "left", r) /\ Edge(q, "right", b) = Edge(p, "right", r)
        BY <1>3 DEF Turned
    <2> QED BY <2>1 DEF Holds
<1>5. CASE b = r
    BY <1>5 DEF Rotated
<1>6. CASE b # r
    <2>1. Edge(q, "left", b) = Edge(p, "left", b) /\ Edge(q, "right", b) = Edge(p, "right", b)
        BY <1>3, <1>4, <1>6 DEF Turned
    <2>2. ~Holds(p, x, b)
        BY <2>1 DEF Holds
    <2>3. Sums(t, len, b)
        BY <2>2 DEF SummedBut
    <2>4. r # Nil
        BY <1>1, ForestFacts, NilFacts
    <2>5. \A s \in Sides : Kid(t, s, b) \notin {r, pivot}
        <3> TAKE s \in Sides
        <3>1. Kid(t, s, b) # pivot
            BY <1>2, <1>6
        <3>2. Kid(t, s, b) # r
            BY <1>1, <2>2, <2>4, HoldsAbove
        <3> QED BY <3>1, <3>2
    <2>6. b \in Nodes /\ t \in Tree
        BY <1>1, ForestFacts
    <2>7. \A s \in Sides : Kid(v, s, b) = Kid(t, s, b)
        <3> TAKE s \in Sides
        <3>1. ~(b = Up(t, r) /\ s = SideUnder(t, r, Up(t, r)))
            BY <1>2, <2>5
        <3> QED BY <1>4, <1>6, <2>6, <3>1 DEF Rotated
    <2>8. \A c \in Nodes \ {r, pivot} : Heavy(v, c) = Heavy(t, c)
        BY DEF Rotated
    <2>9. \A s \in Sides : Weight(v, Kid(v, s, b)) = Weight(t, Kid(t, s, b))
        <3> TAKE s \in Sides
        <3>1. Kid(t, s, b) \in Nodes \cup {Nil}
            BY <2>6, TreeType
        <3>2. Kid(t, s, b) # Nil => Heavy(v, Kid(t, s, b)) = Heavy(t, Kid(t, s, b))
            BY <2>5, <2>8, <3>1
        <3> QED BY <2>7, <3>2 DEF Weight, Heavy
    <2>10. Heavy(v, b) = Heavy(t, b)
        BY <1>4, <1>6, <2>6, <2>8
    <2> QED BY <1>3, <2>3, <2>9, <2>10 DEF Sums
<1> QED BY <1>5, <1>6

LEMMA TurnApart ==
    ASSUME NEW t, NEW D, NEW p, NEW len, NEW r, NEW pivot, NEW side, CanTurn(t, D, p, r, pivot, side),
           NEW v, Rotated(t, v, len, r, pivot, side)
    PROVE  Apart(t, v, D)
<1> SUFFICES ASSUME NEW b \in Nodes \ D
             PROVE  /\ Up(v, b) = Up(t, b) /\ Heavy(v, b) = Heavy(t, b)
                    /\ \A s \in Sides : Kid(v, s, b) = Kid(t, s, b)
    BY DEF Apart
<1>1. Forest(t, D, p) /\ pivot \in D /\ r \in D /\ side \in Sides
      /\ (Up(t, r) # Nil => Up(t, r) \in D)
    BY DEF CanTurn
<1>2. b \notin {r, pivot} /\ b # Nil /\ b # Up(t, r)
    BY <1>1, NilFacts
<1>3. Kid(t, Other(side), pivot) # b
    BY <1>1, <1>2, SideFacts, KidFacts
<1> QED BY <1>2, <1>3 DEF Rotated

\* What a rotation of the pivot makes of the tree and the layout.
Turns(t, v, len, D, p, q, r, pivot, side) ==
    Rotated(t, v, len, r, pivot, side) /\ Turned(q, p, D, r, pivot, side)

LEMMA RotateKeeps ==
    ASSUME NEW t, NEW len \in [Nodes -> Nat], NEW D, NEW p, NEW lo, NEW hi, NEW x \in Int,
           Held(t, len, D, p, lo, hi, x), NEW pivot \in D, NEW r \in D, NEW side \in Sides,
           Up(t, pivot) = r, Kid(t, side, r) = pivot, Holds(p, x, r)
    PROVE  \E q : /\ Held(Rotate(t, len, pivot, side), len, D, q, lo, hi, x)
                  /\ Turns(t, Rotate(t, len, pivot, side), len, D, p, q, r, pivot, side)
                  /\ Apart(t, Rotate(t, len, pivot, side), D)
<1> DEFINE v == Rotate(t, len, pivot, side)
<1>1. Whole(t, D, p, lo, hi) /\ SummedBut(t, len, D, p, x) /\ Forest(t, D, p)
    BY DEF Held, Whole
<1>2. CanTurn(t, D, p, r, pivot, side)
    BY <1>1, ParentFacts DEF CanTurn
<1>3. p \in Layouts(D) /\ t \in Tree
    BY <1>1, ForestFacts
<1>4. PICK q : Turned(q, p, D, r, pivot, side)
    BY <1>3, TurnedExists
<1>5. Rotated(t, v, len, r, pivot, side)
    BY <1>2, <1>3, CanTurnFacts, RotateFacts
<1> HIDE DEF v
<1>6. Whole(v, D, q, lo, hi) /\ SummedBut(v, len, D, q, x) /\ Apart(t, v, D)
    BY <1>1, <1>2, <1>4, <1>5, TurnWhole, TurnSums, TurnApart
<1>7. Held(v, len, D, q, lo, hi, x) /\ Turns(t, v, len, D, p, q, r, pivot, side)
    BY <1>4, <1>5, <1>6 DEF Held, Turns
<1> QED BY <1>6, <1>7 DEF v

\* What a splay, or an iteration of it, makes of the tree.
Lifted(t, v, len, D, p, q, lo, hi, n) ==
    /\ Held(v, len, D, q, lo, hi, At(p, n))
    /\ q \in Layouts(D) /\ \A b \in D : At(q, b) = At(p, b)
    /\ Apart(t, v, D)

LEMMA ApartTwice ==
    ASSUME NEW t, NEW u, NEW v, NEW D, Apart(t, u, D), Apart(u, v, D)
    PROVE  Apart(t, v, D)
BY DEF Apart

LEMMA HeldFacts ==
    ASSUME NEW t, NEW len, NEW D, NEW p, NEW lo, NEW hi, NEW x, Held(t, len, D, p, lo, hi, x)
    PROVE  /\ Whole(t, D, p, lo, hi) /\ Forest(t, D, p) /\ SummedBut(t, len, D, p, x)
           /\ t \in Tree /\ D \subseteq Nodes /\ p \in Layouts(D) /\ Nil \notin D
           /\ lo \in Int /\ hi \in Int /\ Top(t) \in D
BY ForestFacts, NilFacts DEF Held, Whole

\* zig.
LEMMA ZigLifts ==
    ASSUME NEW t, NEW len \in [Nodes -> Nat], NEW D, NEW p, NEW lo, NEW hi, NEW n \in D,
           Held(t, len, D, p, lo, hi, At(p, n)),
           NEW r \in D, NEW side \in Sides, Up(t, n) = r, Kid(t, side, r) = n
    PROVE  \E q : /\ Lifted(t, Rotate(t, len, n, side), len, D, p, q, lo, hi, n)
                  /\ Size(p, n) < Size(q, n)
<1> DEFINE v == Rotate(t, len, n, side)
           x == At(p, n)
<1>1. Forest(t, D, p) /\ x \in Int /\ Nil \notin D
    BY HeldFacts, ForestFacts
<1>2. Holds(p, x, n)
    BY <1>1, ForestFacts DEF Holds
<1>3. Holds(p, x, r) /\ Size(p, n) < Size(p, r)
    BY <1>1, <1>2, HoldsAbove, KidFacts DEF Size
<1> HIDE DEF x
<1>4. PICK q : Held(v, len, D, q, lo, hi, x) /\ Turns(t, v, len, D, p, q, r, n, side) /\ Apart(t, v, D)
    BY <1>1, <1>3, RotateKeeps DEF x
<1> HIDE DEF v
<1>5. Turned(q, p, D, r, n, side)
    BY <1>4 DEF Turns
<1>6. Size(q, n) = Size(p, r)
    BY <1>5 DEF Turned, Size, Sides
<1>7. Lifted(t, v, len, D, p, q, lo, hi, n)
    BY <1>4, <1>5 DEF Lifted, x, Turned
<1> QED BY <1>3, <1>6, <1>7 DEF v

\* zig-zag.
LEMMA ZigZagLifts ==
    ASSUME NEW t, NEW len \in [Nodes -> Nat], NEW D, NEW p, NEW lo, NEW hi, NEW n \in D,
           Held(t, len, D, p, lo, hi, At(p, n)),
           NEW r \in D, NEW side \in Sides, Up(t, n) = r, Kid(t, side, r) = n,
           NEW g \in D, Up(t, r) = g, Kid(t, Other(side), g) = r
    PROVE  \E q : /\ Lifted(t, Rotate(Rotate(t, len, n, side), len, n, Other(side)),
                            len, D, p, q, lo, hi, n)
                  /\ Size(p, n) < Size(q, n)
<1> DEFINE u == Rotate(t, len, n, side)
           o == Other(side)
           v == Rotate(u, len, n, o)
           x == At(p, n)
<1>o. o \in Sides
    BY SideFacts
<1>1. Forest(t, D, p) /\ x \in Int /\ Nil \notin D /\ D \subseteq Nodes
    BY HeldFacts, ForestFacts
<1>2. Holds(p, x, n)
    BY <1>1, ForestFacts DEF Holds
<1>3. Holds(p, x, r) /\ Size(p, n) < Size(p, r)
    BY <1>1, <1>2, HoldsAbove, KidFacts DEF Size
<1>4. Holds(p, x, g) /\ Size(p, r) < Size(p, g)
    BY <1>1, <1>3, <1>o, HoldsAbove, KidFacts DEF Size
<1> HIDE DEF x
<1>5. PICK q : Held(u, len, D, q, lo, hi, x) /\ Turns(t, u, len, D, p, q, r, n, side) /\ Apart(t, u, D)
    BY <1>1, <1>3, RotateKeeps DEF x
<1>c. CanTurn(t, D, p, r, n, side)
    BY <1>1, <1>o DEF CanTurn
<1> HIDE DEF u, o
<1>6. Turned(q, p, D, r, n, side) /\ Rotated(t, u, len, r, n, side)
    BY <1>5 DEF Turns
<1>7. g \notin {r, n} /\ r # n /\ o = SideUnder(t, r, g) /\ Kid(t, o, n) # n
    BY <1>1, <1>c, <1>o, CanTurnFacts DEF o
<1>8. Up(u, n) = g /\ Kid(u, o, g) = n
    BY <1>1, <1>6, <1>7, <1>o DEF Rotated, o
<1>9. Edge(q, "left", g) = Edge(p, "left", g) /\ Edge(q, "right", g) = Edge(p, "right", g)
    BY <1>6, <1>7 DEF Turned, Sides
<1>10. Holds(q, x, g)
    BY <1>4, <1>9 DEF Holds
<1>11. PICK z : Held(v, len, D, z, lo, hi, x) /\ Turns(u, v, len, D, q, z, g, n, o) /\ Apart(u, v, D)
    BY <1>1, <1>5, <1>8, <1>10, <1>o, RotateKeeps DEF x
<1> HIDE DEF v
<1>12. Turned(z, q, D, g, n, o)
    BY <1>11 DEF Turns
<1>13. Size(z, n) = Size(p, g)
    BY <1>9, <1>12 DEF Turned, Size, Sides
<1>14. Size(p, n) \in Int /\ Size(p, r) \in Int /\ Size(p, g) \in Int
    BY <1>1, ForestFacts DEF Size
<1>15. Lifted(t, v, len, D, p, z, lo, hi, n)
    <2>1. Apart(t, v, D)
        BY <1>5, <1>11, ApartTwice
    <2>2. z \in Layouts(D) /\ \A b \in D : At(z, b) = At(p, b)
        BY <1>6, <1>12 DEF Turned
    <2> QED BY <1>11, <2>1, <2>2 DEF Lifted, x
<1> QED BY <1>3, <1>4, <1>13, <1>14, <1>15 DEF v, u, o

\* zig-zig.
LEMMA ZigZigLifts ==
    ASSUME NEW t, NEW len \in [Nodes -> Nat], NEW D, NEW p, NEW lo, NEW hi, NEW n \in D,
           Held(t, len, D, p, lo, hi, At(p, n)),
           NEW r \in D, NEW side \in Sides, Up(t, n) = r, Kid(t, side, r) = n,
           NEW g \in D, Up(t, r) = g, Kid(t, side, g) = r
    PROVE  \E q : /\ Lifted(t, Rotate(Rotate(t, len, r, side), len, n, side),
                            len, D, p, q, lo, hi, n)
                  /\ Size(p, n) < Size(q, n)
<1> DEFINE u == Rotate(t, len, r, side)
           v == Rotate(u, len, n, side)
           x == At(p, n)
<1>1. Forest(t, D, p) /\ x \in Int /\ Nil \notin D /\ D \subseteq Nodes
    BY HeldFacts, ForestFacts
<1>2. Holds(p, x, n)
    BY <1>1, ForestFacts DEF Holds
<1>3. Holds(p, x, r) /\ Size(p, n) < Size(p, r)
    BY <1>1, <1>2, HoldsAbove, KidFacts DEF Size
<1>4. Holds(p, x, g) /\ Size(p, r) < Size(p, g)
    BY <1>1, <1>3, HoldsAbove, KidFacts DEF Size
<1> HIDE DEF x
<1>5. PICK q : Held(u, len, D, q, lo, hi, x) /\ Turns(t, u, len, D, p, q, g, r, side) /\ Apart(t, u, D)
    BY <1>1, <1>4, RotateKeeps DEF x
<1>c. CanTurn(t, D, p, g, r, side) /\ CanTurn(t, D, p, r, n, side)
    <2>1. Whole(t, D, p, lo, hi)
        BY HeldFacts
    <2> QED BY <1>1, <2>1, ParentFacts DEF CanTurn
<1> HIDE DEF u
<1>6. Turned(q, p, D, g, r, side) /\ Rotated(t, u, len, g, r, side)
    BY <1>5 DEF Turns
<1>7. g # r /\ n # g /\ n # r /\ Up(t, g) # r
    BY <1>c, CanTurnFacts
<1>8. Kid(t, Other(side), r) # n
    BY <1>c, CanTurnFacts
<1>9. Up(u, n) = r /\ Kid(u, side, r) = n
    BY <1>1, <1>6, <1>7, <1>8, SideFacts DEF Rotated
<1>10. Edge(q, "left", r) = Edge(p, "left", g) /\ Edge(q, "right", r) = Edge(p, "right", g)
    BY <1>6, <1>7 DEF Turned, Sides
<1>11. Holds(q, x, r)
    BY <1>4, <1>10 DEF Holds
<1>12. PICK z : Held(v, len, D, z, lo, hi, x) /\ Turns(u, v, len, D, q, z, r, n, side) /\ Apart(u, v, D)
    BY <1>1, <1>5, <1>9, <1>11, RotateKeeps DEF x
<1> HIDE DEF v
<1>13. Turned(z, q, D, r, n, side)
    BY <1>12 DEF Turns
<1>14. Size(z, n) = Size(p, g)
    BY <1>10, <1>13 DEF Turned, Size, Sides
<1>15. Size(p, n) \in Int /\ Size(p, r) \in Int /\ Size(p, g) \in Int
    BY <1>1, ForestFacts DEF Size
<1>16. Lifted(t, v, len, D, p, z, lo, hi, n)
    <2>1. Apart(t, v, D)
        BY <1>5, <1>12, ApartTwice
    <2>2. z \in Layouts(D) /\ \A b \in D : At(z, b) = At(p, b)
        BY <1>6, <1>13 DEF Turned
    <2> QED BY <1>12, <2>1, <2>2 DEF Lifted, x
<1> QED BY <1>3, <1>4, <1>14, <1>15, <1>16 DEF v, u

LEMMA SplayStepLifts ==
    ASSUME NEW t, NEW len \in [Nodes -> Nat], NEW D, NEW p, NEW lo, NEW hi, NEW n \in D,
           Held(t, len, D, p, lo, hi, At(p, n))
    PROVE  \E q : /\ Lifted(t, SplayStep(t, len, n), len, D, p, q, lo, hi, n)
                  /\ \/ Size(p, n) < Size(q, n)
                     \/ Up(SplayStep(t, len, n), n) = Nil
<1>1. /\ Whole(t, D, p, lo, hi) /\ p \in Layouts(D) /\ D \subseteq Nodes /\ Nil \notin D
      /\ t \in Tree
    BY HeldFacts
<1>2. \A s \in Sides, b \in Nodes \cup {Nil} :
        IsChild(t, b, s) <=> b # Nil /\ Up(t, b) # Nil /\ Kid(t, s, Up(t, b)) = b
    BY DEF IsChild, Up, Kid
<1>3. CASE Up(t, n) = Nil
    <2>1. SplayStep(t, len, n) = t
        BY <1>1, <1>2, <1>3 DEF SplayStep
    <2>2. Lifted(t, t, len, D, p, p, lo, hi, n)
        BY <1>1 DEF Lifted, Apart
    <2> QED BY <1>3, <2>1, <2>2
<1>4. CASE Up(t, n) # Nil
    <2> DEFINE r == Up(t, n)
               side == CHOOSE s \in Sides : IsChild(t, n, s)
    <2>1. r \in D /\ \E s \in Sides : Kid(t, s, r) = n
        BY <1>1, <1>4, ParentFacts
    <2>2. \E s \in Sides : IsChild(t, n, s)
        BY <1>1, <1>2, <1>4, <2>1
    <2>3. side \in Sides /\ Kid(t, side, r) = n
        BY <1>1, <1>2, <2>2
    <2>4. SplayStep(t, len, n) =
            IF IsChild(t, r, Other(side))
            THEN Rotate(Rotate(t, len, n, side), len, n, Other(side))
            ELSE IF IsChild(t, r, side)
                 THEN Rotate(Rotate(t, len, r, side), len, n, side)
                 ELSE Rotate(t, len, n, side)
        BY <2>2 DEF SplayStep, Up
    <2>5. Up(t, n) = r
        OBVIOUS
    <2> HIDE DEF r, side
    <2>6. Other(side) \in Sides
        BY <2>3, SideFacts
    <2>7. CASE IsChild(t, r, Other(side))
        <3>1. SplayStep(t, len, n) = Rotate(Rotate(t, len, n, side), len, n, Other(side))
            BY <2>4, <2>7
        <3>2. Up(t, r) # Nil /\ Kid(t, Other(side), Up(t, r)) = r
            BY <1>1, <1>2, <2>1, <2>6, <2>7
        <3>3. Up(t, r) \in D
            BY <1>1, <2>1, <3>2, ParentFacts
        <3> QED BY <2>1, <2>3, <2>5, <3>1, <3>2, <3>3, ZigZagLifts
    <2>8. CASE ~IsChild(t, r, Other(side)) /\ IsChild(t, r, side)
        <3>1. SplayStep(t, len, n) = Rotate(Rotate(t, len, r, side), len, n, side)
            BY <2>4, <2>8
        <3>2. Up(t, r) # Nil /\ Kid(t, side, Up(t, r)) = r
            BY <1>1, <1>2, <2>1, <2>3, <2>8
        <3>3. Up(t, r) \in D
            BY <1>1, <2>1, <3>2, ParentFacts
        <3> QED BY <2>1, <2>3, <2>5, <3>1, <3>2, <3>3, ZigZigLifts
    <2>9. CASE ~IsChild(t, r, Other(side)) /\ ~IsChild(t, r, side)
        <3>1. SplayStep(t, len, n) = Rotate(t, len, n, side)
            BY <2>4, <2>9
        <3> QED BY <2>1, <2>3, <2>5, <3>1, ZigLifts
    <2> QED BY <2>7, <2>8, <2>9
<1> QED BY <1>3, <1>4

LEMMA LiftedTwice ==
    ASSUME NEW t, NEW u, NEW v, NEW len, NEW D, NEW p, NEW q, NEW z, NEW lo, NEW hi, NEW n \in D,
           Lifted(t, u, len, D, p, q, lo, hi, n), Lifted(u, v, len, D, q, z, lo, hi, n)
    PROVE  Lifted(t, v, len, D, p, z, lo, hi, n)
<1>1. Apart(t, v, D)
    BY ApartTwice DEF Lifted
<1> QED BY <1>1 DEF Lifted

\* At the end of a splay the node is at the top, and only the weights above it may
\* be wrong.
LEMMA SplayLifts ==
    ASSUME NEW t, NEW len \in [Nodes -> Nat], NEW D, NEW p, NEW lo, NEW hi, NEW n \in D,
           Held(t, len, D, p, lo, hi, At(p, n)), hi - lo < Depth, Depth \in Nat
    PROVE  \E q : /\ Lifted(t, Splay(t, len, n), len, D, p, q, lo, hi, n)
                  /\ Top(Splay(t, len, n)) = n
<1> DEFINE F == [u \in Tree |-> SplayStep(u, len, n)]
           Step(f, k) == IF k = 0 THEN t ELSE SplayStep(f[k - 1], len, n)
           Loop(f) == f = [k \in 0 .. Depth |-> Step(f, k)]
           U == {u \in Tree : \E q : Lifted(t, u, len, D, p, q, lo, hi, n)}
           Far(k) == {u \in Tree : \E q : /\ Lifted(t, u, len, D, p, q, lo, hi, n)
                                          /\ k <= Size(q, n) \/ Up(u, n) = Nil}
<1>1. t \in Tree /\ p \in Layouts(D) /\ lo \in Int /\ hi \in Int /\ Forest(t, D, p)
    BY HeldFacts
<1>2. ASSUME NEW k \in Int, NEW u \in Far(k) PROVE SplayStep(u, len, n) \in Far(k + 1)
    <2>1. PICK q : /\ Lifted(t, u, len, D, p, q, lo, hi, n)
                   /\ k <= Size(q, n) \/ Up(u, n) = Nil
        OBVIOUS
    <2>2. Held(u, len, D, q, lo, hi, At(q, n)) /\ q \in Layouts(D)
        BY <2>1 DEF Lifted
    <2>3. PICK z : /\ Lifted(u, SplayStep(u, len, n), len, D, q, z, lo, hi, n)
                   /\ Size(q, n) < Size(z, n) \/ Up(SplayStep(u, len, n), n) = Nil
        BY <2>2, SplayStepLifts
    <2>4. Lifted(t, SplayStep(u, len, n), len, D, p, z, lo, hi, n)
        BY <2>1, <2>3, LiftedTwice
    <2>5. SplayStep(u, len, n) \in Tree /\ z \in Layouts(D)
        BY <2>3, HeldFacts DEF Lifted
    <2>6. Size(z, n) \in Int /\ Size(q, n) \in Int
        BY <2>2, <2>5, LayoutType DEF Size, Sides
    <2>7. k + 1 <= Size(z, n) \/ Up(SplayStep(u, len, n), n) = Nil
        <3>1. CASE Up(u, n) = Nil
            <4>1. SplayStep(u, len, n) = u
                BY <3>1 DEF SplayStep, IsChild, Up
            <4> QED BY <3>1, <4>1
        <3>2. CASE k <= Size(q, n)
            BY <2>3, <2>6, <3>2
        <3> QED BY <2>1, <3>1, <3>2
    <2> QED BY <2>4, <2>5, <2>7
<1>3. \A u \in U : F[u] \in U
    <2> SUFFICES ASSUME NEW u \in U PROVE F[u] \in U
        OBVIOUS
    <2>1. PICK q : Lifted(t, u, len, D, p, q, lo, hi, n)
        OBVIOUS
    <2>2. q \in Layouts(D) /\ u \in Tree
        BY <2>1 DEF Lifted
    <2>3. Size(q, n) \in Int
        BY <2>2, LayoutType DEF Size, Sides
    <2>4. u \in Far(Size(q, n))
        BY <2>1, <2>2, <2>3
    <2>5. SplayStep(u, len, n) \in U
        BY <1>2, <2>3, <2>4
    <2>6. F[u] = SplayStep(u, len, n)
        BY <2>2
    <2> HIDE DEF F, U
    <2> QED BY <2>5, <2>6
<1>4. Lifted(t, t, len, D, p, p, lo, hi, n)
    BY <1>1 DEF Lifted, Apart
<1>5. t \in U
    BY <1>1, <1>4
<1>6. \E f : Loop(f)
    <2>1. PICK f : Loops(f, Depth, t, F)
        <3> HIDE DEF F
        <3> QED BY LoopsExist
    <2>2. \A k \in 0 .. Depth : f[k] \in U
        <3> HIDE DEF F, U
        <3> QED BY <1>3, <1>5, <2>1, LoopStays
    <2>3. \A k \in 1 .. Depth : k - 1 \in 0 .. Depth
        OBVIOUS
    <2>4. \A k \in 1 .. Depth : F[f[k - 1]] = SplayStep(f[k - 1], len, n)
        BY <2>2, <2>3
    <2>5. f = [k \in 0 .. Depth |-> IF k = 0 THEN t ELSE F[f[k - 1]]]
        BY <2>1 DEF Loops
    <2>6. \A k \in 0 .. Depth : (IF k = 0 THEN t ELSE F[f[k - 1]]) = Step(f, k)
        <3> HIDE DEF F
        <3>1. \A k \in 0 .. Depth : k = 0 \/ k \in 1 .. Depth
            OBVIOUS
        <3> QED BY <2>4, <3>1
    <2>7. f = [k \in 0 .. Depth |-> Step(f, k)]
        <3> HIDE DEF F, Step
        <3> QED BY <2>5, <2>6
    <2> QED BY <2>7
<1> DEFINE h == CHOOSE f : Loop(f)
<1>7. Loop(h)
    BY <1>6
<1>8. Splay(t, len, n) = h[Depth]
    BY DEF Splay
<1> HIDE DEF h
<1>9. h[0] = t /\ \A k \in 1 .. Depth : h[k] = SplayStep(h[k - 1], len, n)
    <2>1. \A k \in 0 .. Depth : h[k] = Step(h, k)
        <3> HIDE DEF Step
        <3> QED BY <1>7
    <2> QED BY <2>1
<1> DEFINE S == [k \in 0 .. Depth |-> Far(k)]
<1>10. h[Depth] \in S[Depth]
    <2>1. h[0] \in S[0]
        <3>1. Size(p, n) \in Nat
            BY <1>1, ForestFacts DEF Size
        <3>2. t \in Far(0)
            BY <1>1, <1>4, <3>1
        <3> HIDE DEF Far
        <3> QED BY <1>9, <3>2
    <2>2. \A k \in 1 .. Depth : h[k - 1] \in S[k - 1] => h[k] \in S[k]
        <3> SUFFICES ASSUME NEW k \in 1 .. Depth, h[k - 1] \in S[k - 1] PROVE h[k] \in S[k]
            OBVIOUS
        <3> HIDE DEF Far
        <3>1. k - 1 \in 0 .. Depth /\ k - 1 \in Int /\ (k - 1) + 1 = k
            OBVIOUS
        <3>2. h[k - 1] \in Far(k - 1)
            BY <3>1
        <3>3. SplayStep(h[k - 1], len, n) \in Far(k)
            BY <1>2, <3>1, <3>2
        <3> QED BY <1>9, <3>3
    <2> HIDE DEF S
    <2> QED BY <2>1, <2>2, LoopReaches
<1>11. h[Depth] \in Far(Depth)
    <2> HIDE DEF Far
    <2> QED BY <1>10
<1>12. PICK q : /\ Lifted(t, h[Depth], len, D, p, q, lo, hi, n)
                /\ Depth <= Size(q, n) \/ Up(h[Depth], n) = Nil
    BY <1>11
<1>13. Whole(h[Depth], D, q, lo, hi) /\ Forest(h[Depth], D, q)
    BY <1>12, HeldFacts DEF Lifted
<1>14. Size(q, n) <= hi - lo /\ Size(q, n) \in Int
    <2>1. lo <= Edge(q, "left", n) /\ Edge(q, "right", n) <= hi
        BY <1>13 DEF Whole
    <2> QED BY <1>1, <1>13, <2>1, ForestFacts DEF Size
<1>15. Up(h[Depth], n) = Nil
    BY <1>1, <1>12, <1>14
<1>16. Top(h[Depth]) = n
    BY <1>13, <1>15, ParentFacts
<1> QED BY <1>8, <1>12, <1>16

-----------------------------------------------------------------------------
(***************************************************************************)
(* An insertion                                                            *)
(***************************************************************************)

ChildChanged(v, t, s, b, x) ==
    /\ v \in Tree /\ v.root = t.root /\ v.parent = t.parent /\ v.weight = t.weight
    /\ \A r \in Sides, c \in Nodes : Kid(v, r, c) = IF r = s /\ c = b THEN x ELSE Kid(t, r, c)

LEMMA ChangeChild ==
    ASSUME NEW t \in Tree, NEW s \in Sides, NEW b \in Nodes, NEW x \in Nodes \cup {Nil}
    PROVE  ChildChanged([t EXCEPT !.child[s][b] = x], t, s, b, x)
<1> DEFINE M == Nodes \cup {Nil}
           f == t.child
           g == [f EXCEPT ![s][b] = x]
           v == [t EXCEPT !.child = g]
<1>1. f \in [Sides -> [Nodes -> M]] /\ x \in M
    BY DEF Tree
<1>2. /\ g \in [Sides -> [Nodes -> M]]
      /\ \A r \in Sides, c \in Nodes : g[r][c] = IF r = s /\ c = b THEN x ELSE f[r][c]
    <2> HIDE DEF M, f
    <2> QED BY <1>1, ChildSet
<1>3. [t EXCEPT !.child[s][b] = x] = v
    BY DEF Tree
<1> HIDE DEF g
<1>4. v \in Tree /\ v.child = g /\ v.root = t.root /\ v.parent = t.parent /\ v.weight = t.weight
    BY <1>2, SetChild
<1> HIDE DEF v
<1>5. ChildChanged(v, t, s, b, x)
    BY <1>2, <1>4 DEF ChildChanged, Kid
<1> QED BY <1>3, <1>5

LEMMA ChangeParent ==
    ASSUME NEW t \in Tree, NEW n \in Nodes, NEW p \in Nodes \cup {Nil}
    PROVE  ParentSet([t EXCEPT !.parent[n] = p], t, n, p)
<1>1. SetParent(t, n, p) = [t EXCEPT !.parent[n] = p]
    BY NilFacts DEF SetParent
<1> QED BY <1>1, SetParentFacts

\* What InsertAfter does once prev is at the top.
Joined(t, v, len, prev, n) ==
    /\ v \in Tree /\ Top(v) = n
    /\ \A b \in Nodes, s \in Sides :
        Kid(v, s, b) = IF b = n THEN (IF s = "left" THEN prev ELSE Kid(t, "right", prev))
                       ELSE IF b = prev /\ s = "right" THEN Nil
                       ELSE Kid(t, s, b)
    /\ \A b \in Nodes :
        Up(v, b) = IF b = Kid(t, "right", prev) \/ b = prev THEN n ELSE Up(t, b)
    /\ \A b \in Nodes \ {n, prev} : Heavy(v, b) = Heavy(t, b)
    /\ Sums(v, len, prev) /\ Sums(v, len, n)

LinkAfter(s, prev, n, right) ==
    [s EXCEPT !.root = n,
              !.child["right"][n] = right, !.child["left"][n] = prev,
              !.parent[prev] = n, !.child["right"][prev] = Nil]

AfterLinked(v, t, prev, n, right) ==
    /\ v \in Tree /\ Top(v) = n /\ v.weight = t.weight
    /\ \A b \in Nodes, s \in Sides :
        Kid(v, s, b) = IF b = n THEN (IF s = "left" THEN prev ELSE right)
                       ELSE IF b = prev /\ s = "right" THEN Nil
                       ELSE Kid(t, s, b)
    /\ \A b \in Nodes : Up(v, b) = IF b = prev THEN n ELSE Up(t, b)

LEMMA LinkAfterFacts ==
    ASSUME NEW t \in Tree, NEW prev \in Nodes, NEW n \in Nodes, NEW right \in Nodes \cup {Nil},
           prev # n
    PROVE  AfterLinked(LinkAfter(t, prev, n, right), t, prev, n, right)
<1> DEFINE t1 == [t EXCEPT !.root = n]
           t2 == [t1 EXCEPT !.child["right"][n] = right]
           t3 == [t2 EXCEPT !.child["left"][n] = prev]
           t4 == [t3 EXCEPT !.parent[prev] = n]
           t5 == [t4 EXCEPT !.child["right"][prev] = Nil]
<1>1. LinkAfter(t, prev, n, right) = t5
    BY DEF LinkAfter
<1>s. /\ "left" \in Sides /\ "right" \in Sides /\ \A s \in Sides : s = "left" \/ s = "right"
      /\ Nil \in Nodes \cup {Nil} /\ n \in Nodes \cup {Nil} /\ prev \in Nodes \cup {Nil}
    BY DEF Sides
<1>2. t1 \in Tree /\ t1.root = n /\ t1.child = t.child /\ t1.parent = t.parent /\ t1.weight = t.weight
    BY SetRoot
<1> HIDE DEF t1
<1>3. ChildChanged(t2, t1, "right", n, right)
    BY <1>2, <1>s, ChangeChild
<1> HIDE DEF t2
<1>4. ChildChanged(t3, t2, "left", n, prev)
    BY <1>3, <1>s, ChangeChild DEF ChildChanged
<1> HIDE DEF t3
<1>5. ParentSet(t4, t3, prev, n)
    BY <1>4, <1>s, ChangeParent DEF ChildChanged
<1> HIDE DEF t4
<1>6. ChildChanged(t5, t4, "right", prev, Nil)
    BY <1>5, <1>s, ChangeChild DEF ParentSet
<1> HIDE DEF t5
<1>7. t5 \in Tree /\ Top(t5) = n /\ t5.weight = t.weight
    BY <1>2, <1>3, <1>4, <1>5, <1>6 DEF ChildChanged, ParentSet, Top
<1>8. \A b \in Nodes : Up(t5, b) = IF b = prev THEN n ELSE Up(t, b)
    BY <1>2, <1>3, <1>4, <1>5, <1>6 DEF ChildChanged, ParentSet, Up
<1>9. \A b \in Nodes, s \in Sides : Kid(t1, s, b) = Kid(t, s, b) /\ Kid(t4, s, b) = Kid(t3, s, b)
    BY <1>2, <1>5 DEF Kid, ParentSet
<1>10. \A b \in Nodes, s \in Sides :
            Kid(t3, s, b) = IF b = n THEN (IF s = "left" THEN prev ELSE right) ELSE Kid(t, s, b)
    BY <1>3, <1>4, <1>9, <1>s DEF ChildChanged
<1>11. \A b \in Nodes, s \in Sides :
            Kid(t5, s, b) = IF b = n THEN (IF s = "left" THEN prev ELSE right)
                            ELSE IF b = prev /\ s = "right" THEN Nil
                            ELSE Kid(t, s, b)
    BY <1>6, <1>9, <1>10, <1>s DEF ChildChanged
<1> QED BY <1>1, <1>7, <1>8, <1>11 DEF AfterLinked

LEMMA UpdateKeeps ==
    ASSUME NEW t \in Tree, NEW len \in [Nodes -> Nat], NEW b \in Nodes, NEW v,
           v = UpdateSubtree(t, len, b), \A s \in Sides : Kid(t, s, b) # b
    PROVE  /\ v \in Tree /\ v.root = t.root /\ v.child = t.child /\ v.parent = t.parent
           /\ \A c \in Nodes \ {b} : Heavy(v, c) = Heavy(t, c)
           /\ Sums(v, len, b)
           /\ \A c \in Nodes \ {b} : Sums(t, len, c) /\ (\A s \in Sides : Kid(t, s, c) # b)
                => Sums(v, len, c)
<1>1. /\ v \in Tree /\ v.root = t.root /\ v.child = t.child /\ v.parent = t.parent
      /\ \A c \in Nodes \ {b} : Heavy(v, c) = Heavy(t, c)
      /\ Heavy(v, b) = len[b] + Weight(t, Kid(t, "left", b)) + Weight(t, Kid(t, "right", b))
    BY UpdateFacts
<1>s. "left" \in Sides /\ "right" \in Sides
    BY DEF Sides
<1>2. \A s \in Sides, c \in Nodes : /\ Kid(v, s, c) = Kid(t, s, c)
                                    /\ Kid(t, s, c) \in Nodes \cup {Nil}
    BY <1>1, TreeType DEF Kid
<1>3. \A k \in Nodes \cup {Nil} : k # b => Weight(v, k) = Weight(t, k)
    BY <1>1 DEF Weight, Heavy
<1>4. Sums(v, len, b)
    BY <1>1, <1>2, <1>3, <1>s DEF Sums
<1>5. ASSUME NEW c \in Nodes \ {b}, Sums(t, len, c), \A s \in Sides : Kid(t, s, c) # b
      PROVE  Sums(v, len, c)
    BY <1>1, <1>2, <1>3, <1>5, <1>s DEF Sums
<1> QED BY <1>1, <1>4, <1>5

LEMMA InsertJoins ==
    ASSUME NEW t \in Tree, NEW len \in [Nodes -> Nat], NEW prev \in Nodes, NEW n \in Nodes, prev # n,
           NEW u, u = Splay(t, len, prev), u \in Tree,
           Kid(u, "right", prev) \notin {prev, n}, Kid(u, "left", prev) \notin {prev, n}
    PROVE  Joined(u, InsertAfter(t, len, prev, n), len, prev, n)
<1> DEFINE right == Kid(u, "right", prev)
           a == LinkAfter(u, prev, n, right)
           b == SetParent(a, right, n)
           c == UpdateSubtree(b, len, prev)
           v == UpdateSubtree(c, len, n)
<1>s. "left" \in Sides /\ "right" \in Sides /\ \A s \in Sides : s = "left" \/ s = "right"
    BY DEF Sides
<1>1. InsertAfter(t, len, prev, n) = v
    BY DEF InsertAfter, LinkAfter, Kid
<1>2. right \in Nodes \cup {Nil} /\ right \notin {prev, n}
    BY <1>s, TreeType
<1> HIDE DEF right
<1>3. /\ a \in Tree /\ Top(a) = n /\ a.weight = u.weight
      /\ \A x \in Nodes, s \in Sides :
            Kid(a, s, x) = IF x = n THEN (IF s = "left" THEN prev ELSE right)
                           ELSE IF x = prev /\ s = "right" THEN Nil
                           ELSE Kid(u, s, x)
      /\ \A x \in Nodes : Up(a, x) = IF x = prev THEN n ELSE Up(u, x)
    <2>1. AfterLinked(a, u, prev, n, right)
        BY <1>2, LinkAfterFacts
    <2> HIDE DEF a
    <2> QED BY <2>1 DEF AfterLinked
<1> HIDE DEF a
<1>4. ParentSet(b, a, right, n)
    BY <1>2, <1>3, SetParentFacts
<1> HIDE DEF b
<1>5. \A x \in Nodes, s \in Sides : Kid(b, s, x) = Kid(a, s, x)
    BY <1>4 DEF ParentSet, Kid
<1>6. b \in Tree
    BY <1>4 DEF ParentSet
<1>7. \A s \in Sides : Kid(b, s, prev) \notin {prev, n} /\ Kid(b, s, n) # n
    BY <1>2, <1>3, <1>5, <1>s, NilFacts
<1>8. /\ c \in Tree /\ c.root = b.root /\ c.child = b.child /\ c.parent = b.parent
      /\ \A x \in Nodes \ {prev} : Heavy(c, x) = Heavy(b, x)
      /\ Sums(c, len, prev)
    BY <1>6, <1>7, UpdateKeeps
<1> HIDE DEF c
<1>9. \A s \in Sides : Kid(c, s, prev) \notin {prev, n} /\ Kid(c, s, n) # n
    BY <1>7, <1>8 DEF Kid
<1>10. /\ v \in Tree /\ v.root = c.root /\ v.child = c.child /\ v.parent = c.parent
       /\ \A x \in Nodes \ {n} : Heavy(v, x) = Heavy(c, x)
       /\ Sums(v, len, n) /\ Sums(v, len, prev)
    BY <1>8, <1>9, UpdateKeeps
<1> HIDE DEF v
<1>11. Top(v) = n
    BY <1>3, <1>4, <1>8, <1>10 DEF Top, ParentSet
<1>12. \A x \in Nodes, s \in Sides : Kid(v, s, x) = Kid(a, s, x)
    BY <1>5, <1>8, <1>10 DEF Kid
<1>13. \A x \in Nodes : Up(v, x) = IF x = right \/ x = prev THEN n ELSE Up(u, x)
    <2>1. \A x \in Nodes : Up(v, x) = Up(b, x)
        BY <1>8, <1>10 DEF Up
    <2> QED BY <1>3, <1>4, <2>1 DEF ParentSet
<1>14. \A x \in Nodes \ {n, prev} : Heavy(v, x) = Heavy(u, x)
    <2>1. \A x \in Nodes : Heavy(b, x) = Heavy(u, x)
        BY <1>3, <1>4 DEF Heavy, ParentSet
    <2> QED BY <1>8, <1>10, <2>1
<1> QED BY <1>1, <1>3, <1>10, <1>11, <1>12, <1>13, <1>14 DEF Joined, right

\* Below the top, an interval is on one side of it.
LEMMA Beside ==
    ASSUME NEW t, NEW D, NEW p, NEW lo, NEW hi, Whole(t, D, p, lo, hi), NEW b \in D, b # Top(t)
    PROVE  /\ At(p, Top(t)) \in Int /\ At(p, b) \in Int
           /\ \/ At(p, b) < At(p, Top(t)) /\ Edge(p, "right", b) < At(p, Top(t))
              \/ At(p, Top(t)) < At(p, b) /\ At(p, Top(t)) < Edge(p, "left", b)
           /\ \A s \in Sides : Kid(t, s, b) # Nil =>
                /\ Kid(t, s, b) \in D \ {Top(t)}
                /\ At(p, Kid(t, s, b)) < At(p, Top(t)) <=> At(p, b) < At(p, Top(t))
<1>1. Forest(t, D, p) /\ Top(t) \in D /\ Up(t, Top(t)) = Nil /\ Nil \notin D
    BY ForestFacts, NilFacts DEF Whole
<1>2. ~Holds(p, At(p, Top(t)), b)
    BY TopAbove
<1>3. \A c \in D : /\ At(p, c) \in Int /\ Edge(p, "left", c) \in Int /\ Edge(p, "right", c) \in Int
                   /\ Edge(p, "left", c) <= At(p, c) /\ At(p, c) <= Edge(p, "right", c)
    BY <1>1, ForestFacts
<1>4. \/ At(p, b) < At(p, Top(t)) /\ Edge(p, "right", b) < At(p, Top(t))
      \/ At(p, Top(t)) < At(p, b) /\ At(p, Top(t)) < Edge(p, "left", b)
    BY <1>1, <1>2, <1>3 DEF Holds
<1>5. ASSUME NEW s \in Sides, Kid(t, s, b) # Nil
      PROVE  /\ Kid(t, s, b) \in D \ {Top(t)}
             /\ At(p, Kid(t, s, b)) < At(p, Top(t)) <=> At(p, b) < At(p, Top(t))
    <2> DEFINE k == Kid(t, s, b)
    <2>1. /\ k \in D /\ Up(t, k) = b /\ Edge(p, "left", b) <= Edge(p, "left", k)
          /\ Edge(p, "right", k) <= Edge(p, "right", b)
        BY <1>1, <1>5, KidFacts
    <2> HIDE DEF k
    <2>2. k # Top(t)
        BY <1>1, <2>1
    <2>3. At(p, k) < At(p, Top(t)) <=> At(p, b) < At(p, Top(t))
        BY <1>1, <1>3, <1>4, <2>1
    <2> QED BY <2>1, <2>2, <2>3 DEF k
<1> QED BY <1>1, <1>3, <1>4, <1>5

\* The layout with a place opened for n behind prev, which is at the top.
Behind(p, x, b) == IF x < At(p, b) THEN 1 ELSE 0
Opened(q, p, D, prev, n, lo, hi) ==
    /\ q \in Layouts(D \cup {n})
    /\ At(q, n) = At(p, prev) + 1
    /\ Edge(q, "left", n) = lo /\ Edge(q, "right", n) = hi + 1
    /\ At(q, prev) = At(p, prev)
    /\ Edge(q, "left", prev) = lo /\ Edge(q, "right", prev) = At(p, prev)
    /\ \A b \in D \ {prev} :
        /\ At(q, b) = At(p, b) + Behind(p, At(p, prev), b)
        /\ \A s \in Sides : Edge(q, s, b) = Edge(p, s, b) + Behind(p, At(p, prev), b)

LEMMA OpenedExists ==
    ASSUME NEW D, NEW p \in Layouts(D), NEW prev \in D, NEW n, n \notin D, NEW lo \in Int, NEW hi \in Int
    PROVE  \E q : Opened(q, p, D, prev, n, lo, hi)
<1> DEFINE x == At(p, prev)
           A(b) == IF b = n THEN x + 1 ELSE IF b = prev THEN x ELSE At(p, b) + Behind(p, x, b)
           E(s, b) == IF b = n THEN (IF s = "left" THEN lo ELSE hi + 1)
                      ELSE IF b = prev THEN (IF s = "left" THEN lo ELSE x)
                      ELSE Edge(p, s, b) + Behind(p, x, b)
           a == [b \in D \cup {n} |-> A(b)]
           e == [s \in Sides |-> [b \in D \cup {n} |-> E(s, b)]]
           q == [at |-> a, edge |-> e]
<1>1. \A b \in D : At(p, b) \in Int /\ \A s \in Sides : Edge(p, s, b) \in Int
    BY LayoutType
<1>2. \A b \in D : Behind(p, x, b) \in Int
    BY DEF Behind
<1>3. x \in Int
    BY <1>1
<1>4. \A b \in D \cup {n} : A(b) \in Int /\ \A s \in Sides : E(s, b) \in Int
    BY <1>1, <1>2, <1>3
<1>5. /\ A(n) = x + 1 /\ A(prev) = x /\ \A b \in D \ {prev} : A(b) = At(p, b) + Behind(p, x, b)
      /\ E("left", n) = lo /\ E("right", n) = hi + 1 /\ E("left", prev) = lo /\ E("right", prev) = x
      /\ \A b \in D \ {prev}, s \in Sides : E(s, b) = Edge(p, s, b) + Behind(p, x, b)
    OBVIOUS
<1> HIDE DEF A, E
<1>6. /\ a \in [D \cup {n} -> Int] /\ \A b \in D \cup {n} : a[b] = A(b)
      /\ e \in [Sides -> [D \cup {n} -> Int]] /\ \A s \in Sides, b \in D \cup {n} : e[s][b] = E(s, b)
    BY <1>4
<1> HIDE DEF a, e
<1>7. q \in Layouts(D \cup {n}) /\ q.at = a /\ q.edge = e
    BY <1>6 DEF Layouts
<1> HIDE DEF q
<1>8. \A b \in D \cup {n} : At(q, b) = A(b) /\ \A s \in Sides : Edge(q, s, b) = E(s, b)
    BY <1>6, <1>7 DEF At, Edge
<1>9. Opened(q, p, D, prev, n, lo, hi)
    BY <1>5, <1>7, <1>8 DEF Opened, Sides
<1> QED BY <1>9

LEMMA OpenedHangs ==
    ASSUME NEW t, NEW len, NEW D, NEW p, NEW lo, NEW hi, Whole(t, D, p, lo, hi),
           NEW prev, prev = Top(t), NEW n, n \in Nodes \ D, NEW v, Joined(t, v, len, prev, n),
           NEW q, Opened(q, p, D, prev, n, lo, hi), NEW s \in Sides, NEW b \in D \cup {n}
    PROVE  Hangs(v, D \cup {n}, q, s, b)
<1> DEFINE x == At(p, prev)
           right == Kid(t, "right", prev)
<1>1. /\ Forest(t, D, p) /\ prev \in D /\ Up(t, prev) = Nil /\ Nil \notin D /\ D \subseteq Nodes
      /\ lo \in Int /\ hi \in Int /\ Edge(p, "left", prev) = lo /\ Edge(p, "right", prev) = hi
    BY ForestFacts, NilFacts DEF Whole
<1>s. s = "left" \/ s = "right"
    BY DEF Sides
<1>t. "left" \in Sides /\ "right" \in Sides
    BY DEF Sides
<1>2. \A c \in Nodes, r \in Sides :
        Kid(v, r, c) = IF c = n THEN (IF r = "left" THEN prev ELSE right)
                       ELSE IF c = prev /\ r = "right" THEN Nil
                       ELSE Kid(t, r, c)
    BY DEF Joined
<1>3. \A c \in Nodes : Up(v, c) = IF c = right \/ c = prev THEN n ELSE Up(t, c)
    BY DEF Joined
<1>4. /\ At(q, n) = x + 1
      /\ Edge(q, "left", n) = lo /\ Edge(q, "right", n) = hi + 1
      /\ At(q, prev) = x
      /\ Edge(q, "left", prev) = lo /\ Edge(q, "right", prev) = x
      /\ \A c \in D \ {prev} :
           /\ At(q, c) = At(p, c) + Behind(p, x, c)
           /\ \A r \in Sides : Edge(q, r, c) = Edge(p, r, c) + Behind(p, x, c)
    BY DEF Opened
<1>5. \A c \in D, r \in Sides : Kid(t, r, c) # Nil =>
        /\ Kid(t, r, c) \in D /\ Up(t, Kid(t, r, c)) = c /\ Kid(t, r, c) # c
        /\ Edge(p, r, Kid(t, r, c)) = Edge(p, r, c)
        /\ Edge(p, Other(r), Kid(t, r, c)) = At(p, c) + Toward(r)
    BY <1>1, KidFacts
<1>6. \A c \in D, r \in Sides : Kid(t, r, c) = Nil => Edge(p, r, c) = At(p, c)
    BY <1>1, NilKid
<1>7. \A c \in D : /\ At(p, c) \in Int /\ Edge(p, "left", c) \in Int /\ Edge(p, "right", c) \in Int
                   /\ Edge(p, "left", c) <= At(p, c) /\ At(p, c) <= Edge(p, "right", c)
    BY <1>1, ForestFacts
<1> HIDE DEF x, right
<1>8. CASE b = n
    <2>1. CASE s = "left"
        <3>1. Kid(v, s, b) = prev /\ prev # Nil
            BY <1>1, <1>2, <1>8, <2>1, <1>t
        <3>2. Up(v, prev) = b
            BY <1>1, <1>3, <1>8
        <3>3. Edge(q, s, prev) = Edge(q, s, b)
            BY <1>4, <1>8, <2>1
        <3>4. Edge(q, Other(s), prev) = At(q, b) + Toward(s)
            <4>1. Other(s) = "right" /\ Toward(s) = -1 /\ x \in Int
                BY <1>1, <1>7, <2>1 DEF Other, Toward, x
            <4> QED BY <1>4, <1>8, <4>1
        <3> QED BY <1>1, <3>1, <3>2, <3>3, <3>4 DEF Hangs
    <2>2. CASE s = "right"
        <3>1. Kid(v, s, b) = right
            BY <1>2, <1>8, <2>2, <1>t
        <3>2. CASE right = Nil
            <4>1. hi = x
                BY <1>1, <1>6, <1>t, <3>2 DEF x, right
            <4> QED BY <1>4, <1>8, <2>2, <3>1, <3>2, <4>1 DEF Hangs
        <3>3. CASE right # Nil
            <4>1. /\ right \in D /\ Up(t, right) = prev /\ right # prev
                  /\ Edge(p, "right", right) = hi
                  /\ Edge(p, Other("right"), right) = x + Toward("right")
                BY <1>1, <1>5, <1>t, <3>3 DEF right, x
            <4>2. Edge(p, "left", right) = x + 1
                BY <4>1 DEF Other, Toward
            <4>3. Behind(p, x, right) = 1
                BY <1>1, <1>7, <4>1, <4>2 DEF Behind, x
            <4>4. Edge(q, "right", right) = hi + 1 /\ Edge(q, "left", right) = (x + 1) + 1
                BY <1>4, <1>t, <4>1, <4>2, <4>3
            <4>5. Up(v, right) = n
                BY <1>1, <1>3, <4>1
            <4>6. Other(s) = "left" /\ Toward(s) = 1
                BY <2>2 DEF Other, Toward
            <4> QED BY <1>4, <1>8, <2>2, <3>1, <3>3, <4>1, <4>4, <4>5, <4>6 DEF Hangs
        <3> QED BY <3>2, <3>3
    <2> QED BY <1>s, <2>1, <2>2
<1>9. CASE b = prev
    <2>1. CASE s = "right"
        <3>1. Kid(v, s, b) = Nil
            BY <1>1, <1>2, <1>9, <2>1, <1>t
        <3> QED BY <1>4, <1>9, <2>1, <3>1 DEF Hangs
    <2>2. CASE s = "left"
        <3> DEFINE k == Kid(t, "left", prev)
        <3>1. Kid(v, s, b) = k
            BY <1>1, <1>2, <1>9, <2>2, <1>t
        <3>2. CASE k = Nil
            <4>1. lo = x
                BY <1>1, <1>6, <1>t, <3>2 DEF x
            <4> QED BY <1>4, <1>9, <2>2, <3>1, <3>2, <4>1 DEF Hangs
        <3>3. CASE k # Nil
            <4>1. /\ k \in D /\ Up(t, k) = prev /\ k # prev
                  /\ Edge(p, "left", k) = lo
                  /\ Edge(p, Other("left"), k) = x + Toward("left")
                BY <1>1, <1>5, <1>t, <3>3 DEF x
            <4>r. k # right
                BY <1>1, <3>3, KidsDiffer DEF right
            <4> HIDE DEF k
            <4>2. Edge(p, "right", k) = x + -1
                BY <4>1 DEF Other, Toward
            <4>3. Behind(p, x, k) = 0
                BY <1>1, <1>7, <4>1, <4>2 DEF Behind, x
            <4>4. Edge(q, "left", k) = lo /\ Edge(q, "right", k) = x + -1
                <5>1. x \in Int
                    BY <1>1, <1>7 DEF x
                <5> QED BY <1>1, <1>4, <1>t, <4>1, <4>2, <4>3, <5>1
            <4>5. Up(v, k) = b
                BY <1>1, <1>3, <1>9, <4>1, <4>r
            <4>6. Other(s) = "right" /\ Toward(s) = -1
                BY <2>2 DEF Other, Toward
            <4>7. Kid(v, s, b) = k
                BY <3>1 DEF k
            <4> QED BY <1>4, <1>9, <2>2, <3>3, <4>1, <4>4, <4>5, <4>6, <4>7 DEF Hangs
        <3> QED BY <3>2, <3>3
    <2> QED BY <1>s, <2>1, <2>2
<1>10. CASE b # n /\ b # prev
    <2> DEFINE k == Kid(t, s, b)
    <2>1. b \in D \ {prev} /\ b \in Nodes /\ Kid(v, s, b) = k
        BY <1>1, <1>2, <1>10
    <2>2. At(q, b) = At(p, b) + Behind(p, x, b) /\ Edge(q, s, b) = Edge(p, s, b) + Behind(p, x, b)
        BY <1>4, <2>1
    <2>3. CASE k = Nil
        BY <1>6, <2>1, <2>2, <2>3 DEF Hangs
    <2>4. CASE k # Nil
        <3>1. /\ k \in D \ {prev} /\ (At(p, k) < x <=> At(p, b) < x)
            BY <2>1, <2>4, Beside DEF x
        <3>2. /\ Up(t, k) = b /\ Edge(p, s, k) = Edge(p, s, b)
              /\ Edge(p, Other(s), k) = At(p, b) + Toward(s)
            BY <1>5, <2>1, <2>4
        <3> HIDE DEF k
        <3>3. x \in Int /\ At(p, b) # x /\ At(p, k) # x /\ At(p, b) \in Int /\ At(p, k) \in Int
            BY <1>1, <1>7, <2>1, <3>1, ForestFacts DEF x
        <3>4. Behind(p, x, k) = Behind(p, x, b) /\ Behind(p, x, b) \in Int
            BY <3>1, <3>3 DEF Behind
        <3>5. k # right
            <4>1. right # Nil => Up(t, right) = prev
                BY <1>1, <1>5, <1>t DEF right
            <4> QED BY <1>1, <2>1, <3>1, <3>2, <4>1
        <3>6. Up(v, k) = b
            BY <1>1, <1>3, <3>1, <3>2, <3>5
        <3>7. /\ Edge(q, s, k) = Edge(p, s, k) + Behind(p, x, b)
              /\ Edge(q, Other(s), k) = Edge(p, Other(s), k) + Behind(p, x, b)
            BY <1>4, <3>1, <3>4, SideFacts
        <3>8. Edge(q, Other(s), k) = At(q, b) + Toward(s)
            <4>1. Toward(s) \in Int
                BY TowardFacts
            <4> QED BY <2>2, <3>2, <3>3, <3>4, <3>7, <4>1
        <3>9. Kid(v, s, b) = k
            BY <2>1 DEF k
        <3> QED BY <2>2, <2>4, <3>1, <3>2, <3>6, <3>7, <3>8, <3>9 DEF Hangs
    <2> QED BY <2>3, <2>4
<1> QED BY <1>1, <1>8, <1>9, <1>10

LEMMA OpenedWhole ==
    ASSUME NEW t, NEW len, NEW D, NEW p, NEW lo, NEW hi, Whole(t, D, p, lo, hi),
           NEW prev, prev = Top(t), NEW n, n \in Nodes \ D, Up(t, n) = Nil,
           NEW v, Joined(t, v, len, prev, n), NEW q, Opened(q, p, D, prev, n, lo, hi)
    PROVE  Whole(v, D \cup {n}, q, lo, hi + 1)
<1> DEFINE x == At(p, prev)
           right == Kid(t, "right", prev)
           E == D \cup {n}
<1>1. /\ Forest(t, D, p) /\ prev \in D /\ Up(t, prev) = Nil /\ Nil \notin D /\ D \subseteq Nodes
      /\ lo \in Int /\ hi \in Int /\ Edge(p, "left", prev) = lo /\ Edge(p, "right", prev) = hi
      /\ \A b \in D : lo <= Edge(p, "left", b) /\ Edge(p, "right", b) <= hi
    BY ForestFacts, NilFacts DEF Whole
<1>t. "left" \in Sides /\ "right" \in Sides
    BY DEF Sides
<1>2. /\ At(q, n) = x + 1
      /\ Edge(q, "left", n) = lo /\ Edge(q, "right", n) = hi + 1
      /\ At(q, prev) = x
      /\ Edge(q, "left", prev) = lo /\ Edge(q, "right", prev) = x
      /\ \A c \in D \ {prev} :
           /\ At(q, c) = At(p, c) + Behind(p, x, c)
           /\ Edge(q, "left", c) = Edge(p, "left", c) + Behind(p, x, c)
           /\ Edge(q, "right", c) = Edge(p, "right", c) + Behind(p, x, c)
    BY <1>t DEF Opened
<1>3. \A c \in D : /\ At(p, c) \in Int /\ Edge(p, "left", c) \in Int /\ Edge(p, "right", c) \in Int
                   /\ Edge(p, "left", c) <= At(p, c) /\ At(p, c) <= Edge(p, "right", c)
    BY <1>1, ForestFacts
<1>4. \A b, c \in D : At(p, b) = At(p, c) => b = c
    BY <1>1, ForestFacts
<1> HIDE DEF x
<1>5. x \in Int /\ lo <= x /\ x <= hi
    BY <1>1, <1>3 DEF x
<1>6. \A c \in D \ {prev} : At(p, c) # x
    BY <1>1, <1>4 DEF x
<1>7. \A c \in D : (x < At(p, c) /\ Behind(p, x, c) = 1) \/ (At(p, c) <= x /\ Behind(p, x, c) = 0)
    BY <1>3, <1>5 DEF Behind
<1>8. ASSUME NEW b \in E PROVE Holds(q, At(q, b), b)
    <2>1. CASE b = n
        BY <1>1, <1>2, <1>5, <2>1 DEF Holds
    <2>2. CASE b = prev
        BY <1>1, <1>2, <1>5, <2>2 DEF Holds
    <2>3. CASE b \in D \ {prev}
        BY <1>2, <1>3, <1>7, <2>3 DEF Holds
    <2> QED BY <2>1, <2>2, <2>3
<1>9. ASSUME NEW b \in E, NEW c \in E, At(q, b) = At(q, c) PROVE b = c
    <2>1. \A a \in D \ {prev} : At(q, a) \in Int /\ (At(q, a) < x \/ x + 1 < At(q, a))
        BY <1>2, <1>3, <1>5, <1>6, <1>7
    <2>2. CASE b \in D \ {prev} /\ c \in D \ {prev}
        <3>1. At(p, b) = At(p, c)
            BY <1>2, <1>3, <1>5, <1>6, <1>7, <1>9, <2>2
        <3> QED BY <1>4, <2>2, <3>1
    <2>3. CASE b \notin D \ {prev} \/ c \notin D \ {prev}
        BY <1>2, <1>5, <1>9, <2>1, <2>3
    <2> QED BY <2>2, <2>3
<1>10. v \in Tree /\ q \in Layouts(E) /\ E \subseteq Nodes /\ Top(v) = n
    BY <1>1 DEF Joined, Opened
<1>11. \A s \in Sides, b \in E : Hangs(v, E, q, s, b)
    BY OpenedHangs
<1> HIDE DEF E
<1>12. Forest(v, E, q)
    BY <1>8, <1>9, <1>10, <1>11 DEF Forest
<1>13. Up(v, n) = Nil
    <2>1. right # Nil => right \in D
        BY <1>1, <1>t, KidFacts
    <2>2. n # right /\ n # prev
        BY <1>1, <2>1, NilFacts
    <2> QED BY <2>2 DEF Joined
<1>14. ASSUME NEW b \in E PROVE lo <= Edge(q, "left", b) /\ Edge(q, "right", b) <= hi + 1
    <2>1. CASE b = n \/ b = prev
        BY <1>1, <1>2, <1>5, <2>1
    <2>2. CASE b \in D \ {prev}
        BY <1>1, <1>2, <1>3, <1>7, <2>2
    <2> QED BY <2>1, <2>2 DEF E
<1>15. n \in E
    BY DEF E
<1>16. lo \in Int /\ hi + 1 \in Int
    BY <1>1
<1>17. Whole(v, E, q, lo, hi + 1)
    BY <1>2, <1>10, <1>12, <1>13, <1>14, <1>15, <1>16 DEF Whole
<1> QED BY <1>17 DEF E

LEMMA JoinedSums ==
    ASSUME NEW t, NEW len, NEW D, NEW p, NEW lo, NEW hi, NEW prev, Held(t, len, D, p, lo, hi, At(p, prev)),
           prev = Top(t), NEW n, n \in Nodes \ D, NEW v, Joined(t, v, len, prev, n),
           NEW b \in D \cup {n}
    PROVE  Sums(v, len, b)
<1>1. /\ Whole(t, D, p, lo, hi) /\ Forest(t, D, p) /\ SummedBut(t, len, D, p, At(p, prev))
      /\ D \subseteq Nodes /\ Nil \notin D
    BY HeldFacts
<1>2. CASE b \in {prev, n}
    BY <1>2 DEF Joined
<1>3. CASE b \notin {prev, n}
    <2>1. ~Holds(p, At(p, prev), b) /\ b \in D /\ b \in Nodes
        BY <1>1, <1>3, TopAbove
    <2>2. Sums(t, len, b)
        BY <1>1, <2>1 DEF SummedBut
    <2>3. \A s \in Sides : Kid(t, s, b) # Nil => Kid(t, s, b) \in D \ {prev}
        BY <1>1, <1>3, <2>1, Beside
    <2>4. \A s \in Sides : Kid(v, s, b) = Kid(t, s, b)
        BY <1>3, <2>1 DEF Joined
    <2>5. \A c \in D \ {prev} : Heavy(v, c) = Heavy(t, c)
        BY <1>1 DEF Joined
    <2>6. \A s \in Sides : Weight(v, Kid(v, s, b)) = Weight(t, Kid(t, s, b))
        BY <2>3, <2>4, <2>5 DEF Weight, Heavy
    <2>7. Heavy(v, b) = Heavy(t, b)
        BY <1>3, <2>1, <2>5
    <2> QED BY <2>2, <2>6, <2>7 DEF Sums, Sides
<1> QED BY <1>2, <1>3

\* InsertAfter puts n behind prev, and all the weights are right.
LEMMA InsertHolds ==
    ASSUME NEW t, NEW len \in [Nodes -> Nat], NEW D, NEW p, NEW lo, NEW hi, NEW prev \in D,
           Held(t, len, D, p, lo, hi, At(p, prev)), hi - lo < Depth, Depth \in Nat,
           NEW n, n \in Nodes \ D, Up(t, n) = Nil
    PROVE  LET v == InsertAfter(t, len, prev, n)
           IN  \E q : /\ Whole(v, D \cup {n}, q, lo, hi + 1)
                      /\ \A b \in D \cup {n} : Sums(v, len, b)
                      /\ At(q, n) = At(p, prev) + 1
                      /\ \A b \in D : At(q, b) = At(p, b) + Behind(p, At(p, prev), b)
                      /\ Top(v) = n
                      /\ Apart(t, v, D \cup {n})
<1> DEFINE u == Splay(t, len, prev)
           v == InsertAfter(t, len, prev, n)
<1>1. PICK z : Lifted(t, u, len, D, p, z, lo, hi, prev) /\ Top(u) = prev
    BY SplayLifts
<1> HIDE DEF u
<1>2. /\ Held(u, len, D, z, lo, hi, At(z, prev)) /\ Apart(t, u, D)
      /\ \A b \in D : At(z, b) = At(p, b)
    BY <1>1 DEF Lifted
<1>3. /\ Whole(u, D, z, lo, hi) /\ Forest(u, D, z) /\ u \in Tree /\ D \subseteq Nodes /\ Nil \notin D
      /\ z \in Layouts(D) /\ lo \in Int /\ hi \in Int
    BY <1>2, HeldFacts
<1>4. prev \in Nodes /\ n \in Nodes /\ prev # n /\ n # Nil /\ Up(u, n) = Nil
    BY <1>2, <1>3, NilFacts DEF Apart
<1>5. \A s \in Sides : Kid(u, s, prev) \notin {prev, n}
    BY <1>3, <1>4, KidFacts, NilFacts
<1>t. t \in Tree
    BY HeldFacts
<1>6. Joined(u, v, len, prev, n)
    <2>1. Kid(u, "right", prev) \notin {prev, n} /\ Kid(u, "left", prev) \notin {prev, n}
        BY <1>5 DEF Sides
    <2>2. u = Splay(t, len, prev)
        BY DEF u
    <2> QED BY <1>3, <1>4, <1>t, <2>1, <2>2, InsertJoins
<1>7. PICK q : Opened(q, z, D, prev, n, lo, hi)
    BY <1>3, OpenedExists
<1> HIDE DEF v
<1>8. Whole(v, D \cup {n}, q, lo, hi + 1)
    BY <1>1, <1>3, <1>4, <1>6, <1>7, OpenedWhole
<1>9. \A b \in D \cup {n} : Sums(v, len, b)
    BY <1>1, <1>2, <1>6, JoinedSums
<1>10. At(q, n) = At(p, prev) + 1 /\ \A b \in D : At(q, b) = At(p, b) + Behind(p, At(p, prev), b)
    <2>1. At(q, prev) = At(p, prev) + Behind(p, At(p, prev), prev)
        <3>1. At(z, prev) \in Int /\ At(q, prev) = At(z, prev)
            BY <1>3, <1>7, LayoutType DEF Opened
        <3> QED BY <1>2, <3>1 DEF Behind
    <2>2. \A b \in D \ {prev} : At(q, b) = At(p, b) + Behind(p, At(p, prev), b)
        BY <1>2, <1>7 DEF Opened, Behind
    <2>3. At(q, n) = At(p, prev) + 1
        BY <1>2, <1>7 DEF Opened
    <2> QED BY <2>1, <2>2, <2>3
<1>11. Apart(t, v, D \cup {n})
    <2> SUFFICES ASSUME NEW b \in Nodes \ (D \cup {n})
                 PROVE  /\ Up(v, b) = Up(t, b) /\ Heavy(v, b) = Heavy(t, b)
                        /\ \A s \in Sides : Kid(v, s, b) = Kid(t, s, b)
        BY DEF Apart
    <2>1. Kid(u, "right", prev) # Nil => Kid(u, "right", prev) \in D
        BY <1>3, KidFacts DEF Sides
    <2>2. b # prev /\ b # n /\ b # Kid(u, "right", prev)
        BY <2>1, NilFacts
    <2>3. /\ Up(v, b) = Up(u, b) /\ Heavy(v, b) = Heavy(u, b)
          /\ \A s \in Sides : Kid(v, s, b) = Kid(u, s, b)
        BY <1>6, <2>2 DEF Joined
    <2> QED BY <1>2, <2>3 DEF Apart
<1>12. Top(v) = n
    BY <1>6 DEF Joined
<1> QED BY <1>8, <1>9, <1>10, <1>11, <1>12 DEF v

-----------------------------------------------------------------------------
(***************************************************************************)
(* A deletion                                                              *)
(***************************************************************************)

\* The layout of a part of the nodes.
Part(q, p, C) ==
    /\ q \in Layouts(C)
    /\ \A b \in C : At(q, b) = At(p, b) /\ \A s \in Sides : Edge(q, s, b) = Edge(p, s, b)

LEMMA PartExists ==
    ASSUME NEW D, NEW p \in Layouts(D), NEW C, C \subseteq D
    PROVE  \E q : Part(q, p, C)
<1> DEFINE a == [b \in C |-> At(p, b)]
           e == [s \in Sides |-> [b \in C |-> Edge(p, s, b)]]
           q == [at |-> a, edge |-> e]
<1>1. \A b \in C : At(p, b) \in Int /\ \A s \in Sides : Edge(p, s, b) \in Int
    BY LayoutType
<1>2. /\ a \in [C -> Int] /\ \A b \in C : a[b] = At(p, b)
      /\ e \in [Sides -> [C -> Int]] /\ \A s \in Sides, b \in C : e[s][b] = Edge(p, s, b)
    BY <1>1
<1> HIDE DEF a, e
<1>3. q \in Layouts(C) /\ q.at = a /\ q.edge = e
    BY <1>2 DEF Layouts
<1> HIDE DEF q
<1>4. Part(q, p, C)
    BY <1>2, <1>3 DEF Part, At, Edge
<1> QED BY <1>4

\* The maximum is the last node.
LEMMA MaximumIsLast ==
    ASSUME NEW t, NEW D, NEW p, NEW lo, NEW hi, Whole(t, D, p, lo, hi), hi - lo < Depth, Depth \in Nat,
           NEW c, c.child = t.child
    PROVE  Maximum(c, Top(t)) \in D /\ At(p, Maximum(c, Top(t))) = hi
<1> DEFINE n == Top(t)
           F == [b \in D |-> MaximumStep(c, b)]
           Step(f, k) == IF k = 0 THEN n ELSE MaximumStep(c, f[k - 1])
           Loop(f) == f = [k \in 0 .. Depth |-> Step(f, k)]
           Near(k) == {b \in D : /\ Edge(p, "right", b) = hi
                                 /\ lo + k <= Edge(p, "left", b) \/ Kid(t, "right", b) = Nil}
           S == [k \in 0 .. Depth |-> Near(k)]
<1>1. /\ Forest(t, D, p) /\ n \in D /\ lo \in Int /\ hi \in Int
      /\ Edge(p, "left", n) = lo /\ Edge(p, "right", n) = hi /\ Nil \notin D
    BY ForestFacts, NilFacts DEF Whole
<1>2. \A b \in D : MaximumStep(c, b) = IF Kid(t, "right", b) = Nil THEN b ELSE Kid(t, "right", b)
    BY DEF MaximumStep, Kid
<1>3. \A b \in D : MaximumStep(c, b) \in D
    BY <1>1, <1>2, KidFacts DEF Sides
<1>4. \A b \in D : F[b] \in D /\ F[b] = MaximumStep(c, b)
    BY <1>3
<1>5. \E f : Loop(f)
    <2>1. PICK f : Loops(f, Depth, n, F)
        <3> HIDE DEF F, n
        <3> QED BY LoopsExist
    <2>2. \A k \in 0 .. Depth : f[k] \in D
        <3> HIDE DEF F, n
        <3> QED BY <1>1, <1>4, <2>1, LoopStays
    <2>3. \A k \in 1 .. Depth : k - 1 \in 0 .. Depth
        OBVIOUS
    <2>4. \A k \in 1 .. Depth : F[f[k - 1]] = MaximumStep(c, f[k - 1])
        <3> HIDE DEF F
        <3> QED BY <1>4, <2>2, <2>3
    <2>5. f = [k \in 0 .. Depth |-> IF k = 0 THEN n ELSE F[f[k - 1]]]
        BY <2>1 DEF Loops
    <2>6. \A k \in 0 .. Depth : (IF k = 0 THEN n ELSE F[f[k - 1]]) = Step(f, k)
        <3> HIDE DEF F
        <3>1. \A k \in 0 .. Depth : k = 0 \/ k \in 1 .. Depth
            OBVIOUS
        <3> QED BY <2>4, <3>1
    <2>7. f = [k \in 0 .. Depth |-> Step(f, k)]
        <3> HIDE DEF F, Step
        <3> QED BY <2>5, <2>6
    <2> QED BY <2>7
<1> DEFINE h == CHOOSE f : Loop(f)
<1>6. Loop(h)
    BY <1>5
<1>7. Maximum(c, n) = h[Depth]
    BY DEF Maximum
<1> HIDE DEF h
<1>8. h[0] = n /\ \A k \in 1 .. Depth : h[k] = MaximumStep(c, h[k - 1])
    <2>1. \A k \in 0 .. Depth : h[k] = Step(h, k)
        <3> HIDE DEF Step
        <3> QED BY <1>6
    <2> QED BY <2>1
<1>9. ASSUME NEW k \in 1 .. Depth, NEW b \in Near(k - 1) PROVE MaximumStep(c, b) \in Near(k)
    <2>1. CASE Kid(t, "right", b) = Nil
        <3>1. MaximumStep(c, b) = b
            BY <1>2, <2>1
        <3> QED BY <2>1, <3>1
    <2>2. CASE Kid(t, "right", b) # Nil
        <3> DEFINE r == Kid(t, "right", b)
        <3>1. MaximumStep(c, b) = r
            BY <1>2, <2>2
        <3>2. /\ r \in D /\ Edge(p, "right", r) = Edge(p, "right", b)
              /\ Edge(p, Other("right"), r) = At(p, b) + Toward("right")
            BY <1>1, <2>2, KidFacts DEF Sides
        <3> HIDE DEF r
        <3>3. Edge(p, "left", r) = At(p, b) + 1
            BY <3>2 DEF Other, Toward
        <3>4. lo + (k - 1) <= Edge(p, "left", b) /\ Edge(p, "right", b) = hi
            BY <2>2
        <3>5. lo + k <= Edge(p, "left", r)
            BY <1>1, <3>3, <3>4, ForestFacts
        <3> QED BY <3>1, <3>2, <3>4, <3>5
    <2> QED BY <2>1, <2>2
<1>10. h[Depth] \in S[Depth]
    <2>1. n \in Near(0)
        BY <1>1
    <2> HIDE DEF Near, n
    <2>2. h[0] \in S[0]
        BY <1>8, <2>1
    <2>3. ASSUME NEW k \in 1 .. Depth, h[k - 1] \in S[k - 1] PROVE h[k] \in S[k]
        <3>1. k - 1 \in 0 .. Depth
            OBVIOUS
        <3>2. h[k - 1] \in Near(k - 1)
            BY <2>3, <3>1
        <3> QED BY <1>8, <1>9, <3>2
    <2> HIDE DEF S
    <2> QED BY <2>2, <2>3, LoopReaches
<1>11. h[Depth] \in Near(Depth)
    <2> HIDE DEF Near
    <2> QED BY <1>10
<1>12. Kid(t, "right", h[Depth]) = Nil /\ h[Depth] \in D /\ Edge(p, "right", h[Depth]) = hi
    BY <1>1, <1>11, ForestFacts
<1>13. At(p, h[Depth]) = hi
    BY <1>1, <1>12, NilKid DEF Sides
<1> QED BY <1>7, <1>12, <1>13

\* The tree with both kids of the node at the top cut off.
Severed(t, c, n) ==
    /\ c \in Tree /\ c.child = t.child /\ c.weight = t.weight
    /\ \A b \in Nodes : Up(c, b) = IF b = Kid(t, "left", n) \/ b = Kid(t, "right", n) THEN Nil ELSE Up(t, b)

LEMMA CutFacts ==
    ASSUME NEW t \in Tree, NEW n \in Nodes
    PROVE  Severed(t, SetParent(SetParent(t, Kid(t, "left", n), Nil), Kid(t, "right", n), Nil), n)
<1> DEFINE left == Kid(t, "left", n)
           right == Kid(t, "right", n)
           a == SetParent(t, left, Nil)
           c == SetParent(a, right, Nil)
<1>1. left \in Nodes \cup {Nil} /\ right \in Nodes \cup {Nil} /\ Nil \in Nodes \cup {Nil}
    BY TreeType DEF Sides
<1> HIDE DEF left, right
<1>2. ParentSet(a, t, left, Nil)
    BY <1>1, SetParentFacts
<1> HIDE DEF a
<1>3. ParentSet(c, a, right, Nil)
    <2>1. a \in Tree
        BY <1>2 DEF ParentSet
    <2> QED BY <1>1, <2>1, SetParentFacts
<1> HIDE DEF c
<1>4. Severed(t, c, n)
    BY <1>2, <1>3 DEF Severed, ParentSet, left, right
<1> QED BY <1>4 DEF c, a, left, right

\* The left subtree is a tree of its own.
LEMMA LeftWhole ==
    ASSUME NEW t, NEW D, NEW p, NEW lo, NEW hi, Whole(t, D, p, lo, hi), NEW n, n = Top(t),
           Kid(t, "left", n) # Nil, NEW c, Severed(t, c, n), Top(c) = Kid(t, "left", n),
           NEW C, C = {b \in D : At(p, b) < At(p, n)}, NEW q, Part(q, p, C)
    PROVE  Whole(c, C, q, lo, At(p, n) - 1)
<1> DEFINE x == At(p, n)
           left == Kid(t, "left", n)
           right == Kid(t, "right", n)
<1>1. /\ Forest(t, D, p) /\ n \in D /\ Up(t, n) = Nil /\ lo \in Int /\ hi \in Int
      /\ Edge(p, "left", n) = lo /\ Edge(p, "right", n) = hi /\ Nil \notin D /\ D \subseteq Nodes
      /\ \A b \in D : lo <= Edge(p, "left", b)
    BY ForestFacts, NilFacts DEF Whole
<1>t. "left" \in Sides /\ "right" \in Sides
    BY DEF Sides
<1>2. \A b \in D : /\ At(p, b) \in Int /\ Edge(p, "left", b) \in Int /\ Edge(p, "right", b) \in Int
                   /\ Edge(p, "left", b) <= At(p, b) /\ At(p, b) <= Edge(p, "right", b)
    BY <1>1, ForestFacts
<1>3. \A b \in C : b \in D \ {n} /\ At(p, b) < x
    BY <1>2
<1>4. /\ left \in D /\ Up(t, left) = n /\ Edge(p, "left", left) = lo
      /\ Edge(p, Other("left"), left) = x + Toward("left")
    BY <1>1, <1>t, KidFacts
<1>5. Edge(p, "right", left) = x - 1
    BY <1>1, <1>2, <1>4 DEF Other, Toward
<1>6. left \in C
    BY <1>1, <1>2, <1>4, <1>5
<1>7. right # Nil => right \in D /\ Up(t, right) = n
    BY <1>1, <1>t, KidFacts
<1>8. \A b \in C : At(q, b) = At(p, b) /\ \A s \in Sides : Edge(q, s, b) = Edge(p, s, b)
    BY DEF Part
<1>9. \A b \in Nodes, s \in Sides : Kid(c, s, b) = Kid(t, s, b)
    BY DEF Severed, Kid
<1>10. \A b \in Nodes : Up(c, b) = IF b = left \/ b = right THEN Nil ELSE Up(t, b)
    BY DEF Severed
<1>b. \A b \in C : Edge(p, "right", b) < x
    BY <1>1, <1>2, <1>3, Beside
<1> HIDE DEF x, left, right
<1>11. ASSUME NEW b \in C, NEW s \in Sides PROVE Hangs(c, C, q, s, b)
    <2> DEFINE k == Kid(t, s, b)
    <2>1. Kid(c, s, b) = k /\ b \in D \ {n}
        BY <1>1, <1>3, <1>9
    <2>2. CASE k = Nil
        BY <1>1, <1>8, <2>1, <2>2, NilKid DEF Hangs
    <2>3. CASE k # Nil
        <3>1. k \in D \ {n} /\ At(p, k) < x
            BY <1>3, <2>1, <2>3, Beside DEF x
        <3>2. /\ Up(t, k) = b /\ Edge(p, s, k) = Edge(p, s, b)
              /\ Edge(p, Other(s), k) = At(p, b) + Toward(s)
            BY <1>1, <2>1, <2>3, KidFacts
        <3> HIDE DEF k
        <3>3. k \in C
            BY <3>1 DEF x
        <3>4. k # left /\ k # right
            BY <1>4, <1>7, <2>1, <2>3, <3>2
        <3>5. Up(c, k) = b
            BY <1>1, <1>10, <3>1, <3>2, <3>4
        <3>6. Kid(c, s, b) = k
            BY <2>1 DEF k
        <3> QED BY <1>8, <2>3, <3>2, <3>3, <3>5, <3>6, SideFacts DEF Hangs
    <2> QED BY <2>2, <2>3
<1>12. Forest(c, C, q)
    <2>1. \A b \in C : Holds(q, At(q, b), b)
        BY <1>2, <1>3, <1>8, <1>t DEF Holds
    <2>2. \A b, d \in C : At(q, b) = At(q, d) => b = d
        BY <1>1, <1>3, <1>8, ForestFacts
    <2>3. c \in Tree /\ C \subseteq Nodes /\ q \in Layouts(C)
        BY <1>1, <1>3 DEF Severed, Part
    <2> QED BY <1>11, <2>1, <2>2, <2>3 DEF Forest
<1>13. Top(c) = left
    BY DEF left
<1>14. Up(c, left) = Nil
    BY <1>1, <1>4, <1>10
<1>15. Edge(q, "left", left) = lo /\ Edge(q, "right", left) = x - 1
    BY <1>4, <1>5, <1>6, <1>8, <1>t
<1>16. \A b \in C : lo <= Edge(q, "left", b) /\ Edge(q, "right", b) <= x - 1
    <2>1. x \in Int
        BY <1>1, <1>2 DEF x
    <2> QED BY <1>1, <1>2, <1>3, <1>8, <1>b, <1>t, <2>1
<1>17. lo \in Int /\ x - 1 \in Int
    BY <1>1, <1>2 DEF x
<1> QED BY <1>6, <1>12, <1>13, <1>14, <1>15, <1>16, <1>17 DEF Whole, x

\* The layout without the place of n; m takes over what was on the right of n.
Shut(y, p, z, D, C, n, m, hi) ==
    /\ y \in Layouts(D \ {n})
    /\ \A b \in C : /\ At(y, b) = At(z, b)
                    /\ \A s \in Sides :
                        Edge(y, s, b) = IF b = m /\ s = "right" THEN hi - 1 ELSE Edge(z, s, b)
    /\ \A b \in D \ (C \cup {n}) : /\ At(y, b) = At(p, b) - 1
                                   /\ \A s \in Sides : Edge(y, s, b) = Edge(p, s, b) - 1

LEMMA ShutExists ==
    ASSUME NEW D, NEW p \in Layouts(D), NEW n \in D, NEW C, C \subseteq D \ {n}, NEW z,
           C # {} => z \in Layouts(C), NEW m, NEW hi \in Int
    PROVE  \E y : Shut(y, p, z, D, C, n, m, hi)
<1> DEFINE E == D \ {n}
           A(b) == IF b \in C THEN At(z, b) ELSE At(p, b) - 1
           G(s, b) == IF b \in C
                      THEN IF b = m /\ s = "right" THEN hi - 1 ELSE Edge(z, s, b)
                      ELSE Edge(p, s, b) - 1
           a == [b \in E |-> A(b)]
           e == [s \in Sides |-> [b \in E |-> G(s, b)]]
           y == [at |-> a, edge |-> e]
<1>1. \A b \in D : At(p, b) \in Int /\ \A s \in Sides : Edge(p, s, b) \in Int
    BY LayoutType
<1>2. \A b \in C : At(z, b) \in Int /\ \A s \in Sides : Edge(z, s, b) \in Int
    BY LayoutType
<1>3. \A b \in E : A(b) \in Int /\ \A s \in Sides : G(s, b) \in Int
    BY <1>1, <1>2
<1>4. /\ \A b \in C : /\ A(b) = At(z, b)
                      /\ \A s \in Sides : G(s, b) = IF b = m /\ s = "right" THEN hi - 1 ELSE Edge(z, s, b)
      /\ \A b \in D \ (C \cup {n}) : /\ A(b) = At(p, b) - 1
                                     /\ \A s \in Sides : G(s, b) = Edge(p, s, b) - 1
      /\ C \subseteq E /\ D \ (C \cup {n}) \subseteq E
    OBVIOUS
<1> HIDE DEF A, G
<1>5. /\ a \in [E -> Int] /\ \A b \in E : a[b] = A(b)
      /\ e \in [Sides -> [E -> Int]] /\ \A s \in Sides, b \in E : e[s][b] = G(s, b)
    <2> HIDE DEF E
    <2> QED BY <1>3
<1> HIDE DEF a, e
<1>6. y \in Layouts(E) /\ y.at = a /\ y.edge = e
    <2> HIDE DEF E
    <2> QED BY <1>5 DEF Layouts
<1> HIDE DEF y
<1>7. \A b \in E : At(y, b) = A(b) /\ \A s \in Sides : Edge(y, s, b) = G(s, b)
    BY <1>5, <1>6 DEF At, Edge
<1>8. Shut(y, p, z, D, C, n, m, hi)
    BY <1>4, <1>6, <1>7 DEF Shut
<1> QED BY <1>8

\* The right subtree moves one place to the left.
RightMoved(t, v, p, y, n, R) ==
    /\ \A b \in R, s \in Sides : Kid(v, s, b) = Kid(t, s, b) /\ Edge(y, s, b) = Edge(p, s, b) - 1
    /\ \A b \in R : b # Kid(t, "right", n) => Up(v, b) = Up(t, b)
    /\ \A b \in R : At(y, b) = At(p, b) - 1

After(p, D, n) == {b \in D : At(p, n) < At(p, b)}

LEMMA RightHangs ==
    ASSUME NEW t, NEW D, NEW p, NEW lo, NEW hi, Whole(t, D, p, lo, hi), NEW n, n = Top(t),
           NEW R, R = After(p, D, n),
           NEW v, NEW y, RightMoved(t, v, p, y, n, R), NEW E, R \subseteq E,
           NEW s \in Sides, NEW b \in R
    PROVE  /\ Hangs(v, E, y, s, b)
           /\ Kid(t, s, b) # Nil => Kid(t, s, b) \in R \ {Kid(t, "right", n)}
<1> DEFINE x == At(p, n)
           right == Kid(t, "right", n)
           k == Kid(t, s, b)
<1>r. R = {c \in D : x < At(p, c)}
    BY DEF After
<1>1. Forest(t, D, p) /\ n \in D /\ Nil \notin D
    BY ForestFacts, NilFacts DEF Whole
<1>2. \A c \in D : At(p, c) \in Int /\ \A r \in Sides : Edge(p, r, c) \in Int
    BY <1>1, LayoutType, ForestFacts
<1>3. b \in D \ {n} /\ x < At(p, b)
    BY <1>1, <1>2, <1>r
<1>m. /\ \A c \in R, r \in Sides : Kid(v, r, c) = Kid(t, r, c) /\ Edge(y, r, c) = Edge(p, r, c) - 1
      /\ \A c \in R : c # right => Up(v, c) = Up(t, c)
      /\ \A c \in R : At(y, c) = At(p, c) - 1
    BY DEF RightMoved
<1>4. Kid(v, s, b) = k
    BY <1>m
<1>5. right # Nil => Up(t, right) = n
    BY <1>1, KidFacts DEF Sides
<1>6. Toward(s) \in Int
    BY TowardFacts
<1>7. CASE k = Nil
    <2>1. Edge(p, s, b) = At(p, b)
        BY <1>1, <1>3, <1>7, NilKid
    <2> QED BY <1>4, <1>7, <1>m, <2>1 DEF Hangs
<1>8. CASE k # Nil
    <2>1. k \in D \ {n} /\ ~(At(p, k) < x)
        BY <1>1, <1>2, <1>3, <1>8, Beside
    <2>2. /\ Up(t, k) = b /\ Edge(p, s, k) = Edge(p, s, b)
          /\ Edge(p, Other(s), k) = At(p, b) + Toward(s)
        BY <1>1, <1>3, <1>8, KidFacts
    <2> HIDE DEF k, x, right
    <2>3. At(p, k) # x
        BY <1>1, <2>1, ForestFacts DEF x
    <2>4. x < At(p, k)
        BY <1>1, <1>2, <2>1, <2>3 DEF x
    <2>5. k \in R
        BY <1>r, <2>1, <2>4
    <2>6. k # right
        BY <1>3, <1>5, <1>8, <2>2
    <2>7. Up(v, k) = b
        BY <1>m, <2>2, <2>5, <2>6
    <2>8. Edge(y, s, k) = Edge(y, s, b)
        BY <1>m, <2>2, <2>5
    <2>9. Edge(y, Other(s), k) = At(y, b) + Toward(s)
        <3>1. Edge(y, Other(s), k) = Edge(p, Other(s), k) - 1
            BY <1>m, <2>5, SideFacts
        <3>2. At(y, b) = At(p, b) - 1 /\ At(p, b) \in Int
            BY <1>m, <1>2, <1>3
        <3> QED BY <1>6, <2>2, <3>1, <3>2
    <2>10. Hangs(v, E, y, s, b)
        BY <1>4, <1>8, <2>5, <2>7, <2>8, <2>9 DEF Hangs
    <2> QED BY <2>5, <2>6, <2>10 DEF k, right
<1> QED BY <1>7, <1>8 DEF k

SameOn(t, v, R) ==
    \A b \in R : Heavy(v, b) = Heavy(t, b) /\ \A s \in Sides : Kid(v, s, b) = Kid(t, s, b)

LEMMA RightSums ==
    ASSUME NEW t, NEW D, NEW p, NEW lo, NEW hi, NEW len, Held(t, len, D, p, lo, hi, At(p, Top(t))),
           NEW n, n = Top(t), NEW R, R = After(p, D, n),
           NEW v, SameOn(t, v, R), NEW b \in R
    PROVE  Sums(v, len, b)
<1>1. /\ Whole(t, D, p, lo, hi) /\ Forest(t, D, p) /\ SummedBut(t, len, D, p, At(p, n)) /\ n \in D
    BY HeldFacts
<1>2. \A c \in D : At(p, c) \in Int
    BY <1>1, ForestFacts
<1>3. b \in D \ {n}
    BY <1>1, <1>2 DEF After
<1>4. Sums(t, len, b)
    BY <1>1, <1>3, TopAbove DEF SummedBut
<1>5. \A s \in Sides : Kid(t, s, b) # Nil => Kid(t, s, b) \in R
    <2> TAKE s \in Sides
    <2> HAVE Kid(t, s, b) # Nil
    <2> DEFINE k == Kid(t, s, b)
    <2>1. k \in D \ {n} /\ (At(p, k) < At(p, n) <=> At(p, b) < At(p, n))
        BY <1>1, <1>3, Beside
    <2> HIDE DEF k
    <2>2. At(p, k) # At(p, n)
        BY <1>1, <2>1, ForestFacts
    <2>3. At(p, n) < At(p, k)
        BY <1>1, <1>2, <2>1, <2>2 DEF After
    <2> QED BY <2>1, <2>3 DEF k, After
<1>6. \A s \in Sides : Weight(v, Kid(v, s, b)) = Weight(t, Kid(t, s, b))
    BY <1>5 DEF Weight, Heavy, SameOn
<1> QED BY <1>4, <1>6 DEF Sums, Sides, SameOn

\* What is left of a tree t without its top n, when u has the left subtree with m at
\* the top, and the right subtree.
Merged(t, u, v, n, m, C) ==
    /\ v \in Tree /\ Top(v) = m
    /\ \A b \in Nodes, s \in Sides :
        Kid(v, s, b) = IF b = n THEN Nil
                       ELSE IF b = m /\ s = "right" THEN Kid(t, "right", n)
                       ELSE IF b \in C THEN Kid(u, s, b) ELSE Kid(t, s, b)
    /\ \A b \in Nodes :
        Up(v, b) = IF b = n THEN Nil
                   ELSE IF b = Kid(t, "right", n) THEN m
                   ELSE IF b \in C THEN Up(u, b) ELSE Up(t, b)
    /\ \A b \in Nodes : Heavy(v, b) = IF b \in C THEN Heavy(u, b) ELSE Heavy(t, b)

LEMMA MergedHangs ==
    ASSUME NEW t, NEW D, NEW p, NEW lo, NEW hi, Whole(t, D, p, lo, hi), NEW n, n = Top(t),
           NEW C, C = {b \in D : At(p, b) < At(p, n)},
           NEW u, NEW z, NEW m, Whole(u, C, z, lo, At(p, n) - 1), m = Top(u),
           At(z, m) = At(p, n) - 1,
           NEW v, Merged(t, u, v, n, m, C), NEW y, Shut(y, p, z, D, C, n, m, hi),
           NEW s \in Sides, NEW b \in C
    PROVE  Hangs(v, D \ {n}, y, s, b)
<1> DEFINE x == At(p, n)
           right == Kid(t, "right", n)
           k == Kid(u, s, b)
<1>1. /\ Forest(t, D, p) /\ n \in D /\ Up(t, n) = Nil /\ hi \in Int /\ D \subseteq Nodes
      /\ Edge(p, "right", n) = hi /\ Nil \notin D
    BY ForestFacts, NilFacts DEF Whole
<1>2. Forest(u, C, z) /\ m \in C /\ Up(u, m) = Nil /\ C \subseteq D
    BY DEF Whole
<1>3. x \in Int /\ n \notin C
    BY <1>1, ForestFacts
<1>t. "left" \in Sides /\ "right" \in Sides
    BY DEF Sides
<1>4. \A c \in C : /\ At(y, c) = At(z, c)
                   /\ \A r \in Sides :
                        Edge(y, r, c) = IF c = m /\ r = "right" THEN hi - 1 ELSE Edge(z, r, c)
    BY DEF Shut
<1>5. \A c \in D \ (C \cup {n}) : /\ At(y, c) = At(p, c) - 1
                                  /\ \A r \in Sides : Edge(y, r, c) = Edge(p, r, c) - 1
    BY DEF Shut
<1>6. right # Nil =>
        /\ right \in D \ (C \cup {n})
        /\ Edge(p, "right", right) = hi /\ Edge(p, "left", right) = x + 1
    <2> SUFFICES ASSUME right # Nil
                 PROVE  /\ right \in D \ (C \cup {n})
                        /\ Edge(p, "right", right) = hi /\ Edge(p, "left", right) = x + 1
        OBVIOUS
    <2>1. /\ right \in D /\ right # n /\ Edge(p, "right", right) = hi
          /\ Edge(p, Other("right"), right) = x + Toward("right")
        BY <1>1, <1>t, KidFacts
    <2>2. Edge(p, "left", right) = x + 1
        BY <2>1 DEF Other, Toward
    <2>3. ~(At(p, right) < x)
        BY <1>1, <1>3, <2>1, <2>2, ForestFacts
    <2> QED BY <2>1, <2>2, <2>3
<1>7. CASE b = m /\ s = "right"
    <2>1. Kid(v, s, b) = right
        BY <1>1, <1>2, <1>3, <1>7 DEF Merged
    <2>2. At(y, b) = x - 1 /\ Edge(y, s, b) = hi - 1
        BY <1>4, <1>7
    <2>3. CASE right = Nil
        <3>1. hi = x
            BY <1>1, <1>t, <2>3, NilKid
        <3> QED BY <2>1, <2>2, <2>3, <3>1 DEF Hangs
    <2>4. CASE right # Nil
        <3> HIDE DEF right, x
        <3>1. right \in D /\ right \in Nodes /\ right # n
            BY <1>1, <1>6, <2>4
        <3>2. Up(v, right) = m
            BY <3>1 DEF Merged, right
        <3>3. Edge(y, "right", right) = hi - 1 /\ Edge(y, "left", right) = (x + 1) - 1
            BY <1>5, <1>6, <1>t, <2>4
        <3>4. Other(s) = "left" /\ Toward(s) = 1
            BY <1>7 DEF Other, Toward
        <3>5. Edge(y, Other(s), right) = At(y, b) + Toward(s)
            BY <1>3, <2>2, <3>3, <3>4
        <3> QED BY <1>7, <2>1, <2>2, <2>4, <3>1, <3>2, <3>3, <3>5 DEF Hangs
    <2> QED BY <2>3, <2>4
<1>8. CASE ~(b = m /\ s = "right")
    <2>1. Kid(v, s, b) = k
        BY <1>1, <1>2, <1>3, <1>8 DEF Merged
    <2>2. At(y, b) = At(z, b) /\ Edge(y, s, b) = Edge(z, s, b)
        BY <1>4, <1>8
    <2>3. CASE k = Nil
        BY <1>2, <2>1, <2>2, <2>3, NilKid DEF Hangs
    <2>4. CASE k # Nil
        <3>1. /\ k \in C /\ Up(u, k) = b /\ Edge(z, s, k) = Edge(z, s, b)
              /\ Edge(z, Other(s), k) = At(z, b) + Toward(s)
            BY <1>2, <2>4, KidFacts
        <3>2. k # m /\ k # n /\ k # right
            BY <1>1, <1>2, <1>3, <1>6, <2>4, <3>1
        <3> HIDE DEF k
        <3>3. Up(v, k) = b
            BY <1>1, <1>2, <3>1, <3>2 DEF Merged
        <3>4. Edge(y, s, k) = Edge(z, s, k) /\ Edge(y, Other(s), k) = Edge(z, Other(s), k)
            BY <1>4, <3>1, <3>2, SideFacts
        <3>5. k \in D \ {n} /\ Kid(v, s, b) = k
            BY <1>2, <2>1, <3>1, <3>2 DEF k
        <3> QED BY <2>2, <2>4, <3>1, <3>3, <3>4, <3>5 DEF Hangs
    <2> QED BY <2>3, <2>4
<1> QED BY <1>7, <1>8

LEMMA MergedWhole ==
    ASSUME NEW t, NEW D, NEW p, NEW lo, NEW hi, Whole(t, D, p, lo, hi), NEW n, n = Top(t),
           NEW C, C = {b \in D : At(p, b) < At(p, n)},
           NEW u, NEW z, NEW m, Whole(u, C, z, lo, At(p, n) - 1), m = Top(u),
           At(z, m) = At(p, n) - 1,
           NEW v, Merged(t, u, v, n, m, C), NEW y, Shut(y, p, z, D, C, n, m, hi)
    PROVE  Whole(v, D \ {n}, y, lo, hi - 1)
<1> DEFINE x == At(p, n)
           right == Kid(t, "right", n)
           R == {b \in D : x < At(p, b)}
           E == D \ {n}
<1>1. /\ Forest(t, D, p) /\ n \in D /\ Up(t, n) = Nil /\ lo \in Int /\ hi \in Int /\ D \subseteq Nodes
      /\ Edge(p, "left", n) = lo /\ Edge(p, "right", n) = hi /\ Nil \notin D
      /\ \A b \in D : lo <= Edge(p, "left", b) /\ Edge(p, "right", b) <= hi
    BY ForestFacts, NilFacts DEF Whole
<1>2. /\ Forest(u, C, z) /\ m \in C /\ Up(u, m) = Nil /\ C \subseteq D
      /\ Edge(z, "left", m) = lo /\ Edge(z, "right", m) = x - 1
      /\ \A b \in C : lo <= Edge(z, "left", b) /\ Edge(z, "right", b) <= x - 1
    BY DEF Whole
<1>3. \A b \in D : /\ At(p, b) \in Int /\ Edge(p, "left", b) \in Int /\ Edge(p, "right", b) \in Int
                   /\ Edge(p, "left", b) <= At(p, b) /\ At(p, b) <= Edge(p, "right", b)
    BY <1>1, ForestFacts
<1>4. \A b \in C : /\ At(z, b) \in Int /\ Edge(z, "left", b) \in Int /\ Edge(z, "right", b) \in Int
                   /\ Edge(z, "left", b) <= At(z, b) /\ At(z, b) <= Edge(z, "right", b)
    BY <1>2, ForestFacts
<1>t. "left" \in Sides /\ "right" \in Sides
    BY DEF Sides
<1>5. x \in Int /\ lo <= x /\ x <= hi
    BY <1>1, <1>3
<1>6. \A b \in D : b = n \/ b \in C \/ b \in R
    BY <1>1, <1>3, ForestFacts
<1>7. n \notin C /\ n \notin R /\ \A b \in R : b \in D \ (C \cup {n})
    BY <1>3, <1>1
<1>r. R \subseteq E /\ C \subseteq E /\ \A b \in E : b \in C \/ b \in R
    BY <1>2, <1>6, <1>7
<1>8. \A b \in C : /\ At(y, b) = At(z, b)
                   /\ Edge(y, "left", b) = Edge(z, "left", b)
                   /\ Edge(y, "right", b) = IF b = m THEN hi - 1 ELSE Edge(z, "right", b)
    BY <1>t DEF Shut
<1>9. \A b \in R : /\ At(y, b) = At(p, b) - 1
                   /\ \A s \in Sides : Edge(y, s, b) = Edge(p, s, b) - 1
    BY <1>7 DEF Shut
<1>b. \A b \in R : x < Edge(p, "left", b)
    <2> SUFFICES ASSUME NEW b \in R PROVE x < Edge(p, "left", b)
        OBVIOUS
    <2>1. b \in D \ {n} /\ x < At(p, b)
        BY <1>7
    <2> QED BY <1>3, <1>5, <2>1, Beside
<1>k. /\ \A b \in R, s \in Sides : Kid(v, s, b) = Kid(t, s, b)
      /\ \A b \in R : b # right => Up(v, b) = Up(t, b)
    BY <1>1, <1>2, <1>7 DEF Merged
<1> HIDE DEF x, R, E
<1>10. \A s \in Sides, b \in E : Hangs(v, E, y, s, b)
    <2> SUFFICES ASSUME NEW s \in Sides, NEW b \in E PROVE Hangs(v, E, y, s, b)
        OBVIOUS
    <2>1. CASE b \in C
        BY <2>1, MergedHangs DEF E, x
    <2>2. CASE b \in R
        <3>1. R = After(p, D, n)
            BY DEF R, x, After
        <3>2. RightMoved(t, v, p, y, n, R)
            BY <1>9, <1>k DEF RightMoved, right
        <3> QED BY <1>r, <2>2, <3>1, <3>2, RightHangs
    <2> QED BY <1>r, <2>1, <2>2
<1>11. \A b \in E : Holds(y, At(y, b), b)
    <2> SUFFICES ASSUME NEW b \in E PROVE Holds(y, At(y, b), b)
        OBVIOUS
    <2>1. CASE b \in C
        BY <1>1, <1>2, <1>4, <1>5, <1>8, <2>1 DEF Holds, x
    <2>2. CASE b \in R
        BY <1>3, <1>9, <1>t, <2>2 DEF Holds, R
    <2> QED BY <1>r, <2>1, <2>2
<1>12. ASSUME NEW b \in E, NEW c \in E, At(y, b) = At(y, c) PROVE b = c
    <2>1. \A a \in C : At(y, a) \in Int /\ At(y, a) <= x - 1
        BY <1>2, <1>4, <1>5, <1>8
    <2>2. \A a \in R : At(y, a) \in Int /\ x - 1 < At(y, a)
        BY <1>3, <1>5, <1>9 DEF R
    <2>3. CASE b \in C /\ c \in C
        BY <1>2, <1>8, <1>12, <2>3, ForestFacts
    <2>4. CASE b \in R /\ c \in R
        <3>1. At(p, b) = At(p, c) /\ b \in D /\ c \in D
            BY <1>3, <1>9, <1>12, <2>4 DEF R
        <3> QED BY <1>1, <3>1, ForestFacts
    <2>5. CASE (b \in C /\ c \in R) \/ (b \in R /\ c \in C)
        BY <1>5, <1>12, <2>1, <2>2, <2>5
    <2> QED BY <1>r, <2>3, <2>4, <2>5
<1>13. v \in Tree /\ E \subseteq Nodes /\ y \in Layouts(E) /\ Top(v) = m
    BY <1>1 DEF Merged, Shut, E
<1>14. Forest(v, E, y)
    BY <1>10, <1>11, <1>12, <1>13 DEF Forest
<1>15. Up(v, m) = Nil /\ m \in E
    <2>1. m # n /\ m \in Nodes
        BY <1>1, <1>2, <1>7
    <2>2. m # right
        <3>1. right # Nil => Up(t, right) = n /\ Edge(p, Other("right"), right) = At(p, n) + Toward("right") /\ right \in D
            BY <1>1, <1>t, KidFacts
        <3>2. right # Nil => x < At(p, right)
            BY <1>1, <1>3, <1>5, <3>1 DEF Other, Toward, x
        <3>3. At(p, m) < x
            BY <1>2 DEF x
        <3> QED BY <1>1, <1>2, <1>3, <1>5, <3>2, <3>3
    <2> QED BY <1>2, <1>r, <2>1, <2>2 DEF Merged
<1>16. Edge(y, "left", m) = lo /\ Edge(y, "right", m) = hi - 1
    BY <1>2, <1>8
<1>17. ASSUME NEW b \in E PROVE lo <= Edge(y, "left", b) /\ Edge(y, "right", b) <= hi - 1
    <2>1. CASE b \in C
        BY <1>1, <1>2, <1>4, <1>5, <1>8, <2>1
    <2>2. CASE b \in R
        <3>1. b \in D /\ Edge(y, "left", b) = Edge(p, "left", b) - 1 /\ Edge(y, "right", b) = Edge(p, "right", b) - 1
            BY <1>9, <1>t, <2>2 DEF R
        <3> QED BY <1>1, <1>3, <1>5, <1>b, <2>2, <3>1
    <2> QED BY <1>r, <2>1, <2>2
<1>18. lo \in Int /\ hi - 1 \in Int
    BY <1>1
<1> QED BY <1>13, <1>14, <1>15, <1>16, <1>17, <1>18 DEF Whole, E

LEMMA MergedSums ==
    ASSUME NEW t, NEW len, NEW D, NEW p, NEW lo, NEW hi, Held(t, len, D, p, lo, hi, At(p, Top(t))),
           NEW n, n = Top(t), NEW C, C = {b \in D : At(p, b) < At(p, n)},
           NEW u, NEW z, NEW m, Held(u, len, C, z, lo, At(p, n) - 1, At(z, m)), m = Top(u),
           NEW v, Merged(t, u, v, n, m, C), NEW b \in D \ {n, m}
    PROVE  Sums(v, len, b)
<1>1. /\ Whole(t, D, p, lo, hi) /\ Forest(t, D, p) /\ n \in D /\ D \subseteq Nodes /\ Nil \notin D
    BY HeldFacts
<1>2. /\ Whole(u, C, z, lo, At(p, n) - 1) /\ Forest(u, C, z) /\ SummedBut(u, len, C, z, At(z, m))
      /\ m \in C /\ C \subseteq D
    BY HeldFacts
<1>3. \A c \in D : At(p, c) \in Int
    BY <1>1, ForestFacts
<1>4. n \notin C
    BY <1>3, <1>1
<1>5. CASE b \in C
    <2>1. Sums(u, len, b)
        BY <1>2, <1>5, TopAbove DEF SummedBut
    <2>2. \A s \in Sides : Kid(u, s, b) # Nil => Kid(u, s, b) \in C
        BY <1>2, <1>5, KidFacts
    <2>3. \A s \in Sides : Kid(v, s, b) = Kid(u, s, b)
        BY <1>1, <1>5 DEF Merged
    <2>4. \A c \in C : Heavy(v, c) = Heavy(u, c)
        BY <1>1, <1>2 DEF Merged
    <2>5. \A s \in Sides : Weight(v, Kid(v, s, b)) = Weight(u, Kid(u, s, b))
        BY <2>2, <2>3, <2>4 DEF Weight, Heavy
    <2> QED BY <1>5, <2>1, <2>4, <2>5 DEF Sums, Sides
<1>6. CASE b \notin C
    <2> DEFINE R == After(p, D, n)
    <2>1. \A c \in R : c \in Nodes /\ c \notin C /\ c # n /\ c # m
        BY <1>1, <1>2, <1>3 DEF After
    <2>2. \A c \in R, s \in Sides : Kid(v, s, c) = Kid(t, s, c)
        BY <2>1 DEF Merged
    <2>3. \A c \in R : Heavy(v, c) = Heavy(t, c)
        BY <2>1 DEF Merged
    <2>4. b \in R
        BY <1>1, <1>3, <1>6, ForestFacts DEF After
    <2>5. SameOn(t, v, R)
        BY <2>2, <2>3 DEF SameOn
    <2> HIDE DEF R
    <2> QED BY <2>4, <2>5, RightSums DEF R
<1> QED BY <1>5, <1>6

\* A deletion of the first node: what is on the right of it moves up.
ShiftedUp(t, v, n) ==
    /\ v \in Tree /\ Top(v) = Kid(t, "right", n)
    /\ \A b \in Nodes, s \in Sides : Kid(v, s, b) = IF b = n THEN Nil ELSE Kid(t, s, b)
    /\ \A b \in Nodes : Up(v, b) = IF b = n \/ b = Kid(t, "right", n) THEN Nil ELSE Up(t, b)
    /\ \A b \in Nodes : Heavy(v, b) = Heavy(t, b)

LEMMA ShiftedWhole ==
    ASSUME NEW t, NEW D, NEW p, NEW lo, NEW hi, Whole(t, D, p, lo, hi), NEW n, n = Top(t),
           Kid(t, "left", n) = Nil, Kid(t, "right", n) # Nil,
           NEW v, ShiftedUp(t, v, n), NEW z, NEW m, NEW y, Shut(y, p, z, D, {}, n, m, hi)
    PROVE  Whole(v, D \ {n}, y, lo, hi - 1) /\ \A b \in D \ {n} : At(p, n) < At(p, b)
<1> DEFINE x == At(p, n)
           right == Kid(t, "right", n)
           R == After(p, D, n)
           E == D \ {n}
<1>1. /\ Forest(t, D, p) /\ n \in D /\ Up(t, n) = Nil /\ lo \in Int /\ hi \in Int /\ D \subseteq Nodes
      /\ Edge(p, "left", n) = lo /\ Edge(p, "right", n) = hi /\ Nil \notin D
      /\ \A b \in D : lo <= Edge(p, "left", b) /\ Edge(p, "right", b) <= hi
    BY ForestFacts, NilFacts DEF Whole
<1>3. \A b \in D : /\ At(p, b) \in Int /\ Edge(p, "left", b) \in Int /\ Edge(p, "right", b) \in Int
                   /\ Edge(p, "left", b) <= At(p, b) /\ At(p, b) <= Edge(p, "right", b)
    BY <1>1, ForestFacts
<1>t. "left" \in Sides /\ "right" \in Sides
    BY DEF Sides
<1>4. lo = x
    BY <1>1, <1>t, NilKid
<1>5. E = R
    <2>1. \A b \in E : x < At(p, b)
        <3> SUFFICES ASSUME NEW b \in E PROVE x < At(p, b)
            OBVIOUS
        <3>1. lo <= Edge(p, "left", b) /\ Edge(p, "left", b) <= At(p, b) /\ At(p, b) # At(p, n)
            BY <1>1, <1>3, ForestFacts
        <3> QED BY <1>1, <1>3, <1>4, <3>1
    <2>2. \A b \in R : b \in E
        BY <1>1, <1>3 DEF After
    <2> QED BY <2>1, <2>2 DEF After
<1>6. /\ right \in D /\ right # n /\ Edge(p, "right", right) = hi /\ Up(t, right) = n
      /\ Edge(p, Other("right"), right) = x + Toward("right")
    BY <1>1, <1>t, KidFacts
<1>7. Edge(p, "left", right) = x + 1
    BY <1>6 DEF Other, Toward
<1>8. \A b \in E : At(y, b) = At(p, b) - 1 /\ \A s \in Sides : Edge(y, s, b) = Edge(p, s, b) - 1
    BY DEF Shut
<1>9. RightMoved(t, v, p, y, n, R)
    <2>1. \A b \in R, s \in Sides : Kid(v, s, b) = Kid(t, s, b)
        BY <1>1, <1>5 DEF ShiftedUp
    <2>2. \A b \in R : b # right => Up(v, b) = Up(t, b)
        BY <1>1, <1>5 DEF ShiftedUp
    <2> QED BY <1>5, <1>8, <2>1, <2>2 DEF RightMoved
<1>b. \A b \in E : x < Edge(p, "left", b)
    <2> SUFFICES ASSUME NEW b \in E PROVE x < Edge(p, "left", b)
        OBVIOUS
    <2>1. b \in D \ {n} /\ x < At(p, b)
        BY <1>5 DEF After
    <2> QED BY <1>1, <1>3, <2>1, Beside
<1>10. \A b \in E : x < At(p, b)
    BY <1>5 DEF After
<1> HIDE DEF x, right, R, E
<1>11. \A s \in Sides, b \in E : Hangs(v, E, y, s, b)
    BY <1>5, <1>9, RightHangs DEF R
<1>12. \A b \in E : Holds(y, At(y, b), b) /\ b \in D
    BY <1>3, <1>8, <1>t DEF Holds, E
<1>13. \A b, c \in E : At(y, b) = At(y, c) => b = c
    <2> SUFFICES ASSUME NEW b \in E, NEW c \in E, At(y, b) = At(y, c) PROVE b = c
        OBVIOUS
    <2>1. At(p, b) = At(p, c) /\ b \in D /\ c \in D
        BY <1>3, <1>8, <1>12
    <2> QED BY <1>1, <2>1, ForestFacts
<1>14. v \in Tree /\ E \subseteq Nodes /\ y \in Layouts(E) /\ Top(v) = right
    BY <1>1 DEF ShiftedUp, Shut, E, right
<1>15. Forest(v, E, y)
    BY <1>11, <1>12, <1>13, <1>14 DEF Forest
<1>16. right \in E /\ Up(v, right) = Nil
    BY <1>1, <1>6 DEF E, ShiftedUp, right
<1>17. Edge(y, "left", right) = lo /\ Edge(y, "right", right) = hi - 1
    <2>1. Edge(y, "left", right) = (x + 1) - 1
        BY <1>6, <1>7, <1>8, <1>16, <1>t
    <2>2. x \in Int
        BY <1>1, <1>3 DEF x
    <2>3. Edge(y, "left", right) = lo
        BY <1>4, <2>1, <2>2
    <2> QED BY <1>6, <1>8, <1>16, <1>t, <2>3
<1>18. ASSUME NEW b \in E PROVE lo <= Edge(y, "left", b) /\ Edge(y, "right", b) <= hi - 1
    <2>1. b \in D /\ Edge(y, "left", b) = Edge(p, "left", b) - 1 /\ Edge(y, "right", b) = Edge(p, "right", b) - 1
        BY <1>8, <1>12, <1>t
    <2> QED BY <1>1, <1>3, <1>4, <1>b, <2>1
<1>19. lo \in Int /\ hi - 1 \in Int
    BY <1>1
<1>20. Whole(v, E, y, lo, hi - 1)
    BY <1>14, <1>15, <1>16, <1>17, <1>18, <1>19 DEF Whole
<1> QED BY <1>10, <1>20 DEF E, x

\* The weight of the top is repaired at the end.
LEMMA TopUpdated ==
    ASSUME NEW t, NEW D, NEW p, NEW lo, NEW hi, Whole(t, D, p, lo, hi), NEW len \in [Nodes -> Nat],
           \A b \in D \ {Top(t)} : Sums(t, len, b), NEW v, v = UpdateSubtree(t, len, Top(t))
    PROVE  /\ Whole(v, D, p, lo, hi) /\ \A b \in D : Sums(v, len, b)
           /\ v \in Tree /\ v.root = t.root /\ v.child = t.child /\ v.parent = t.parent
           /\ Apart(t, v, D)
<1> DEFINE n == Top(t)
<1>1. /\ Forest(t, D, p) /\ t \in Tree /\ D \subseteq Nodes /\ n \in D /\ Up(t, n) = Nil /\ Nil \notin D
    BY ForestFacts, NilFacts DEF Whole
<1>2. \A b \in D, s \in Sides : Kid(t, s, b) # n
    <2> SUFFICES ASSUME NEW b \in D, NEW s \in Sides, Kid(t, s, b) = n PROVE FALSE
        OBVIOUS
    <2>1. Kid(t, s, b) # Nil
        BY <1>1
    <2> QED BY <1>1, <2>1, KidFacts
<1>3. n \in Nodes
    BY <1>1
<1> HIDE DEF n
<1>4. /\ v \in Tree /\ v.root = t.root /\ v.child = t.child /\ v.parent = t.parent
      /\ \A c \in Nodes \ {n} : Heavy(v, c) = Heavy(t, c)
      /\ Sums(v, len, n)
      /\ \A c \in Nodes \ {n} : Sums(t, len, c) /\ (\A s \in Sides : Kid(t, s, c) # n) => Sums(v, len, c)
    <2>1. v = UpdateSubtree(t, len, n) /\ \A s \in Sides : Kid(t, s, n) # n
        BY <1>1, <1>2 DEF n
    <2> QED BY <1>1, <1>3, <2>1, UpdateKeeps
<1>5. /\ Top(v) = Top(t) /\ \A b \in Nodes : Up(v, b) = Up(t, b)
      /\ \A s \in Sides, b \in Nodes : Kid(v, s, b) = Kid(t, s, b)
    BY <1>4 DEF Top, Up, Kid
<1>6. ASSUME NEW s \in Sides, NEW b \in D PROVE Hangs(v, D, p, s, b)
    <2>1. Hangs(t, D, p, s, b) /\ b \in Nodes
        BY <1>1 DEF Forest
    <2>2. Kid(v, s, b) = Kid(t, s, b)
        BY <1>5, <2>1
    <2> QED BY <1>1, <1>5, <2>1, <2>2 DEF Hangs
<1>7. Forest(v, D, p)
    BY <1>4, <1>6 DEF Forest, Whole
<1>8. Whole(v, D, p, lo, hi)
    BY <1>3, <1>5, <1>7 DEF Whole, n
<1>9. \A b \in D : Sums(v, len, b)
    BY <1>1, <1>2, <1>4 DEF n
<1>10. Apart(t, v, D)
    BY <1>1, <1>4, <1>5 DEF Apart
<1> QED BY <1>4, <1>8, <1>9, <1>10

Unlinked(v, t, n) ==
    /\ v \in Tree /\ Top(v) = Top(t)
    /\ \A b \in Nodes, s \in Sides : Kid(v, s, b) = IF b = n THEN Nil ELSE Kid(t, s, b)
    /\ \A b \in Nodes : Up(v, b) = IF b = n THEN Nil ELSE Up(t, b)
    /\ \A b \in Nodes : Heavy(v, b) = Heavy(t, b)

LEMMA UnlinkFacts ==
    ASSUME NEW t \in Tree, NEW n \in Nodes
    PROVE  Unlinked(Unlink(t, n), t, n)
<1> DEFINE t1 == [t EXCEPT !.child["left"][n] = Nil]
           t2 == [t1 EXCEPT !.child["right"][n] = Nil]
           v == [t2 EXCEPT !.parent[n] = Nil]
<1>1. Unlink(t, n) = v
    BY DEF Unlink
<1>s. "left" \in Sides /\ "right" \in Sides /\ \A s \in Sides : s = "left" \/ s = "right"
    BY DEF Sides
<1>n. Nil \in Nodes \cup {Nil}
    OBVIOUS
<1>2. ChildChanged(t1, t, "left", n, Nil)
    BY <1>s, <1>n, ChangeChild
<1> HIDE DEF t1
<1>3. ChildChanged(t2, t1, "right", n, Nil)
    <2>1. t1 \in Tree
        BY <1>2 DEF ChildChanged
    <2> QED BY <1>s, <1>n, <2>1, ChangeChild
<1> HIDE DEF t2
<1>4. ParentSet(v, t2, n, Nil)
    BY <1>3, <1>n, ChangeParent DEF ChildChanged
<1> HIDE DEF v
<1>5. \A b \in Nodes, s \in Sides : Kid(v, s, b) = Kid(t2, s, b)
    BY <1>4 DEF ParentSet, Kid
<1>6. \A b \in Nodes, s \in Sides : Kid(v, s, b) = IF b = n THEN Nil ELSE Kid(t, s, b)
    BY <1>2, <1>3, <1>5, <1>s DEF ChildChanged
<1>7. \A b \in Nodes : Up(v, b) = IF b = n THEN Nil ELSE Up(t, b)
    BY <1>2, <1>3, <1>4 DEF ChildChanged, ParentSet, Up
<1>8. v \in Tree /\ Top(v) = Top(t) /\ \A b \in Nodes : Heavy(v, b) = Heavy(t, b)
    BY <1>2, <1>3, <1>4 DEF ChildChanged, ParentSet, Top, Heavy
<1> QED BY <1>1, <1>6, <1>7, <1>8 DEF Unlinked

\* The steps of Delete after its splay has put n at the top of u.
Cut(u, n) == SetParent(SetParent(u, Kid(u, "left", n), Nil), Kid(u, "right", n), Nil)
LeftTree(u, n) == [Cut(u, n) EXCEPT !.root = Kid(u, "left", n)]
LeftSplayed(u, len, n) ==
    Splay(LeftTree(u, n), len, Maximum(Cut(u, n), Kid(u, "left", n)))
JoinRight(l, right) ==
    SetParent([l EXCEPT !.child["right"][l.root] = right], right, l.root)
Remains(u, len, n) ==
    Unlink(IF Kid(u, "left", n) = Nil
           THEN [Cut(u, n) EXCEPT !.root = Kid(u, "right", n)]
           ELSE JoinRight(LeftSplayed(u, len, n), Kid(u, "right", n)), n)

LEMMA DeleteSteps ==
    ASSUME NEW t, NEW len, NEW n, NEW u, u = Splay(t, len, n)
    PROVE  Delete(t, len, n) = IF Top(Remains(u, len, n)) = Nil THEN Remains(u, len, n)
                               ELSE UpdateSubtree(Remains(u, len, n), len, Top(Remains(u, len, n)))
BY DEF Delete, Remains, Cut, LeftTree, LeftSplayed, JoinRight, Kid, Top

\* Without a left subtree.
LEMMA RemainsShifted ==
    ASSUME NEW u \in Tree, NEW len, NEW n \in Nodes, Kid(u, "left", n) = Nil
    PROVE  ShiftedUp(u, Remains(u, len, n), n)
<1> DEFINE c == Cut(u, n)
           right == Kid(u, "right", n)
           w == [c EXCEPT !.root = right]
           v == Unlink(w, n)
<1>1. Remains(u, len, n) = v
    BY DEF Remains
<1>2. Severed(u, c, n)
    BY CutFacts DEF Cut
<1>3. right \in Nodes \cup {Nil}
    BY TreeType DEF Sides
<1> HIDE DEF c, right
<1>4. w \in Tree /\ w.root = right /\ w.child = c.child /\ w.parent = c.parent /\ w.weight = c.weight
    BY <1>2, <1>3, SetRoot DEF Severed
<1> HIDE DEF w
<1>5. Unlinked(v, w, n)
    BY <1>4, UnlinkFacts
<1> HIDE DEF v
<1>6. /\ \A b \in Nodes, s \in Sides : Kid(w, s, b) = Kid(u, s, b)
      /\ \A b \in Nodes : Heavy(w, b) = Heavy(u, b)
      /\ \A b \in Nodes : Up(w, b) = Up(c, b)
    BY <1>2, <1>4 DEF Severed, Kid, Heavy, Up
<1>7. \A b \in Nodes : Up(v, b) = IF b = n \/ b = right THEN Nil ELSE Up(u, b)
    BY <1>2, <1>5, <1>6, NilFacts DEF Unlinked, Severed, right
<1>8. v \in Tree /\ Top(v) = right
    BY <1>4, <1>5 DEF Unlinked, Top
<1> QED BY <1>1, <1>5, <1>6, <1>7, <1>8 DEF Unlinked, ShiftedUp, right

LEMMA LeftTreeFacts ==
    ASSUME NEW u \in Tree, NEW n \in Nodes
    PROVE  Severed(u, LeftTree(u, n), n) /\ Top(LeftTree(u, n)) = Kid(u, "left", n)
           /\ LeftTree(u, n).child = Cut(u, n).child
<1> DEFINE c == Cut(u, n)
           left == Kid(u, "left", n)
           w == [c EXCEPT !.root = left]
<1>1. LeftTree(u, n) = w
    BY DEF LeftTree
<1>2. Severed(u, c, n)
    BY CutFacts DEF Cut
<1>3. left \in Nodes \cup {Nil}
    BY TreeType DEF Sides
<1> HIDE DEF c, left
<1>4. w \in Tree /\ w.root = left /\ w.child = c.child /\ w.parent = c.parent /\ w.weight = c.weight
    BY <1>2, <1>3, SetRoot DEF Severed
<1> HIDE DEF w
<1>5. Severed(u, w, n)
    BY <1>2, <1>4 DEF Severed, Up
<1> QED BY <1>1, <1>4, <1>5 DEF Top, c, left

LEMMA RemainsMerged ==
    ASSUME NEW u \in Tree, NEW len, NEW n \in Nodes, Kid(u, "left", n) # Nil,
           NEW C, C \subseteq Nodes, n \notin C, Kid(u, "left", n) \in C,
           NEW l \in Tree, l = LeftSplayed(u, len, n), Apart(LeftTree(u, n), l, C),
           NEW m \in C, Top(l) = m
    PROVE  Merged(u, l, Remains(u, len, n), n, m, C)
<1> DEFINE w == LeftTree(u, n)
           right == Kid(u, "right", n)
           a == [l EXCEPT !.child["right"][m] = right]
           j == SetParent(a, right, m)
           v == Unlink(j, n)
<1>1. Remains(u, len, n) = v
    BY DEF Remains, JoinRight, Top
<1>2. Severed(u, w, n)
    BY LeftTreeFacts
<1>t. "left" \in Sides /\ "right" \in Sides
    BY DEF Sides
<1>3. right \in Nodes \cup {Nil} /\ m \in Nodes /\ m \in Nodes \cup {Nil}
    BY TreeType, <1>t
<1>4. Apart(w, l, C)
    OBVIOUS
<1> HIDE DEF w, right
<1>5. ChildChanged(a, l, "right", m, right)
    BY <1>3, <1>t, ChangeChild
<1> HIDE DEF a
<1>6. ParentSet(j, a, right, m)
    BY <1>3, <1>5, SetParentFacts DEF ChildChanged
<1> HIDE DEF j
<1>7. Unlinked(v, j, n)
    BY <1>6, UnlinkFacts DEF ParentSet
<1> HIDE DEF v
<1>8. v \in Tree /\ Top(v) = m
    BY <1>5, <1>6, <1>7 DEF Unlinked, ParentSet, ChildChanged, Top
<1>9. \A b \in Nodes, s \in Sides : Kid(j, s, b) = Kid(a, s, b)
    BY <1>6 DEF ParentSet, Kid
<1>10. \A b \in Nodes, s \in Sides :
        Kid(v, s, b) = IF b = n THEN Nil ELSE IF b = m /\ s = "right" THEN right ELSE Kid(l, s, b)
    BY <1>5, <1>7, <1>9 DEF Unlinked, ChildChanged
<1>11. \A b \in Nodes, s \in Sides : Kid(w, s, b) = Kid(u, s, b)
    BY <1>2 DEF Severed, Kid
<1>12. \A b \in Nodes, s \in Sides : b \notin C => Kid(l, s, b) = Kid(u, s, b)
    BY <1>4, <1>11 DEF Apart
<1>13. \A b \in Nodes : Up(v, b) = IF b = n THEN Nil ELSE IF b = right THEN m ELSE Up(l, b)
    <2>1. \A b \in Nodes : Up(a, b) = Up(l, b)
        BY <1>5 DEF ChildChanged, Up
    <2> QED BY <1>6, <1>7, <2>1 DEF Unlinked, ParentSet
<1>14. \A b \in Nodes : b \notin C /\ b # right => Up(l, b) = Up(u, b)
    BY <1>2, <1>4 DEF Apart, Severed, right
<1>15. \A b \in Nodes : Heavy(v, b) = IF b \in C THEN Heavy(l, b) ELSE Heavy(u, b)
    <2>1. \A b \in Nodes : Heavy(v, b) = Heavy(l, b)
        BY <1>5, <1>6, <1>7 DEF Unlinked, ParentSet, ChildChanged, Heavy
    <2>2. \A b \in Nodes : b \notin C => Heavy(l, b) = Heavy(w, b)
        BY <1>4 DEF Apart
    <2>3. \A b \in Nodes : Heavy(w, b) = Heavy(u, b)
        BY <1>2 DEF Severed, Heavy
    <2> QED BY <2>1, <2>2, <2>3
<1>16. \A b \in Nodes, s \in Sides :
        Kid(v, s, b) = IF b = n THEN Nil
                       ELSE IF b = m /\ s = "right" THEN right
                       ELSE IF b \in C THEN Kid(l, s, b) ELSE Kid(u, s, b)
    BY <1>10, <1>12
<1>17. \A b \in Nodes :
        Up(v, b) = IF b = n THEN Nil
                   ELSE IF b = right THEN m
                   ELSE IF b \in C THEN Up(l, b) ELSE Up(u, b)
    BY <1>13, <1>14
<1> QED BY <1>1, <1>8, <1>15, <1>16, <1>17 DEF Merged, right

\* After a deletion the tree holds the other nodes, and all the weights are right.
Deleted(t, v, len, D, p, y, n, lo, hi) ==
    /\ Whole(v, D \ {n}, y, lo, hi - 1)
    /\ \A b \in D \ {n} : Sums(v, len, b)
    /\ \A b \in D \ {n} : At(y, b) = At(p, b) - Behind(p, At(p, n), b)
    /\ Up(v, n) = Nil /\ \A s \in Sides : Kid(v, s, n) = Nil
    /\ Apart(t, v, D)

LEMMA DeleteShifts ==
    ASSUME NEW t, NEW len \in [Nodes -> Nat], NEW D, NEW p, NEW lo, NEW hi, NEW n \in D,
           Held(t, len, D, p, lo, hi, At(p, n)), n = Top(t), Kid(t, "left", n) = Nil,
           NEW c \in D, c # n
    PROVE  LET all == Remains(t, len, n)
           IN  /\ Top(all) # Nil
               /\ \E y : Deleted(t, UpdateSubtree(all, len, Top(all)), len, D, p, y, n, lo, hi)
<1> DEFINE all == Remains(t, len, n)
           v == UpdateSubtree(all, len, Top(all))
           right == Kid(t, "right", n)
           x == At(p, n)
           E == D \ {n}
<1>1. /\ Whole(t, D, p, lo, hi) /\ Forest(t, D, p) /\ t \in Tree /\ D \subseteq Nodes
      /\ p \in Layouts(D) /\ Nil \notin D /\ lo \in Int /\ hi \in Int
      /\ Edge(p, "left", n) = lo /\ Edge(p, "right", n) = hi
    BY HeldFacts DEF Whole
<1>t. "left" \in Sides /\ "right" \in Sides
    BY DEF Sides
<1>2. right # Nil
    <2> SUFFICES ASSUME right = Nil PROVE FALSE
        OBVIOUS
    <2>1. lo = x /\ hi = x
        BY <1>1, <1>t, NilKid
    <2>2. lo <= Edge(p, "left", c) /\ Edge(p, "right", c) <= hi
        BY <1>1 DEF Whole
    <2>3. At(p, c) = x
        BY <1>1, <2>1, <2>2, ForestFacts
    <2> QED BY <1>1, <2>3, ForestFacts
<1>3. ShiftedUp(t, all, n)
    BY <1>1, RemainsShifted
<1>4. PICK y : Shut(y, p, p, D, {}, n, n, hi)
    BY <1>1, ShutExists
<1> HIDE DEF all
<1>5. Whole(all, E, y, lo, hi - 1) /\ \A b \in E : x < At(p, b)
    BY <1>1, <1>2, <1>3, <1>4, ShiftedWhole
<1>6. Top(all) = right /\ Top(all) # Nil
    BY <1>2, <1>3 DEF ShiftedUp
<1>7. \A b \in E \ {Top(all)} : Sums(all, len, b)
    <2> DEFINE R == After(p, D, n)
    <2>1. SameOn(t, all, R)
        BY <1>1, <1>3, ForestFacts DEF SameOn, ShiftedUp, After
    <2>2. \A b \in E : b \in R
        BY <1>5 DEF After
    <2> HIDE DEF R
    <2>3. \A b \in R : Sums(all, len, b)
        BY <2>1, RightSums DEF R
    <2> QED BY <2>2, <2>3
<1>8. /\ Whole(v, E, y, lo, hi - 1) /\ \A b \in E : Sums(v, len, b)
      /\ v.child = all.child /\ v.parent = all.parent /\ Apart(all, v, E)
    <2> HIDE DEF E
    <2> QED BY <1>5, <1>7, TopUpdated
<1> HIDE DEF v
<1>9. \A b \in E : At(y, b) = At(p, b) - Behind(p, x, b)
    <2> SUFFICES ASSUME NEW b \in E PROVE At(y, b) = At(p, b) - Behind(p, x, b)
        OBVIOUS
    <2>1. At(y, b) = At(p, b) - 1
        BY <1>4 DEF Shut
    <2> QED BY <1>5, <2>1 DEF Behind
<1>10. n \in Nodes /\ Up(v, n) = Nil /\ \A s \in Sides : Kid(v, s, n) = Nil
    BY <1>1, <1>3, <1>8 DEF ShiftedUp, Up, Kid
<1>11. Apart(t, v, D)
    <2> SUFFICES ASSUME NEW b \in Nodes \ D
                 PROVE  /\ Up(v, b) = Up(t, b) /\ Heavy(v, b) = Heavy(t, b)
                        /\ \A s \in Sides : Kid(v, s, b) = Kid(t, s, b)
        BY DEF Apart
    <2>1. right \in D
        BY <1>1, <1>2, <1>t, KidFacts
    <2>2. b # n /\ b # right /\ b \in Nodes \ E
        BY <2>1
    <2>3. /\ Up(all, b) = Up(t, b) /\ Heavy(all, b) = Heavy(t, b)
          /\ \A s \in Sides : Kid(all, s, b) = Kid(t, s, b)
        BY <1>3, <2>2 DEF ShiftedUp
    <2> QED BY <1>8, <2>2, <2>3 DEF Apart
<1>12. Deleted(t, v, len, D, p, y, n, lo, hi)
    BY <1>8, <1>9, <1>10, <1>11 DEF Deleted
<1> QED BY <1>6, <1>12 DEF v, all

LEMMA DeleteMerges ==
    ASSUME NEW t, NEW len \in [Nodes -> Nat], NEW D, NEW p, NEW lo, NEW hi, NEW n \in D,
           Held(t, len, D, p, lo, hi, At(p, n)), n = Top(t), Kid(t, "left", n) # Nil,
           hi - lo < Depth, Depth \in Nat
    PROVE  LET all == Remains(t, len, n)
           IN  /\ Top(all) # Nil
               /\ \E y : Deleted(t, UpdateSubtree(all, len, Top(all)), len, D, p, y, n, lo, hi)
<1> DEFINE all == Remains(t, len, n)
           v == UpdateSubtree(all, len, Top(all))
           left == Kid(t, "left", n)
           right == Kid(t, "right", n)
           x == At(p, n)
           E == D \ {n}
           C == {b \in D : At(p, b) < x}
           w == LeftTree(t, n)
           m == Maximum(Cut(t, n), left)
           l == LeftSplayed(t, len, n)
<1>1. /\ Whole(t, D, p, lo, hi) /\ Forest(t, D, p) /\ t \in Tree /\ D \subseteq Nodes
      /\ p \in Layouts(D) /\ Nil \notin D /\ lo \in Int /\ hi \in Int
      /\ Edge(p, "left", n) = lo /\ Edge(p, "right", n) = hi
      /\ SummedBut(t, len, D, p, x)
    BY HeldFacts DEF Whole
<1>t. "left" \in Sides /\ "right" \in Sides
    BY DEF Sides
<1>x. x \in Int /\ lo <= x /\ x <= hi
    BY <1>1, ForestFacts
<1>2. n \in Nodes /\ C \subseteq D /\ n \notin C /\ C \subseteq Nodes
    BY <1>1, <1>x
<1>3. Severed(t, w, n) /\ Top(w) = left /\ w.child = Cut(t, n).child
    BY <1>1, <1>2, LeftTreeFacts
<1>4. PICK q : Part(q, p, C)
    BY <1>1, <1>2, PartExists
<1> HIDE DEF w
<1>5. Whole(w, C, q, lo, x - 1)
    BY <1>1, <1>3, <1>4, LeftWhole
<1>6. left \in C
    BY <1>3, <1>5 DEF Whole
<1>7. m \in C /\ At(q, m) = x - 1
    <2>1. (x - 1) - lo < Depth
        BY <1>1, <1>x
    <2>2. Cut(t, n).child = w.child
        BY <1>3
    <2> HIDE DEF C, x, left
    <2> QED BY <1>3, <1>5, <2>1, <2>2, MaximumIsLast
<1>8. SummedBut(w, len, C, q, At(q, m))
    <2> SUFFICES ASSUME NEW b \in C PROVE Sums(w, len, b)
        BY DEF SummedBut
    <2>1. b \in D \ {n} /\ b \in Nodes
        BY <1>1, <1>2
    <2>2. Sums(t, len, b)
        BY <1>1, <2>1, TopAbove DEF SummedBut
    <2>3. \A s \in Sides : Kid(w, s, b) = Kid(t, s, b)
        BY <1>3, <2>1 DEF Severed, Kid
    <2>4. w.weight = t.weight
        BY <1>3 DEF Severed
    <2> QED BY <1>t, <2>2, <2>3, <2>4 DEF Sums, Weight, Heavy
<1>9. PICK z : Lifted(w, l, len, C, q, z, lo, x - 1, m) /\ Top(l) = m
    <2>1. Held(w, len, C, q, lo, x - 1, At(q, m))
        BY <1>5, <1>8 DEF Held
    <2>2. (x - 1) - lo < Depth
        BY <1>1, <1>x
    <2>3. l = Splay(w, len, m)
        BY DEF LeftSplayed, w
    <2> HIDE DEF C, x, m, l
    <2> QED BY <1>7, <2>1, <2>2, <2>3, SplayLifts
<1> HIDE DEF l, m
<1>10. /\ Held(l, len, C, z, lo, x - 1, At(z, m)) /\ Apart(w, l, C) /\ z \in Layouts(C)
       /\ \A b \in C : At(z, b) = At(p, b)
    <2>1. \A b \in C : At(z, b) = At(q, b) /\ At(q, b) = At(p, b)
        BY <1>4, <1>9 DEF Lifted, Part
    <2> HIDE DEF C
    <2> QED BY <1>7, <1>9, <2>1 DEF Lifted
<1>11. Whole(l, C, z, lo, x - 1) /\ l \in Tree
    BY <1>10, HeldFacts
<1>12. At(z, m) = x - 1
    BY <1>4, <1>7, <1>10 DEF Part
<1>13. Merged(t, l, all, n, m, C)
    <2>1. l = LeftSplayed(t, len, n) /\ Apart(LeftTree(t, n), l, C)
        BY <1>10 DEF l, w
    <2> HIDE DEF C
    <2> QED BY <1>1, <1>2, <1>6, <1>7, <1>9, <1>11, <2>1, RemainsMerged
<1>14. PICK y : Shut(y, p, z, D, C, n, m, hi)
    <2>1. C \subseteq D \ {n}
        BY <1>2
    <2> HIDE DEF C
    <2> QED BY <1>1, <1>10, <2>1, ShutExists
<1> HIDE DEF all
<1>15. Whole(all, E, y, lo, hi - 1)
    <2>1. C = {b \in D : At(p, b) < At(p, n)}
        OBVIOUS
    <2> HIDE DEF C
    <2> QED BY <1>1, <1>9, <1>11, <1>12, <1>13, <1>14, <2>1, MergedWhole
<1>16. Top(all) = m /\ m # Nil
    BY <1>1, <1>2, <1>7, <1>13 DEF Merged
<1>17. \A b \in E \ {Top(all)} : Sums(all, len, b)
    <2>1. C = {b \in D : At(p, b) < At(p, n)}
        OBVIOUS
    <2>2. \A b \in D \ {n, m} : Sums(all, len, b)
        <3> HIDE DEF C
        <3> QED BY <1>1, <1>9, <1>10, <1>13, <2>1, MergedSums
    <2> QED BY <1>16, <2>2
<1>18. /\ Whole(v, E, y, lo, hi - 1) /\ \A b \in E : Sums(v, len, b)
       /\ v.child = all.child /\ v.parent = all.parent /\ Apart(all, v, E)
    <2> HIDE DEF E
    <2> QED BY <1>15, <1>17, TopUpdated
<1> HIDE DEF v
<1>19. \A b \in E : At(y, b) = At(p, b) - Behind(p, x, b)
    <2> SUFFICES ASSUME NEW b \in E PROVE At(y, b) = At(p, b) - Behind(p, x, b)
        OBVIOUS
    <2>0. At(p, b) \in Int /\ At(p, b) # x
        BY <1>1, ForestFacts
    <2>1. CASE b \in C
        <3>1. At(y, b) = At(z, b) /\ At(z, b) = At(p, b)
            BY <1>10, <1>14, <2>1 DEF Shut
        <3> QED BY <1>x, <2>0, <2>1, <3>1 DEF Behind
    <2>2. CASE b \notin C
        <3>1. At(y, b) = At(p, b) - 1
            BY <1>14, <2>2 DEF Shut
        <3> QED BY <1>x, <2>0, <2>2, <3>1 DEF Behind
    <2> QED BY <2>1, <2>2
<1>20. Up(v, n) = Nil /\ \A s \in Sides : Kid(v, s, n) = Nil
    BY <1>2, <1>13, <1>18 DEF Merged, Up, Kid
<1>21. Apart(t, v, D)
    <2> SUFFICES ASSUME NEW b \in Nodes \ D
                 PROVE  /\ Up(v, b) = Up(t, b) /\ Heavy(v, b) = Heavy(t, b)
                        /\ \A s \in Sides : Kid(v, s, b) = Kid(t, s, b)
        BY DEF Apart
    <2>1. right # Nil => right \in D
        BY <1>1, <1>t, KidFacts
    <2>2. b # n /\ b # m /\ b \notin C /\ b # right /\ b \in Nodes \ E
        BY <1>2, <1>7, <2>1, NilFacts
    <2>3. /\ Up(all, b) = Up(t, b) /\ Heavy(all, b) = Heavy(t, b)
          /\ \A s \in Sides : Kid(all, s, b) = Kid(t, s, b)
        BY <1>13, <2>2 DEF Merged
    <2> QED BY <1>18, <2>2, <2>3 DEF Apart
<1>22. Deleted(t, v, len, D, p, y, n, lo, hi)
    BY <1>18, <1>19, <1>20, <1>21 DEF Deleted
<1> QED BY <1>16, <1>22 DEF v, all

LEMMA DeleteHolds ==
    ASSUME NEW t, NEW len \in [Nodes -> Nat], NEW D, NEW p, NEW lo, NEW hi, NEW n \in D,
           Held(t, len, D, p, lo, hi, At(p, n)), hi - lo < Depth, Depth \in Nat,
           NEW c \in D, c # n
    PROVE  \E y : Deleted(t, Delete(t, len, n), len, D, p, y, n, lo, hi)
<1> DEFINE u == Splay(t, len, n)
           all == Remains(u, len, n)
           v == UpdateSubtree(all, len, Top(all))
<1>1. PICK z : Lifted(t, u, len, D, p, z, lo, hi, n) /\ Top(u) = n
    BY SplayLifts
<1>2. Delete(t, len, n) = IF Top(all) = Nil THEN all ELSE v
    BY DeleteSteps
<1> HIDE DEF u
<1>3. /\ Held(u, len, D, z, lo, hi, At(z, n)) /\ Apart(t, u, D)
      /\ \A b \in D : At(z, b) = At(p, b)
    BY <1>1 DEF Lifted
<1>4. Top(all) # Nil /\ \E y : Deleted(u, v, len, D, z, y, n, lo, hi)
    <2>1. CASE Kid(u, "left", n) = Nil
        BY <1>1, <1>3, <2>1, DeleteShifts
    <2>2. CASE Kid(u, "left", n) # Nil
        BY <1>1, <1>3, <2>2, DeleteMerges
    <2> QED BY <2>1, <2>2
<1>5. PICK y : Deleted(u, v, len, D, z, y, n, lo, hi)
    BY <1>4
<1> HIDE DEF v
<1>6. Apart(t, v, D)
    BY <1>3, <1>5, ApartTwice DEF Deleted
<1>7. Deleted(t, v, len, D, p, y, n, lo, hi)
    BY <1>3, <1>5, <1>6 DEF Deleted, Behind
<1> QED BY <1>2, <1>4, <1>7
-----------------------------------------------------------------------------
(***************************************************************************)
(* The tree beside the list                                                *)
(***************************************************************************)

\* The tree t holds the list l, and no other node is linked to anything.
Places(p, l) == \A i \in DOMAIN l : At(p, l[i]) = i
MirrorAt(t, len, l, p) ==
    Held(t, len, Range(l), p, 1, Len(l), At(p, Top(t))) /\ Places(p, l)
Loose(t, D) == \A b \in Nodes \ D : Up(t, b) = Nil /\ \A s \in Sides : Kid(t, s, b) = Nil
Mirrors(t, len, l) == (\E p : MirrorAt(t, len, l, p)) /\ Loose(t, Range(l))

\* A list of blocks, none twice.
Lists == {l \in Seq(Nodes) : Len(l) # 0 /\ \A i, j \in DOMAIN l : l[i] = l[j] => i = j}

LEMMA ListFacts ==
    ASSUME NEW l \in Lists
    PROVE  /\ l \in Seq(Nodes) /\ Len(l) \in Nat \ {0} /\ DOMAIN l = 1 .. Len(l)
           /\ \A i \in 1 .. Len(l) : l[i] \in Nodes /\ l[i] \in Range(l)
           /\ \A i, j \in 1 .. Len(l) : l[i] = l[j] => i = j
           /\ Range(l) \subseteq Nodes
           /\ \A b \in Range(l) : PlaceOf(l, b) \in 1 .. Len(l) /\ l[PlaceOf(l, b)] = b
<1>1. l \in Seq(Nodes) /\ Len(l) # 0 /\ \A i, j \in DOMAIN l : l[i] = l[j] => i = j
    BY DEF Lists
<1>2. Len(l) \in Nat \ {0} /\ DOMAIN l = 1 .. Len(l)
    BY <1>1
<1>3. \A i \in 1 .. Len(l) : l[i] \in Nodes /\ l[i] \in Range(l)
    BY <1>1, <1>2 DEF Range
<1>4. Range(l) \subseteq Nodes
    BY <1>2, <1>3 DEF Range
<1>5. ASSUME NEW b \in Range(l)
      PROVE  PlaceOf(l, b) \in 1 .. Len(l) /\ l[PlaceOf(l, b)] = b
    <2>1. \E i \in DOMAIN l : l[i] = b
        BY DEF Range
    <2> QED BY <1>2, <2>1 DEF PlaceOf
<1> QED BY <1>1, <1>2, <1>3, <1>4, <1>5

LEMMA DepthFacts ==
    /\ Depth \in Nat
    /\ \A l \in Lists : Len(l) <= Depth
<1>1. IsFiniteSet(Nodes)
    BY NodesAssumption, ContentsAssumption, WidthAssumption, FS_Interval
<1>2. Depth \in Nat
    BY <1>1, FS_CardinalityType DEF Depth
<1>3. ASSUME NEW l \in Lists
      PROVE  Len(l) <= Depth
    <2>1. l \in Injection(1 .. Len(l), Nodes)
        BY ListFacts DEF Injection, IsInjective
    <2>2. Cardinality(1 .. Len(l)) <= Cardinality(Nodes)
        BY <1>1, <2>1, FS_Injection
    <2>3. Cardinality(1 .. Len(l)) = Len(l)
        <3>1. Len(l) \in Nat \ {0}
            BY ListFacts
        <3> QED BY <3>1, FS_Interval
    <2> QED BY <2>2, <2>3 DEF Depth
<1> QED BY <1>2, <1>3

\* The list r is s with x behind the first i of its blocks.
Inserted(s, r, i, x) ==
    /\ s \in Seq(Nodes) /\ r \in Seq(Nodes) /\ i \in 0 .. Len(s)
    /\ Len(r) = Len(s) + 1
    /\ \A k \in 1 .. i : r[k] = s[k]
    /\ r[i + 1] = x
    /\ \A k \in (i + 1) .. Len(s) : r[k + 1] = s[k]

LEMMA CutSeq ==
    ASSUME NEW s \in Seq(Nodes), NEW i \in 1 .. Len(s) + 1, NEW j \in Int, i - 1 <= j, j <= Len(s)
    PROVE  /\ SubSeq(s, i, j) \in Seq(Nodes)
           /\ Len(SubSeq(s, i, j)) = j - i + 1
           /\ \A k \in 1 .. j - i + 1 : SubSeq(s, i, j)[k] = s[i + k - 1]
<1>1. i \in Int /\ Len(s) \in Nat
    OBVIOUS
<1>2. \A k \in i .. j : s[k] \in Nodes
    BY <1>1
<1>3. /\ SubSeq(s, i, j) \in Seq(Nodes)
      /\ Len(SubSeq(s, i, j)) = IF i <= j THEN j - i + 1 ELSE 0
      /\ \A k \in 1 .. j - i + 1 : SubSeq(s, i, j)[k] = s[i + k - 1]
    BY <1>1, <1>2, SubSeqProperties
<1> QED BY <1>1, <1>3

LEMMA InsertSeq ==
    ASSUME NEW s \in Seq(Nodes), NEW x \in Nodes, NEW i \in 0 .. Len(s)
    PROVE  Inserted(s, SubSeq(s, 1, i) \o <<x>> \o SubSeq(s, i + 1, Len(s)), i, x)
<1> DEFINE a == SubSeq(s, 1, i)
           b == SubSeq(s, i + 1, Len(s))
           c == a \o <<x>>
           r == c \o b
           n == Len(s)
<1>1. n \in Nat /\ i \in Nat /\ i <= n
    OBVIOUS
<1>2. a \in Seq(Nodes) /\ Len(a) = i /\ \A k \in 1 .. i : a[k] = s[k]
    <2>1. /\ a \in Seq(Nodes) /\ Len(a) = i - 1 + 1
          /\ \A k \in 1 .. i - 1 + 1 : a[k] = s[1 + k - 1]
        BY <1>1, CutSeq
    <2> HIDE DEF a
    <2> QED BY <1>1, <2>1
<1>3. b \in Seq(Nodes) /\ Len(b) = n - i /\ \A k \in 1 .. (n - i) : b[k] = s[i + k]
    <2>1. /\ b \in Seq(Nodes) /\ Len(b) = n - (i + 1) + 1
          /\ \A k \in 1 .. n - (i + 1) + 1 : b[k] = s[(i + 1) + k - 1]
        BY <1>1, CutSeq
    <2> HIDE DEF b
    <2> QED BY <1>1, <2>1
<1> HIDE DEF a, b, n
<1>4. c \in Seq(Nodes) /\ Len(c) = i + 1 /\ c[i + 1] = x /\ \A k \in 1 .. i : c[k] = s[k]
    BY <1>1, <1>2
<1> HIDE DEF c
<1>5. /\ r \in Seq(Nodes) /\ Len(r) = Len(c) + Len(b)
      /\ \A k \in 1 .. Len(c) + Len(b) : r[k] = IF k <= Len(c) THEN c[k] ELSE b[k - Len(c)]
    BY <1>3, <1>4, ConcatProperties
<1> HIDE DEF r
<1>6. Len(r) = n + 1 /\ \A k \in 1 .. (n + 1) : r[k] = IF k <= i + 1 THEN c[k] ELSE b[k - (i + 1)]
    BY <1>1, <1>3, <1>4, <1>5
<1>7. ASSUME NEW k \in (i + 1) .. n
      PROVE  r[k + 1] = s[k]
    <2>1. k + 1 \in 1 .. (n + 1) /\ ~(k + 1 <= i + 1) /\ (k + 1) - (i + 1) = k - i
        BY <1>1
    <2>2. k - i \in 1 .. (n - i) /\ i + (k - i) = k
        BY <1>1
    <2> QED BY <1>3, <1>6, <2>1, <2>2
<1>8. /\ \A k \in 1 .. i : r[k] = s[k]
      /\ r[i + 1] = x
    BY <1>1, <1>4, <1>6
<1>9. Inserted(s, r, i, x)
    BY <1>1, <1>5, <1>6, <1>7, <1>8 DEF Inserted, n
<1> QED BY <1>9 DEF r, c, a, b

LEMMA RemoveSeq ==
    ASSUME NEW s \in Seq(Nodes), NEW i \in 1 .. Len(s)
    PROVE  Inserted(SubSeq(s, 1, i - 1) \o SubSeq(s, i + 1, Len(s)), s, i - 1, s[i])
<1> DEFINE a == SubSeq(s, 1, i - 1)
           b == SubSeq(s, i + 1, Len(s))
           r == a \o b
           n == Len(s)
<1>1. n \in Nat /\ i \in Nat /\ 1 <= i /\ i <= n
    OBVIOUS
<1>2. a \in Seq(Nodes) /\ Len(a) = i - 1 /\ \A k \in 1 .. (i - 1) : a[k] = s[k]
    <2>1. /\ a \in Seq(Nodes) /\ Len(a) = (i - 1) - 1 + 1
          /\ \A k \in 1 .. (i - 1) - 1 + 1 : a[k] = s[1 + k - 1]
        BY <1>1, CutSeq
    <2> HIDE DEF a
    <2> QED BY <1>1, <2>1
<1>3. b \in Seq(Nodes) /\ Len(b) = n - i /\ \A k \in 1 .. (n - i) : b[k] = s[i + k]
    <2>1. /\ b \in Seq(Nodes) /\ Len(b) = n - (i + 1) + 1
          /\ \A k \in 1 .. n - (i + 1) + 1 : b[k] = s[(i + 1) + k - 1]
        BY <1>1, CutSeq
    <2> HIDE DEF b
    <2> QED BY <1>1, <2>1
<1> HIDE DEF a, b, n
<1>4. /\ r \in Seq(Nodes) /\ Len(r) = Len(a) + Len(b)
      /\ \A k \in 1 .. Len(a) + Len(b) : r[k] = IF k <= Len(a) THEN a[k] ELSE b[k - Len(a)]
    BY <1>2, <1>3, ConcatProperties
<1> HIDE DEF r
<1>5. Len(r) = n - 1 /\ \A k \in 1 .. (n - 1) : r[k] = IF k <= i - 1 THEN a[k] ELSE b[k - (i - 1)]
    BY <1>1, <1>2, <1>3, <1>4
<1>6. ASSUME NEW k \in i .. (n - 1)
      PROVE  s[k + 1] = r[k]
    <2>1. k \in 1 .. (n - 1) /\ ~(k <= i - 1) /\ k - (i - 1) = k + 1 - i
        BY <1>1
    <2>2. k + 1 - i \in 1 .. (n - i) /\ i + (k + 1 - i) = k + 1
        BY <1>1
    <2> QED BY <1>3, <1>5, <2>1, <2>2
<1>7. \A k \in 1 .. (i - 1) : s[k] = r[k]
    BY <1>1, <1>2, <1>5
<1>8. i - 1 \in 0 .. Len(r) /\ n = Len(r) + 1 /\ (i - 1) + 1 = i
    BY <1>1, <1>5
<1>9. \A k \in ((i - 1) + 1) .. Len(r) : s[k + 1] = r[k]
    BY <1>1, <1>5, <1>6
<1>10. Inserted(r, s, i - 1, s[i])
    BY <1>4, <1>7, <1>8, <1>9 DEF Inserted, n
<1> QED BY <1>10 DEF r, a, b

\* Every place of the longer list is the new one or comes from the shorter list.
LEMMA InsertedPlaces ==
    ASSUME NEW s, NEW r, NEW i, NEW x, Inserted(s, r, i, x), NEW j \in 1 .. Len(r)
    PROVE  \/ j = i + 1
           \/ j \in 1 .. Len(s) /\ j <= i /\ r[j] = s[j]
           \/ j - 1 \in 1 .. Len(s) /\ i < j - 1 /\ r[j] = s[j - 1]
<1>1. i \in Nat /\ Len(s) \in Nat /\ i <= Len(s) /\ Len(r) = Len(s) + 1
    BY DEF Inserted
<1>2. CASE j <= i
    BY <1>1, <1>2 DEF Inserted
<1>3. CASE i + 1 < j
    <2>1. j - 1 \in (i + 1) .. Len(s) /\ (j - 1) + 1 = j
        BY <1>1, <1>3
    <2>2. r[j] = s[j - 1]
        BY <2>1 DEF Inserted
    <2> QED BY <1>1, <1>3, <2>1, <2>2
<1> QED BY <1>1, <1>2, <1>3

LEMMA InsertedRange ==
    ASSUME NEW s, NEW r, NEW i, NEW x, Inserted(s, r, i, x)
    PROVE  Range(r) = Range(s) \cup {x}
<1>1. /\ i \in Nat /\ Len(s) \in Nat /\ i <= Len(s) /\ Len(r) = Len(s) + 1
      /\ DOMAIN s = 1 .. Len(s) /\ DOMAIN r = 1 .. Len(r)
    BY DEF Inserted
<1>2. ASSUME NEW b \in Range(r) PROVE b \in Range(s) \cup {x}
    <2>1. PICK j \in 1 .. Len(r) : b = r[j]
        BY <1>1 DEF Range
    <2>2. j = i + 1 => b = x
        BY <2>1 DEF Inserted
    <2>3. j = i + 1 \/ (\E k \in 1 .. Len(s) : r[j] = s[k])
        <3>1. \/ j = i + 1
              \/ j \in 1 .. Len(s) /\ j <= i /\ r[j] = s[j]
              \/ j - 1 \in 1 .. Len(s) /\ i < j - 1 /\ r[j] = s[j - 1]
            BY <2>1, InsertedPlaces
        <3> QED BY <3>1
    <2> QED BY <1>1, <2>1, <2>2, <2>3 DEF Range
<1>3. x \in Range(r)
    <2>1. i + 1 \in 1 .. Len(r) /\ r[i + 1] = x
        BY <1>1 DEF Inserted
    <2> QED BY <1>1, <2>1 DEF Range
<1>4. ASSUME NEW b \in Range(s) PROVE b \in Range(r)
    <2>1. PICK k \in 1 .. Len(s) : b = s[k]
        BY <1>1 DEF Range
    <2>2. CASE k <= i
        <3>1. k \in 1 .. Len(r) /\ r[k] = b
            BY <1>1, <2>1, <2>2 DEF Inserted
        <3> QED BY <1>1, <3>1 DEF Range
    <2>3. CASE i < k
        <3>1. k + 1 \in 1 .. Len(r) /\ r[k + 1] = b
            BY <1>1, <2>1, <2>3 DEF Inserted
        <3> QED BY <1>1, <3>1 DEF Range
    <2> QED BY <1>1, <2>2, <2>3
<1> QED BY <1>2, <1>3, <1>4

LEMMA InsertedList ==
    ASSUME NEW l \in Lists, NEW m, NEW i, NEW x, Inserted(l, m, i, x), x \notin Range(l)
    PROVE  m \in Lists
<1>1. /\ i \in Nat /\ Len(l) \in Nat /\ i <= Len(l) /\ Len(m) = Len(l) + 1 /\ m \in Seq(Nodes)
      /\ DOMAIN m = 1 .. Len(m)
    BY DEF Inserted
<1>2. \A k \in 1 .. Len(l) : l[k] # x
    BY ListFacts
<1>3. m[i + 1] = x
    BY DEF Inserted
<1>4. ASSUME NEW j \in 1 .. Len(m), NEW k \in 1 .. Len(m), m[j] = m[k]
      PROVE  j = k
    <2>1. \/ j = i + 1
          \/ j \in 1 .. Len(l) /\ j <= i /\ m[j] = l[j]
          \/ j - 1 \in 1 .. Len(l) /\ i < j - 1 /\ m[j] = l[j - 1]
        BY InsertedPlaces
    <2>2. \/ k = i + 1
          \/ k \in 1 .. Len(l) /\ k <= i /\ m[k] = l[k]
          \/ k - 1 \in 1 .. Len(l) /\ i < k - 1 /\ m[k] = l[k - 1]
        BY InsertedPlaces
    <2>3. \A a, b \in 1 .. Len(l) : l[a] = l[b] => a = b
        BY ListFacts
    <2> QED BY <1>1, <1>2, <1>3, <1>4, <2>1, <2>2, <2>3
<1> QED BY <1>1, <1>4 DEF Lists

LEMMA RemovedList ==
    ASSUME NEW l \in Lists, NEW m, NEW i, NEW x, Inserted(m, l, i, x), Len(l) # 1
    PROVE  m \in Lists /\ Range(m) = Range(l) \ {x} /\ x \notin Range(m)
<1>1. /\ i \in Nat /\ Len(m) \in Nat /\ i <= Len(m) /\ Len(l) = Len(m) + 1 /\ m \in Seq(Nodes)
      /\ DOMAIN m = 1 .. Len(m)
    BY DEF Inserted
<1>2. \A a, b \in 1 .. Len(l) : l[a] = l[b] => a = b
    BY ListFacts
<1>3. \A k \in 1 .. Len(m) : \/ k <= i /\ l[k] = m[k]
                             \/ i < k /\ l[k + 1] = m[k]
    BY <1>1 DEF Inserted
<1>4. \A j, k \in 1 .. Len(m) : m[j] = m[k] => j = k
    <2> SUFFICES ASSUME NEW j \in 1 .. Len(m), NEW k \in 1 .. Len(m), m[j] = m[k]
                 PROVE  j = k
        OBVIOUS
    <2>1. (j <= i /\ l[j] = m[j]) \/ (i < j /\ l[j + 1] = m[j])
        BY <1>3
    <2>2. (k <= i /\ l[k] = m[k]) \/ (i < k /\ l[k + 1] = m[k])
        BY <1>3
    <2>3. {j, j + 1, k, k + 1} \subseteq 1 .. Len(l)
        BY <1>1
    <2> QED BY <1>1, <1>2, <2>1, <2>2, <2>3
<1>5. \A k \in 1 .. Len(m) : m[k] # x
    <2> SUFFICES ASSUME NEW k \in 1 .. Len(m), m[k] = x PROVE FALSE
        OBVIOUS
    <2>1. l[i + 1] = x /\ i + 1 \in 1 .. Len(l)
        BY <1>1 DEF Inserted
    <2>2. (k <= i /\ l[k] = m[k]) \/ (i < k /\ l[k + 1] = m[k])
        BY <1>3
    <2>3. {k, k + 1} \subseteq 1 .. Len(l)
        BY <1>1
    <2> QED BY <1>1, <1>2, <2>1, <2>2, <2>3
<1>6. x \notin Range(m)
    BY <1>1, <1>5 DEF Range
<1>7. Range(l) = Range(m) \cup {x}
    BY InsertedRange
<1> QED BY <1>1, <1>4, <1>6, <1>7 DEF Lists

LEMMA ListInsertFacts ==
    ASSUME NEW l \in Lists, NEW prev \in Range(l), NEW n \in Nodes, n \notin Range(l)
    PROVE  /\ Inserted(l, ListInsert(l, prev, n), PlaceOf(l, prev), n)
           /\ ListInsert(l, prev, n) \in Lists
           /\ Range(ListInsert(l, prev, n)) = Range(l) \cup {n}
<1>1. l \in Seq(Nodes) /\ PlaceOf(l, prev) \in 1 .. Len(l) /\ Len(l) \in Nat
    BY ListFacts
<1>2. PlaceOf(l, prev) \in 0 .. Len(l)
    BY <1>1
<1>3. Inserted(l, ListInsert(l, prev, n), PlaceOf(l, prev), n)
    BY <1>1, <1>2, InsertSeq DEF ListInsert
<1> QED BY <1>3, InsertedList, InsertedRange

LEMMA ListRemoveFacts ==
    ASSUME NEW l \in Lists, NEW n \in Range(l), Len(l) # 1
    PROVE  /\ Inserted(ListRemove(l, n), l, PlaceOf(l, n) - 1, n)
           /\ ListRemove(l, n) \in Lists
           /\ Range(ListRemove(l, n)) = Range(l) \ {n}
<1>1. l \in Seq(Nodes) /\ PlaceOf(l, n) \in 1 .. Len(l) /\ l[PlaceOf(l, n)] = n
    BY ListFacts
<1>2. Inserted(ListRemove(l, n), l, PlaceOf(l, n) - 1, n)
    BY <1>1, RemoveSeq DEF ListRemove
<1> QED BY <1>2, RemovedList

\* The layout of a list gives every block its place.
LEMMA PlacesFacts ==
    ASSUME NEW l \in Lists, NEW p, Places(p, l)
    PROVE  /\ \A i \in 1 .. Len(l) : At(p, l[i]) = i
           /\ \A b \in Range(l) : At(p, b) = PlaceOf(l, b)
BY ListFacts DEF Places

\* The length of one block has changed: only the weights above it may be wrong.
LEMMA Touched ==
    ASSUME NEW t, NEW len, NEW l \in Lists, NEW p, MirrorAt(t, len, l, p), NEW b \in Range(l),
           NEW now, \A c \in Range(l) \ {b} : now[c] = len[c]
    PROVE  Held(t, now, Range(l), p, 1, Len(l), At(p, b))
<1> DEFINE D == Range(l)
           x == At(p, Top(t))
<1>1. /\ Whole(t, D, p, 1, Len(l)) /\ Forest(t, D, p) /\ SummedBut(t, len, D, p, x)
      /\ Top(t) \in D
    BY HeldFacts DEF MirrorAt
<1>2. ASSUME NEW c \in D, ~Holds(p, At(p, b), c)
      PROVE  Sums(t, now, c)
    <2>1. c # b
        BY <1>1, <1>2, ForestFacts DEF Holds
    <2>2. c # Top(t)
        <3>1. Holds(p, At(p, b), Top(t))
            BY <1>1, ForestFacts DEF Whole, Holds
        <3> QED BY <1>2, <3>1
    <2>3. Sums(t, len, c)
        BY <1>1, <2>2, TopAbove DEF SummedBut
    <2> QED BY <2>1, <2>3 DEF Sums
<1>3. SummedBut(t, now, D, p, At(p, b))
    BY <1>2 DEF SummedBut
<1> QED BY <1>1, <1>3 DEF Held

LEMMA MirrorsSplay ==
    ASSUME NEW t, NEW len, NEW l \in Lists, Mirrors(t, len, l), NEW b \in Range(l),
           NEW now \in [Nodes -> Nat], \A c \in Range(l) \ {b} : now[c] = len[c]
    PROVE  Mirrors(Splay(t, now, b), now, l)
<1> DEFINE v == Splay(t, now, b)
           D == Range(l)
<1>1. PICK p : MirrorAt(t, len, l, p)
    BY DEF Mirrors
<1>2. Held(t, now, D, p, 1, Len(l), At(p, b))
    BY <1>1, Touched
<1>3. Len(l) - 1 < Depth /\ Depth \in Nat
    BY ListFacts, DepthFacts
<1>4. PICK q : Lifted(t, v, now, D, p, q, 1, Len(l), b) /\ Top(v) = b
    BY <1>2, <1>3, SplayLifts
<1> HIDE DEF v
<1>5. /\ Held(v, now, D, q, 1, Len(l), At(p, b)) /\ Apart(t, v, D)
      /\ \A c \in D : At(q, c) = At(p, c)
    BY <1>4 DEF Lifted
<1>6. Places(q, l)
    BY <1>1, <1>5, ListFacts DEF MirrorAt, Places
<1>7. MirrorAt(v, now, l, q)
    BY <1>4, <1>5, <1>6 DEF MirrorAt
<1>8. Loose(v, D)
    BY <1>5 DEF Mirrors, Loose, Apart
<1> QED BY <1>7, <1>8 DEF Mirrors, v

\* All weights are right, so also those that need not be.
LEMMA AllSum ==
    ASSUME NEW t, NEW len, NEW D, NEW p, NEW lo, NEW hi, Whole(t, D, p, lo, hi),
           \A b \in D : Sums(t, len, b), NEW x
    PROVE  Held(t, len, D, p, lo, hi, x)
BY DEF Held, SummedBut

LEMMA MirrorsInsert ==
    ASSUME NEW t, NEW len, NEW l \in Lists, Mirrors(t, len, l), NEW prev \in Range(l),
           NEW now \in [Nodes -> Nat], \A c \in Range(l) \ {prev} : now[c] = len[c],
           NEW n \in Nodes, n \notin Range(l)
    PROVE  Mirrors(InsertAfter(t, now, prev, n), now, ListInsert(l, prev, n))
<1> DEFINE v == InsertAfter(t, now, prev, n)
           D == Range(l)
           m == ListInsert(l, prev, n)
           i == PlaceOf(l, prev)
<1>1. PICK p : MirrorAt(t, len, l, p)
    BY DEF Mirrors
<1>2. Held(t, now, D, p, 1, Len(l), At(p, prev))
    BY <1>1, Touched
<1>3. Len(l) - 1 < Depth /\ Depth \in Nat
    BY ListFacts, DepthFacts
<1>4. n \in Nodes \ D /\ Up(t, n) = Nil
    BY DEF Mirrors, Loose
<1>5. PICK q : /\ Whole(v, D \cup {n}, q, 1, Len(l) + 1)
               /\ \A b \in D \cup {n} : Sums(v, now, b)
               /\ At(q, n) = At(p, prev) + 1
               /\ \A b \in D : At(q, b) = At(p, b) + Behind(p, At(p, prev), b)
               /\ Top(v) = n
               /\ Apart(t, v, D \cup {n})
    BY <1>2, <1>3, <1>4, InsertHolds
<1> HIDE DEF v
<1>6. Inserted(l, m, i, n) /\ m \in Lists /\ Range(m) = D \cup {n}
    BY ListInsertFacts
<1> HIDE DEF m
<1>7. /\ \A k \in 1 .. Len(l) : At(p, l[k]) = k /\ l[k] \in D
      /\ At(p, prev) = i /\ i \in 1 .. Len(l) /\ Len(l) \in Nat
    BY <1>1, PlacesFacts, ListFacts DEF MirrorAt
<1> HIDE DEF i
<1>8. Places(q, m)
    <2>1. DOMAIN m = 1 .. Len(m) /\ Len(m) = Len(l) + 1 /\ m[i + 1] = n
        BY <1>6 DEF Inserted
    <2>2. ASSUME NEW j \in 1 .. Len(m) PROVE At(q, m[j]) = j
        <3>1. CASE j = i + 1
            BY <1>5, <1>7, <2>1, <3>1
        <3>2. CASE j \in 1 .. Len(l) /\ j <= i /\ m[j] = l[j]
            <4>1. At(q, l[j]) = j + 0
                BY <1>5, <1>7, <3>2 DEF Behind
            <4> QED BY <3>2, <4>1
        <3>3. CASE j - 1 \in 1 .. Len(l) /\ i < j - 1 /\ m[j] = l[j - 1]
            <4>1. At(q, l[j - 1]) = (j - 1) + 1
                BY <1>5, <1>7, <3>3 DEF Behind
            <4> QED BY <3>3, <4>1
        <3> QED BY <1>6, <3>1, <3>2, <3>3, InsertedPlaces
    <2> QED BY <2>1, <2>2 DEF Places
<1>9. MirrorAt(v, now, m, q)
    <2>1. Len(m) = Len(l) + 1
        BY <1>6 DEF Inserted
    <2>2. Held(v, now, D \cup {n}, q, 1, Len(l) + 1, At(q, Top(v)))
        BY <1>5, AllSum
    <2> QED BY <1>6, <1>8, <2>1, <2>2 DEF MirrorAt
<1>10. Loose(v, Range(m))
    BY <1>5, <1>6 DEF Mirrors, Loose, Apart
<1> QED BY <1>9, <1>10 DEF Mirrors, v, m

LEMMA MirrorsDelete ==
    ASSUME NEW t, NEW len \in [Nodes -> Nat], NEW l \in Lists, Mirrors(t, len, l),
           NEW n \in Range(l), Len(l) # 1
    PROVE  Mirrors(Delete(t, len, n), len, ListRemove(l, n))
<1> DEFINE v == Delete(t, len, n)
           D == Range(l)
           m == ListRemove(l, n)
           i == PlaceOf(l, n)
<1>1. PICK p : MirrorAt(t, len, l, p)
    BY DEF Mirrors
<1>2. Held(t, len, D, p, 1, Len(l), At(p, n))
    BY <1>1, Touched
<1>3. Len(l) - 1 < Depth /\ Depth \in Nat
    BY ListFacts, DepthFacts
<1>4. PICK c \in D : c # n
    <2>1. /\ Len(l) \in Nat \ {0} /\ \A k \in 1 .. Len(l) : l[k] \in D
          /\ \A j, k \in 1 .. Len(l) : l[j] = l[k] => j = k
        BY ListFacts
    <2>2. 1 \in 1 .. Len(l) /\ 2 \in 1 .. Len(l)
        <3>1. Len(l) \in Nat /\ Len(l) # 0
            BY <2>1
        <3>2. 1 <= Len(l) /\ 2 <= Len(l)
            BY <3>1
        <3> QED BY <3>1, <3>2
    <2>3. l[1] # l[2] /\ l[1] \in D /\ l[2] \in D
        BY <2>1, <2>2
    <2> QED BY <2>3
<1>5. PICK q : Deleted(t, v, len, D, p, q, n, 1, Len(l))
    BY <1>2, <1>3, <1>4, DeleteHolds
<1> HIDE DEF v
<1>6. Inserted(m, l, i - 1, n) /\ m \in Lists /\ Range(m) = D \ {n}
    BY ListRemoveFacts
<1> HIDE DEF m
<1>7. /\ \A k \in 1 .. Len(l) : At(p, l[k]) = k
      /\ \A k \in 1 .. Len(m) : m[k] \in D \ {n}
      /\ At(p, n) = i /\ i \in 1 .. Len(l) /\ Len(l) \in Nat
    BY <1>1, <1>6, PlacesFacts, ListFacts DEF MirrorAt
<1> HIDE DEF i
<1>8. Places(q, m)
    <2>1. DOMAIN m = 1 .. Len(m) /\ Len(l) = Len(m) + 1 /\ Len(m) \in Nat
        BY <1>6 DEF Inserted
    <2>2. ASSUME NEW j \in 1 .. Len(m) PROVE At(q, m[j]) = j
        <3>1. At(q, m[j]) = At(p, m[j]) - Behind(p, At(p, n), m[j])
            BY <1>5, <1>7 DEF Deleted
        <3>2. CASE j <= i - 1
            <4>1. l[j] = m[j] /\ j \in 1 .. Len(l)
                BY <1>6, <1>7, <2>1, <3>2 DEF Inserted
            <4> QED BY <1>7, <3>1, <3>2, <4>1 DEF Behind
        <3>3. CASE i <= j
            <4>1. l[j + 1] = m[j] /\ j + 1 \in 1 .. Len(l)
                BY <1>6, <1>7, <2>1, <3>3 DEF Inserted
            <4>2. At(p, m[j]) = j + 1
                BY <1>7, <4>1
            <4>3. Behind(p, At(p, n), m[j]) = 1
                BY <1>7, <3>3, <4>2 DEF Behind
            <4> QED BY <3>1, <4>2, <4>3
        <3> QED BY <1>7, <3>2, <3>3
    <2> QED BY <2>1, <2>2 DEF Places
<1>9. MirrorAt(v, len, m, q)
    <2>1. Len(m) = Len(l) - 1
        BY <1>6 DEF Inserted
    <2>2. Held(v, len, D \ {n}, q, 1, Len(l) - 1, At(q, Top(v)))
        BY <1>5, AllSum DEF Deleted
    <2> QED BY <1>6, <1>8, <2>1, <2>2 DEF MirrorAt
<1>10. Loose(v, Range(m))
    BY <1>5, <1>6 DEF Mirrors, Loose, Apart, Deleted
<1> QED BY <1>9, <1>10 DEF Mirrors, v, m

\* The lengths of blocks that are not in the list do not matter.
LEMMA MirrorsSame ==
    ASSUME NEW t, NEW len, NEW l, Mirrors(t, len, l), NEW now, \A c \in Range(l) : now[c] = len[c]
    PROVE  Mirrors(t, now, l)
<1>1. PICK p : MirrorAt(t, len, l, p)
    BY DEF Mirrors
<1>2. MirrorAt(t, now, l, p)
    BY <1>1 DEF MirrorAt, Held, SummedBut, Sums
<1> QED BY <1>2 DEF Mirrors

\* A part of a list, by the parts before and behind one of its places.
LEMMA JoinSeq ==
    ASSUME NEW s \in Seq(Nodes), NEW a \in Int, NEW i \in Int, NEW z \in Int,
           1 <= a, a <= i, i <= z, z <= Len(s)
    PROVE  SubSeq(s, a, i - 1) \o <<s[i]>> \o SubSeq(s, i + 1, z) = SubSeq(s, a, z)
<1> DEFINE x == SubSeq(s, a, i - 1)
           y == SubSeq(s, i + 1, z)
           c == x \o <<s[i]>>
           r == c \o y
           w == SubSeq(s, a, z)
<1>n. Len(s) \in Nat
    OBVIOUS
<1>0. s[i] \in Nodes
    <2>1. i \in 1 .. Len(s)
        BY <1>n
    <2> QED BY <2>1
<1>1. x \in Seq(Nodes) /\ Len(x) = i - a /\ \A k \in 1 .. (i - a) : x[k] = s[a + k - 1]
    <2>1. /\ x \in Seq(Nodes) /\ Len(x) = (i - 1) - a + 1
          /\ \A k \in 1 .. (i - 1) - a + 1 : x[k] = s[a + k - 1]
        BY <1>n, CutSeq
    <2> HIDE DEF x
    <2> QED BY <2>1
<1>2. y \in Seq(Nodes) /\ Len(y) = z - i /\ \A k \in 1 .. (z - i) : y[k] = s[i + k]
    <2>1. /\ y \in Seq(Nodes) /\ Len(y) = z - (i + 1) + 1
          /\ \A k \in 1 .. z - (i + 1) + 1 : y[k] = s[(i + 1) + k - 1]
        BY <1>n, CutSeq
    <2> HIDE DEF y
    <2>2. \A k \in Int : (i + 1) + k - 1 = i + k
        OBVIOUS
    <2> QED BY <2>1, <2>2
<1>3. w \in Seq(Nodes) /\ Len(w) = z - a + 1 /\ \A k \in 1 .. z - a + 1 : w[k] = s[a + k - 1]
    BY <1>n, CutSeq
<1> HIDE DEF x, y, w
<1>4. c \in Seq(Nodes) /\ Len(c) = i - a + 1 /\ \A k \in 1 .. i - a + 1 : c[k] = s[a + k - 1]
    <2>1. /\ c \in Seq(Nodes) /\ Len(c) = Len(x) + 1
          /\ \A k \in 1 .. Len(x) + 1 : c[k] = IF k <= Len(x) THEN x[k] ELSE s[i]
        <3> DEFINE o == <<s[i]>>
        <3>1. o \in Seq(Nodes) /\ Len(o) = 1 /\ o[1] = s[i]
            BY <1>0
        <3> HIDE DEF o
        <3>2. /\ x \o o \in Seq(Nodes) /\ Len(x \o o) = Len(x) + Len(o)
              /\ \A k \in 1 .. Len(x) + Len(o) :
                    (x \o o)[k] = IF k <= Len(x) THEN x[k] ELSE o[k - Len(x)]
            BY <1>1, <3>1, ConcatProperties
        <3>3. c = x \o o
            BY DEF o
        <3> HIDE DEF c
        <3>4. \A k \in 1 .. Len(x) + 1 : ~(k <= Len(x)) => k - Len(x) = 1
            BY <1>1
        <3> QED BY <3>1, <3>2, <3>3, <3>4
    <2> HIDE DEF c
    <2>2. ASSUME NEW k \in 1 .. i - a + 1 PROVE c[k] = s[a + k - 1]
        <3>1. CASE k <= i - a
            BY <1>1, <2>1, <3>1
        <3>2. CASE k = i - a + 1
            <4>1. a + k - 1 = i
                BY <3>2
            <4> QED BY <1>1, <2>1, <3>2, <4>1
        <3> QED BY <3>1, <3>2
    <2> QED BY <1>1, <2>1, <2>2
<1> HIDE DEF c
<1>5. /\ r \in Seq(Nodes) /\ Len(r) = Len(c) + Len(y)
      /\ \A k \in 1 .. Len(c) + Len(y) : r[k] = IF k <= Len(c) THEN c[k] ELSE y[k - Len(c)]
    BY <1>2, <1>4, ConcatProperties
<1> HIDE DEF r
<1>6. Len(r) = z - a + 1
    BY <1>2, <1>4, <1>5
<1>7. ASSUME NEW k \in 1 .. z - a + 1 PROVE r[k] = w[k]
    <2>1. CASE k <= i - a + 1
        BY <1>2, <1>3, <1>4, <1>5, <2>1
    <2>2. CASE i - a + 1 < k
        <3>1. k - (i - a + 1) \in 1 .. (z - i) /\ i + (k - (i - a + 1)) = a + k - 1
            BY <2>2
        <3> QED BY <1>2, <1>3, <1>4, <1>5, <2>2, <3>1
    <2> QED BY <2>1, <2>2
<1>8. r = w
    BY <1>3, <1>5, <1>6, <1>7, SeqEqual
<1> QED BY <1>8 DEF r, c, x, y, w

\* The part of the list in the interval of a node.
Under(l, p, b) == SubSeq(l, Edge(p, "left", b), Edge(p, "right", b))

UnderBelow(t, l, p, w, b) ==
    /\ w[Nil] = <<>>
    /\ \A s \in Sides : Kid(t, s, b) # Nil => w[Kid(t, s, b)] = Under(l, p, Kid(t, s, b))

LEMMA UnderKids ==
    ASSUME NEW t, NEW len, NEW l \in Lists, NEW p, MirrorAt(t, len, l, p), NEW b \in Range(l),
           NEW w, UnderBelow(t, l, p, w, b)
    PROVE  w[Kid(t, "left", b)] \o <<b>> \o w[Kid(t, "right", b)] = Under(l, p, b)
<1> DEFINE D == Range(l)
           a == Edge(p, "left", b)
           i == At(p, b)
           z == Edge(p, "right", b)
           left == Kid(t, "left", b)
           right == Kid(t, "right", b)
<1>1. Whole(t, D, p, 1, Len(l)) /\ Forest(t, D, p)
    BY HeldFacts DEF MirrorAt
<1>2. a \in Int /\ i \in Int /\ z \in Int /\ 1 <= a /\ a <= i /\ i <= z /\ z <= Len(l)
    BY <1>1, ForestFacts DEF Whole
<1>3. l[i] = b /\ l \in Seq(Nodes) /\ Len(l) \in Nat
    BY ListFacts, PlacesFacts DEF MirrorAt
<1>4. w[left] = SubSeq(l, a, i - 1)
    <2>1. CASE left = Nil
        <3>1. a = i
            BY <1>1, <2>1, NilKid DEF Sides
        <3> HIDE DEF a, i
        <3>2. SubSeq(l, a, i - 1) = <<>>
            BY <1>2, <3>1, SubSeqEmpty
        <3> QED BY <2>1, <3>2 DEF UnderBelow
    <2>2. CASE left # Nil
        <3>1. /\ Edge(p, "left", left) = a
              /\ Edge(p, Other("left"), left) = i + Toward("left")
            BY <1>1, <2>2, KidFacts DEF Sides
        <3> HIDE DEF a, i
        <3>2. Edge(p, "right", left) = i - 1
            BY <1>2, <3>1 DEF Other, Toward
        <3>3. w[left] = Under(l, p, left)
            BY <2>2 DEF Sides, UnderBelow
        <3> QED BY <3>1, <3>2, <3>3 DEF Under
    <2> QED BY <2>1, <2>2
<1>5. w[right] = SubSeq(l, i + 1, z)
    <2>1. CASE right = Nil
        <3>1. z = i
            BY <1>1, <2>1, NilKid DEF Sides
        <3> HIDE DEF z, i
        <3>2. SubSeq(l, i + 1, z) = <<>>
            BY <1>2, <3>1, SubSeqEmpty
        <3> QED BY <2>1, <3>2 DEF UnderBelow
    <2>2. CASE right # Nil
        <3>1. /\ Edge(p, "right", right) = z
              /\ Edge(p, Other("right"), right) = i + Toward("right")
            BY <1>1, <2>2, KidFacts DEF Sides
        <3> HIDE DEF z, i
        <3>2. Edge(p, "left", right) = i + 1
            BY <1>2, <3>1 DEF Other, Toward
        <3>3. w[right] = Under(l, p, right)
            BY <2>2 DEF Sides, UnderBelow
        <3> QED BY <3>1, <3>2, <3>3 DEF Under
    <2> QED BY <2>1, <2>2
<1> HIDE DEF a, i, z, left, right
<1>6. SubSeq(l, a, i - 1) \o <<l[i]>> \o SubSeq(l, i + 1, z) = SubSeq(l, a, z)
    BY <1>2, <1>3, JoinSeq
<1> QED BY <1>3, <1>4, <1>5, <1>6 DEF Under, a, z, left, right

LEMMA WalkIsList ==
    ASSUME NEW t, NEW len, NEW l \in Lists, Mirrors(t, len, l)
    PROVE  InOrder(t, Top(t)) = l
<1> DEFINE D == Range(l)
           M == Nodes \cup {Nil}
           U == [M -> Seq(Nodes)]
           none == [m \in M |-> <<>>]
           F == [w \in U |-> WalkStep(t, w)]
           Step(f, k) == IF k = 0 THEN none ELSE WalkStep(t, f[k - 1])
           Loop(f) == f = [k \in 0 .. Depth |-> Step(f, k)]
<1>1. PICK p : MirrorAt(t, len, l, p)
    BY DEF Mirrors
<1> DEFINE Good(k) == {w \in U : w[Nil] = <<>> /\ \A b \in D : Size(p, b) < k => w[b] = Under(l, p, b)}
<1>2. /\ Whole(t, D, p, 1, Len(l)) /\ Forest(t, D, p) /\ t \in Tree /\ D \subseteq Nodes
      /\ Nil \notin D /\ Top(t) \in D
    BY <1>1, HeldFacts DEF MirrorAt
<1>3. Depth \in Nat /\ Len(l) \in Nat /\ Len(l) <= Depth /\ l \in Seq(Nodes)
    BY DepthFacts, ListFacts
<1>4. ASSUME NEW w \in U
      PROVE  /\ WalkStep(t, w) \in U /\ WalkStep(t, w)[Nil] = <<>>
             /\ \A b \in D : WalkStep(t, w)[b] = w[Kid(t, "left", b)] \o <<b>> \o w[Kid(t, "right", b)]
    <2> DEFINE Joint(m) == w[Kid(t, "left", m)] \o <<m>> \o w[Kid(t, "right", m)]
               g == [m \in M |-> IF m = Nil THEN <<>> ELSE Joint(m)]
    <2>1. \A m \in Nodes : Kid(t, "left", m) \in M /\ Kid(t, "right", m) \in M
        BY <1>2, TreeType DEF Sides
    <2>2. \A m \in Nodes : Joint(m) \in Seq(Nodes)
        <3> SUFFICES ASSUME NEW m \in Nodes PROVE Joint(m) \in Seq(Nodes)
            OBVIOUS
        <3>1. w[Kid(t, "left", m)] \in Seq(Nodes) /\ w[Kid(t, "right", m)] \in Seq(Nodes)
            BY <2>1
        <3> QED BY <3>1
    <2>3. <<>> \in Seq(Nodes)
        OBVIOUS
    <2>4. WalkStep(t, w) = g
        BY DEF WalkStep, Kid
    <2> HIDE DEF Joint
    <2>5. g \in U
        BY <2>2, <2>3
    <2>6. g[Nil] = <<>> /\ \A b \in D : g[b] = Joint(b)
        BY <1>2
    <2> HIDE DEF g, U
    <2> QED BY <2>4, <2>5, <2>6 DEF Joint
<1>5. none \in U /\ none[Nil] = <<>>
    OBVIOUS
<1>6. \A w \in U : F[w] \in U /\ F[w] = WalkStep(t, w)
    BY <1>4
<1>7. \E f : Loop(f)
    <2>1. PICK f : Loops(f, Depth, none, F)
        <3> HIDE DEF F, none
        <3> QED BY <1>3, LoopsExist
    <2>2. \A k \in 0 .. Depth : f[k] \in U
        <3> HIDE DEF F, none, U
        <3> QED BY <1>3, <1>5, <1>6, <2>1, LoopStays
    <2>3. \A k \in 1 .. Depth : k - 1 \in 0 .. Depth
        BY <1>3
    <2>4. \A k \in 1 .. Depth : F[f[k - 1]] = WalkStep(t, f[k - 1])
        <3> HIDE DEF F, U
        <3> QED BY <1>6, <2>2, <2>3
    <2>5. f = [k \in 0 .. Depth |-> IF k = 0 THEN none ELSE F[f[k - 1]]]
        <3> HIDE DEF F, none
        <3> QED BY <2>1 DEF Loops
    <2>6. \A k \in 0 .. Depth : (IF k = 0 THEN none ELSE F[f[k - 1]]) = Step(f, k)
        <3> HIDE DEF F, none
        <3>1. \A k \in 0 .. Depth : k = 0 \/ k \in 1 .. Depth
            BY <1>3
        <3> QED BY <2>4, <3>1
    <2>7. f = [k \in 0 .. Depth |-> Step(f, k)]
        <3> HIDE DEF F, Step, none
        <3> QED BY <2>5, <2>6
    <2> QED BY <2>7
<1> DEFINE h == CHOOSE f : Loop(f)
<1>8. Loop(h)
    BY <1>7
<1>9. InOrder(t, Top(t)) = h[Depth][Top(t)]
    BY DEF InOrder
<1> HIDE DEF h
<1>10. h[0] = none /\ \A k \in 1 .. Depth : h[k] = WalkStep(t, h[k - 1])
    <2>1. \A k \in 0 .. Depth : h[k] = Step(h, k)
        <3> HIDE DEF Step
        <3> QED BY <1>8
    <2>2. 0 \in 0 .. Depth /\ \A k \in 1 .. Depth : k \in 0 .. Depth /\ k # 0
        BY <1>3
    <2> HIDE DEF none
    <2> QED BY <2>1, <2>2
<1>11. ASSUME NEW k \in 1 .. Depth, NEW w \in Good(k - 1)
       PROVE  WalkStep(t, w) \in Good(k)
    <2>1. w \in U /\ w[Nil] = <<>> /\ \A b \in D : Size(p, b) < k - 1 => w[b] = Under(l, p, b)
        OBVIOUS
    <2> HIDE DEF U
    <2>2. ASSUME NEW b \in D, Size(p, b) < k PROVE WalkStep(t, w)[b] = Under(l, p, b)
        <3>1. ASSUME NEW s \in Sides, Kid(t, s, b) # Nil
              PROVE  w[Kid(t, s, b)] = Under(l, p, Kid(t, s, b))
            <4>1. Kid(t, s, b) \in D /\ Size(p, Kid(t, s, b)) < Size(p, b)
                BY <1>2, <3>1, KidFacts DEF Size
            <4>2. Size(p, Kid(t, s, b)) \in Int /\ Size(p, b) \in Int
                BY <1>2, <4>1, ForestFacts DEF Size
            <4>3. Size(p, Kid(t, s, b)) < k - 1
                BY <2>2, <4>1, <4>2
            <4> QED BY <2>1, <4>1, <4>3
        <3>2. w[Kid(t, "left", b)] \o <<b>> \o w[Kid(t, "right", b)] = Under(l, p, b)
            <4>1. UnderBelow(t, l, p, w, b)
                BY <2>1, <3>1 DEF UnderBelow
            <4> QED BY <1>1, <4>1, UnderKids
        <3> QED BY <1>4, <2>1, <3>2
    <2>3. WalkStep(t, w) \in U /\ WalkStep(t, w)[Nil] = <<>>
        BY <1>4, <2>1
    <2> QED BY <2>2, <2>3
<1> DEFINE S == [k \in 0 .. Depth |-> Good(k)]
<1>12. h[Depth] \in S[Depth]
    <2>1. none \in Good(0)
        <3>1. \A b \in D : ~(Size(p, b) < 0)
            BY <1>2, ForestFacts DEF Size
        <3> HIDE DEF U, none
        <3> QED BY <1>5, <3>1
    <2> HIDE DEF Good, none
    <2>2. h[0] \in S[0]
        BY <1>3, <1>10, <2>1
    <2>3. ASSUME NEW k \in 1 .. Depth, h[k - 1] \in S[k - 1] PROVE h[k] \in S[k]
        <3>1. k - 1 \in 0 .. Depth /\ k \in 0 .. Depth
            BY <1>3
        <3>2. h[k - 1] \in Good(k - 1)
            BY <2>3, <3>1
        <3>3. WalkStep(t, h[k - 1]) \in Good(k)
            BY <1>11, <3>2
        <3> QED BY <1>10, <3>1, <3>3
    <2> HIDE DEF S
    <2> QED BY <1>3, <2>2, <2>3, LoopReaches
<1>13. h[Depth] \in Good(Depth)
    <2> HIDE DEF Good
    <2> QED BY <1>3, <1>12
<1>14. /\ Edge(p, "left", Top(t)) = 1 /\ Edge(p, "right", Top(t)) = Len(l)
       /\ Size(p, Top(t)) < Depth
    BY <1>2, <1>3 DEF Whole, Size
<1>15. h[Depth][Top(t)] = SubSeq(l, 1, Len(l))
    BY <1>2, <1>13, <1>14 DEF Under
<1>16. SubSeq(l, 1, Len(l)) = l
    BY <1>3, SubSeqFull
<1> QED BY <1>9, <1>15, <1>16

LEMMA MirrorsIndexIsList ==
    ASSUME list \in Lists, NEW len, Mirrors(index, len, list)
    PROVE  IndexIsList
<1> DEFINE D == Range(list)
<1>1. PICK p : MirrorAt(index, len, list, p)
    BY DEF Mirrors
<1>2. Whole(index, D, p, 1, Len(list)) /\ Forest(index, D, p)
    BY <1>1, HeldFacts DEF MirrorAt
<1>3. InOrder(index, Top(index)) = list
    BY WalkIsList
<1>4. Up(index, Top(index)) = Nil
    BY <1>2 DEF Whole
<1>5. ASSUME NEW b \in Nodes, NEW s \in Sides, Kid(index, s, b) # Nil
      PROVE  b \in D /\ Up(index, Kid(index, s, b)) = b
    <2>1. b \in D
        BY <1>5 DEF Mirrors, Loose
    <2> QED BY <1>2, <1>5, <2>1, KidFacts
<1>6. Blocks = D
    BY DEF Blocks, Range
<1> QED BY <1>3, <1>4, <1>5, <1>6 DEF IndexIsList, Top, Up, Kid

LEMMA MirrorsWeightsSummed ==
    ASSUME list \in Lists, Mirrors(index, lens, list)
    PROVE  WeightsSummed
<1> DEFINE D == Range(list)
<1>1. PICK p : MirrorAt(index, lens, list, p)
    BY DEF Mirrors
<1>2. /\ Whole(index, D, p, 1, Len(list))
      /\ SummedBut(index, lens, D, p, At(p, Top(index)))
    BY <1>1, HeldFacts DEF MirrorAt
<1>3. ASSUME NEW b \in D, b # Top(index) PROVE Sums(index, lens, b)
    BY <1>2, <1>3, TopAbove DEF SummedBut
<1>4. Blocks = D
    BY DEF Blocks, Range
<1> QED BY <1>3, <1>4 DEF WeightsSummed, Sums, Heavy, Kid, Top

\* The tree of the head alone.
LEMMA NewMirrors ==
    ASSUME NEW len, NEW b \in Nodes
    PROVE  <<b>> \in Lists /\ Range(<<b>>) = {b} /\ Mirrors(NewTree(b), len, <<b>>)
<1> DEFINE l == <<b>>
           t == NewTree(b)
           p == [at |-> [c \in {b} |-> 1], edge |-> [s \in Sides |-> [c \in {b} |-> 1]]]
<1>1. l \in Seq(Nodes) /\ Len(l) = 1 /\ l[1] = b /\ DOMAIN l = {1}
    OBVIOUS
<1>2. l \in Lists
    BY <1>1 DEF Lists
<1>3. Range(l) = {b}
    BY <1>1 DEF Range
<1> HIDE DEF l
<1>4. p \in Layouts({b}) /\ At(p, b) = 1 /\ \A s \in Sides : Edge(p, s, b) = 1
    BY DEF Layouts, At, Edge
<1> HIDE DEF p
<1>5. /\ t \in Tree /\ Top(t) = b
      /\ \A c \in Nodes : Up(t, c) = Nil /\ \A s \in Sides : Kid(t, s, c) = Nil
    BY DEF NewTree, Tree, Top, Up, Kid
<1> HIDE DEF t
<1>6. Forest(t, {b}, p)
    BY <1>4, <1>5 DEF Forest, Holds, Hangs, Sides
<1>7. Whole(t, {b}, p, 1, 1)
    BY <1>4, <1>5, <1>6 DEF Whole, Sides
<1>8. Held(t, len, {b}, p, 1, 1, At(p, Top(t)))
    BY <1>4, <1>5, <1>7 DEF Held, SummedBut, Holds, Sides
<1>9. MirrorAt(t, len, l, p)
    BY <1>1, <1>3, <1>4, <1>8 DEF MirrorAt, Places
<1>10. Loose(t, Range(l))
    BY <1>5 DEF Loose
<1>11. Mirrors(t, len, l)
    BY <1>9, <1>10 DEF Mirrors
<1> QED BY <1>2, <1>3, <1>11 DEF l, t

-----------------------------------------------------------------------------
(***************************************************************************)
(* The invariant                                                           *)
(***************************************************************************)

Shapes ==
    /\ kind \in {"text", "array"}
    /\ list \in Lists /\ list[1] = Head0
    /\ content \in [Nodes -> Nat]
    /\ removed \subseteq Range(list) \ {Head0}
    /\ made \subseteq 1 .. Contents
Lengths ==
    /\ content[Head0] = 0
    /\ \A b \in Range(list) \ {Head0} : 1 <= content[b] /\ (kind = "array" => content[b] = 1)
\* Blocks do not overlap, and each is a part of a content inserted before.
Spans ==
    /\ \A b, c \in Range(list) : b < c => b + content[b] <= c
    /\ \A b \in Range(list) \ {Head0} :
        \E k \in made : IdOf(k) <= b /\ b + content[b] <= IdOf(k) + Width
IInv == Shapes /\ Lengths /\ Spans /\ Mirrors(index, lens, list)

LEMMA IdFacts ==
    /\ Nodes \subseteq Nat /\ Head0 \in Nodes /\ Width \in Nat
    /\ \A k \in 1 .. Contents : /\ IdOf(k) \in Nodes /\ 1 <= IdOf(k)
                                /\ \A i \in 1 .. (Width - 1) : IdOf(k) + i \in Nodes
    /\ \A j, k \in 1 .. Contents : j < k => IdOf(j) + Width <= IdOf(k)
<1> USE ContentsAssumption, WidthAssumption, NodesAssumption
<1>1. Contents * Width \in Nat
    OBVIOUS
<1>2. Nodes \subseteq Nat /\ Head0 \in Nodes
    BY <1>1 DEF Head0
<1>3. ASSUME NEW j \in Nat, NEW k \in Nat, j <= k
      PROVE  j * Width <= k * Width /\ j * Width \in Nat
    <2>1. (k - j) \in Nat
        BY <1>3
    <2>2. (k - j) * Width \in Nat
        BY <2>1
    <2>3. k * Width = j * Width + (k - j) * Width
        BY <1>3
    <2>4. j * Width \in Nat
        OBVIOUS
    <2> QED BY <2>2, <2>3, <2>4
<1>4. ASSUME NEW k \in 1 .. Contents
      PROVE  /\ (k - 1) * Width \in Nat /\ k * Width = (k - 1) * Width + Width
             /\ k * Width <= Contents * Width
    <2>1. (k - 1) * Width \in Nat
        BY <1>3
    <2>2. k * Width = (k - 1) * Width + Width
        OBVIOUS
    <2> QED BY <1>3, <2>1, <2>2
<1>5. ASSUME NEW k \in 1 .. Contents
      PROVE  /\ IdOf(k) \in Nodes /\ 1 <= IdOf(k)
             /\ \A i \in 1 .. (Width - 1) : IdOf(k) + i \in Nodes
    <2> DEFINE a == (k - 1) * Width
               c == Contents * Width
    <2>1. a \in Nat /\ c \in Nat /\ a + Width <= c
        BY <1>1, <1>4
    <2>2. IdOf(k) = a + 1
        BY DEF IdOf
    <2>3. Nodes = 0 .. c
        OBVIOUS
    <2> HIDE DEF a, c
    <2> QED BY <2>1, <2>2, <2>3
<1>6. ASSUME NEW j \in 1 .. Contents, NEW k \in 1 .. Contents, j < k
      PROVE  IdOf(j) + Width <= IdOf(k)
    <2> DEFINE a == (j - 1) * Width
               c == (k - 1) * Width
    <2>1. j * Width <= c /\ j * Width = a + Width
        <3>1. j <= k - 1 /\ k - 1 \in Nat /\ j \in Nat
            BY <1>6
        <3> QED BY <1>3, <1>4, <3>1
    <2>2. IdOf(j) = a + 1 /\ IdOf(k) = c + 1
        BY DEF IdOf
    <2>3. a \in Nat /\ c \in Nat
        BY <1>4
    <2> HIDE DEF a, c
    <2> QED BY <2>1, <2>2, <2>3
<1> QED BY <1>2, <1>5, <1>6

LEMMA LensType ==
    ASSUME NEW c \in [Nodes -> Nat], NEW gone
    PROVE  Lens(c, gone) \in [Nodes -> Nat]
BY DEF Lens

LEMMA InitIInv == Init => IInv
<1> SUFFICES ASSUME Init PROVE IInv
    OBVIOUS
<1>1. /\ list = <<Head0>> /\ content = [b \in Nodes |-> 0] /\ removed = {} /\ made = {}
      /\ index = NewTree(Head0) /\ kind \in {"text", "array"}
    BY DEF Init
<1>2. Head0 \in Nodes
    BY IdFacts
<1>3. list \in Lists /\ Range(list) = {Head0} /\ Mirrors(index, lens, list)
    BY <1>1, <1>2, NewMirrors
<1>4. list[1] = Head0
    BY <1>1
<1>5. Shapes
    BY <1>1, <1>3, <1>4 DEF Shapes
<1>6. Lengths
    BY <1>1, <1>2, <1>3 DEF Lengths
<1>7. Spans
    BY <1>3 DEF Spans, Head0
<1> QED BY <1>3, <1>5, <1>6, <1>7 DEF IInv

LEMMA ShapesFacts ==
    ASSUME Shapes
    PROVE  /\ Blocks = Range(list) /\ list \in Lists /\ list[1] = Head0 /\ 1 \in 1 .. Len(list)
           /\ Range(list) \subseteq Nodes /\ Head0 \in Range(list)
           /\ content \in [Nodes -> Nat] /\ lens \in [Nodes -> Nat]
           /\ removed \subseteq Range(list) \ {Head0}
<1>1. list \in Lists /\ list[1] = Head0 /\ content \in [Nodes -> Nat]
    BY DEF Shapes
<1>2. Len(list) \in Nat \ {0} /\ Range(list) \subseteq Nodes /\ \A i \in 1 .. Len(list) : list[i] \in Range(list)
    BY <1>1, ListFacts
<1>3. 1 \in 1 .. Len(list)
    BY <1>2
<1>4. Head0 \in Range(list)
    BY <1>1, <1>2, <1>3
<1>5. lens \in [Nodes -> Nat]
    BY <1>1, LensType DEF lens
<1>6. Blocks = Range(list)
    BY DEF Blocks, Range
<1> QED BY <1>1, <1>2, <1>3, <1>4, <1>5, <1>6 DEF Shapes

\* A block that has another one beside it.
LEMMA NotAlone ==
    ASSUME NEW l \in Lists, NEW b \in Range(l), b # l[1]
    PROVE  Len(l) # 1
BY ListFacts

\* A new block enters the list.
LEMMA PlaceKeeps ==
    ASSUME IInv, NEW prev \in Range(list), NEW b \in Nodes, b \notin Range(list), NEW cs \in [Nodes -> Nat],
           Place(prev, b, cs), \A c \in Range(list) \ {prev} : cs[c] = content[c]
    PROVE  /\ list' \in Lists /\ list'[1] = Head0 /\ Range(list') = Range(list) \cup {b}
           /\ Mirrors(index, lens, list)'
<1>1. Shapes /\ Mirrors(index, lens, list)
    BY DEF IInv
<1>2. list \in Lists /\ list[1] = Head0 /\ Range(list) \subseteq Nodes /\ removed \subseteq Range(list)
    BY <1>1, ShapesFacts
<1>3. /\ list' = ListInsert(list, prev, b) /\ content' = cs /\ removed' = removed
      /\ index' = InsertAfter(index, Lens(cs, removed), prev, b)
    BY DEF Place
<1>4. lens' = Lens(cs, removed)
    BY <1>3 DEF lens
<1>5. /\ Inserted(list, list', PlaceOf(list, prev), b) /\ list' \in Lists
      /\ Range(list') = Range(list) \cup {b}
    BY <1>2, <1>3, ListInsertFacts
<1>6. list'[1] = Head0
    <2>1. PlaceOf(list, prev) \in 1 .. Len(list)
        BY <1>2, ListFacts
    <2>2. 1 \in 1 .. PlaceOf(list, prev)
        BY <2>1
    <2> QED BY <1>2, <1>5, <2>2 DEF Inserted
<1>7. \A c \in Range(list) \ {prev} : Lens(cs, removed)[c] = lens[c]
    BY <1>2 DEF Lens, lens
<1>8. Lens(cs, removed) \in [Nodes -> Nat]
    BY LensType
<1>9. Mirrors(index', Lens(cs, removed), list')
    BY <1>1, <1>2, <1>3, <1>7, <1>8, MirrorsInsert
<1> QED BY <1>4, <1>5, <1>6, <1>9

LEMMA InsertKeeps ==
    ASSUME IInv, NEW prev \in Blocks, NEW k \in 1 .. Contents, NEW n \in 1 .. Width, Insert(prev, k, n)
    PROVE  IInv'
<1> DEFINE b == IdOf(k)
           cs == [content EXCEPT ![b] = n]
           D == Range(list)
<1>1. /\ Blocks = D /\ list \in Lists /\ D \subseteq Nodes /\ Head0 \in D
      /\ content \in [Nodes -> Nat] /\ removed \subseteq D \ {Head0} /\ made \subseteq 1 .. Contents
      /\ kind \in {"text", "array"}
    BY ShapesFacts DEF IInv, Shapes
<1>2. /\ k \notin made /\ (kind = "array" => n = 1) /\ made' = made \cup {k}
      /\ Place(prev, b, cs)
      /\ content' = cs /\ kind' = kind /\ removed' = removed
    BY DEF Insert, Place
<1>3. /\ b \in Nodes /\ 1 <= b /\ b \in Nat /\ n \in Nat /\ 1 <= n /\ n <= Width /\ Width \in Nat
      /\ Nodes \subseteq Nat
    <2>1. b \in Nodes /\ 1 <= b /\ Nodes \subseteq Nat /\ Width \in Nat
        BY IdFacts
    <2>2. n \in Nat /\ 1 <= n /\ n <= Width
        BY <2>1
    <2> HIDE DEF b
    <2> QED BY <2>1, <2>2
<1>4. /\ \A j \in made : IdOf(j) \in Nat /\ (IdOf(j) + Width <= b \/ b + Width <= IdOf(j))
    <2> SUFFICES ASSUME NEW j \in made
                 PROVE  IdOf(j) \in Nat /\ (IdOf(j) + Width <= b \/ b + Width <= IdOf(j))
        OBVIOUS
    <2>1. j \in 1 .. Contents /\ (j < k \/ k < j)
        BY <1>1, <1>2
    <2> QED BY <2>1, IdFacts
<1> HIDE DEF b
<1>5. /\ content[Head0] = 0
      /\ \A c \in D \ {Head0} : 1 <= content[c] /\ (kind = "array" => content[c] = 1)
      /\ \A c, d \in D : c < d => c + content[c] <= d
      /\ \A c \in D \ {Head0} : \E j \in made : IdOf(j) <= c /\ c + content[c] <= IdOf(j) + Width
    BY DEF IInv, Lengths, Spans
<1>6. ASSUME NEW c \in D
      PROVE  /\ c \in Nat /\ content[c] \in Nat /\ c # b
             /\ c < b => c + content[c] <= b
             /\ b < c => b + n <= c
    <2>1. c \in Nat /\ content[c] \in Nat
        BY <1>1, <1>3
    <2>2. CASE c = Head0
        BY <1>3, <1>5, <2>2 DEF Head0
    <2>3. CASE c # Head0
        <3>1. PICK j \in made : IdOf(j) <= c /\ c + content[c] <= IdOf(j) + Width
            BY <1>5, <2>3
        <3>2. 1 <= content[c]
            BY <1>5, <2>3
        <3> QED BY <1>3, <1>4, <2>1, <3>1, <3>2
    <2> QED BY <2>1, <2>2, <2>3
<1>7. /\ cs \in [Nodes -> Nat] /\ cs[b] = n /\ b \notin D
      /\ \A c \in D : cs[c] = content[c]
    BY <1>1, <1>3, <1>6
<1> HIDE DEF cs
<1>8. /\ list' \in Lists /\ list'[1] = Head0 /\ Range(list') = D \cup {b}
      /\ Mirrors(index, lens, list)'
    BY <1>1, <1>2, <1>3, <1>7, PlaceKeeps
<1>9. Shapes'
    BY <1>1, <1>2, <1>7, <1>8 DEF Shapes
<1>10. Lengths'
    BY <1>1, <1>2, <1>3, <1>5, <1>7, <1>8 DEF Lengths
<1>11. Spans'
    <2>1. ASSUME NEW c \in D \cup {b}, NEW d \in D \cup {b}, c < d PROVE c + cs[c] <= d
        BY <1>3, <1>5, <1>6, <1>7, <2>1
    <2>2. ASSUME NEW c \in (D \cup {b}) \ {Head0}
          PROVE  \E j \in made \cup {k} : IdOf(j) <= c /\ c + cs[c] <= IdOf(j) + Width
        <3>1. CASE c = b
            BY <1>3, <1>7, <3>1 DEF b
        <3>2. CASE c \in D \ {Head0}
            BY <1>5, <1>7, <3>2
        <3> QED BY <3>1, <3>2
    <2> QED BY <1>2, <1>8, <2>1, <2>2 DEF Spans
<1> QED BY <1>8, <1>9, <1>10, <1>11 DEF IInv

LEMMA SplitKeeps ==
    ASSUME IInv, NEW b \in Blocks, NEW at \in 1 .. (Width - 1), Split(b, at)
    PROVE  IInv'
<1> DEFINE r == b + at
           cs == [content EXCEPT ![b] = at, ![r] = content[b] - at]
           D == Range(list)
<1>1. /\ Blocks = D /\ list \in Lists /\ D \subseteq Nodes /\ Head0 \in D
      /\ content \in [Nodes -> Nat] /\ removed \subseteq D \ {Head0} /\ made \subseteq 1 .. Contents
      /\ kind \in {"text", "array"}
    BY ShapesFacts DEF IInv, Shapes
<1>2. /\ kind = "text" /\ at < content[b] /\ made' = made /\ Place(b, r, cs)
      /\ content' = cs /\ kind' = kind /\ removed' = removed
    BY DEF Split, Place
<1>3. at \in Nat /\ 1 <= at /\ b \in D /\ Width \in Nat /\ Nodes \subseteq Nat
    <2>1. Nodes \subseteq Nat /\ Width \in Nat
        BY IdFacts
    <2> QED BY <1>1, <2>1
<1>5. /\ content[Head0] = 0
      /\ \A c \in D \ {Head0} : 1 <= content[c] /\ (kind = "array" => content[c] = 1)
      /\ \A c, d \in D : c < d => c + content[c] <= d
      /\ \A c \in D \ {Head0} : \E j \in made : IdOf(j) <= c /\ c + content[c] <= IdOf(j) + Width
    BY DEF IInv, Lengths, Spans
<1>6. \A c \in D : c \in Nat /\ content[c] \in Nat
    BY <1>1, <1>3
<1>7. b # Head0
    BY <1>2, <1>3, <1>5
<1>8. PICK j \in made : IdOf(j) <= b /\ b + content[b] <= IdOf(j) + Width
    BY <1>3, <1>5, <1>7
<1>9. IdOf(j) \in Nodes /\ r \in Nodes
    <2>1. j \in 1 .. Contents
        BY <1>1
    <2>2. /\ IdOf(j) \in Nodes /\ 1 <= IdOf(j)
          /\ \A i \in 1 .. (Width - 1) : IdOf(j) + i \in Nodes
        BY <2>1, IdFacts
    <2>3. r - IdOf(j) \in 1 .. (Width - 1) /\ IdOf(j) + (r - IdOf(j)) = r
        <3> DEFINE x == IdOf(j)
                   y == content[b]
        <3>1. x \in Nat /\ y \in Nat /\ b \in Nat
            BY <1>3, <1>6, <2>2
        <3>2. x <= b /\ b + y <= x + Width /\ at < y
            BY <1>2, <1>8
        <3>3. at \in Nat /\ 1 <= at /\ Width \in Nat
            BY <1>3
        <3> HIDE DEF x, y
        <3>4. (b + at) - x \in 1 .. (Width - 1) /\ x + ((b + at) - x) = b + at
            BY <3>1, <3>2, <3>3
        <3> QED BY <3>4 DEF x
    <2>4. IdOf(j) + (r - IdOf(j)) \in Nodes
        BY <2>2, <2>3
    <2> QED BY <2>2, <2>3, <2>4
<1>10. r \notin D /\ r \in Nat /\ b < r
    BY <1>2, <1>3, <1>5, <1>6
<1> DEFINE one == [content EXCEPT ![b] = at]
<1>11. /\ cs \in [Nodes -> Nat] /\ cs[b] = at /\ cs[r] = content[b] - at
       /\ \A c \in D \ {b} : cs[c] = content[c]
    <2>1. content[b] - at \in Nat
        BY <1>2, <1>3, <1>6
    <2>2. one \in [Nodes -> Nat] /\ \A c \in Nodes : one[c] = IF c = b THEN at ELSE content[c]
        BY <1>1, <1>3
    <2>3. cs = [one EXCEPT ![r] = content[b] - at]
        BY <1>1
    <2> HIDE DEF one, r
    <2> QED BY <1>1, <1>3, <1>9, <1>10, <2>1, <2>2, <2>3
<1> HIDE DEF cs
<1>12. /\ list' \in Lists /\ list'[1] = Head0 /\ Range(list') = D \cup {r}
       /\ Mirrors(index, lens, list)'
    <2> HIDE DEF r
    <2> QED BY <1>1, <1>2, <1>3, <1>9, <1>10, <1>11, PlaceKeeps
<1>13. Shapes'
    BY <1>1, <1>2, <1>11, <1>12 DEF Shapes
<1>14. Lengths'
    <2>1. cs[Head0] = 0
        BY <1>1, <1>5, <1>7, <1>11
    <2>2. ASSUME NEW c \in (D \cup {r}) \ {Head0} PROVE 1 <= cs[c]
        <3>1. CASE c = b
            BY <1>3, <1>11, <3>1
        <3>2. CASE c = r
            BY <1>2, <1>3, <1>6, <1>11, <3>2
        <3>3. CASE c \in D \ {Head0, b}
            BY <1>5, <1>11, <3>3
        <3> QED BY <3>1, <3>2, <3>3
    <2> QED BY <1>2, <1>12, <2>1, <2>2 DEF Lengths
<1>15. Spans'
    <2> HIDE DEF r
    <2>0. r = b + at
        BY DEF r
    <2>1. ASSUME NEW c \in D \cup {r}, NEW d \in D \cup {r}, c < d PROVE c + cs[c] <= d
        <3>1. ASSUME c = b PROVE c + cs[c] <= d
            <4>1. CASE d = r
                BY <1>3, <1>6, <1>11, <2>0, <3>1, <4>1
            <4>2. CASE d \in D
                <5>1. b + content[b] <= d /\ d \in Nat
                    BY <1>3, <1>5, <1>6, <2>1, <3>1, <4>2
                <5> QED BY <1>2, <1>3, <1>6, <1>11, <3>1, <5>1
            <4> QED BY <4>1, <4>2
        <3>2. ASSUME c = r PROVE c + cs[c] <= d
            <4>1. d \in D /\ d \in Nat /\ b < d
                BY <1>3, <1>6, <1>10, <2>1, <3>2
            <4>2. b + content[b] <= d
                BY <1>3, <1>5, <4>1
            <4> QED BY <1>2, <1>3, <1>6, <1>11, <2>0, <3>2, <4>1, <4>2
        <3>3. ASSUME c \in D \ {b} PROVE c + cs[c] <= d
            <4>1. CASE d \in D
                BY <1>5, <1>11, <2>1, <3>3, <4>1
            <4>2. CASE d = r
                <5>1. c < b
                    <6>1. ~(b < c)
                        <7>1. b < c => b + content[b] <= c
                            BY <1>3, <1>5, <3>3
                        <7> QED BY <1>2, <1>3, <1>6, <2>0, <2>1, <3>3, <4>2, <7>1
                    <6> QED BY <1>3, <1>6, <3>3, <6>1
                <5>2. c + content[c] <= b
                    BY <1>3, <1>5, <3>3, <5>1
                <5> QED BY <1>3, <1>6, <1>10, <1>11, <3>3, <4>2, <5>2
            <4> QED BY <4>1, <4>2
        <3> QED BY <3>1, <3>2, <3>3
    <2>2. ASSUME NEW c \in (D \cup {r}) \ {Head0}
          PROVE  \E i \in made : IdOf(i) <= c /\ c + cs[c] <= IdOf(i) + Width
        <3>0. IdOf(j) \in Nat
            BY <1>3, <1>9
        <3>1. CASE c = b
            BY <1>2, <1>3, <1>6, <1>8, <1>11, <3>0, <3>1
        <3>2. CASE c = r
            BY <1>2, <1>3, <1>6, <1>8, <1>11, <2>0, <3>0, <3>2
        <3>3. CASE c \in D \ {Head0, b}
            BY <1>5, <1>11, <3>3
        <3> QED BY <3>1, <3>2, <3>3
    <2> QED BY <1>2, <1>12, <2>1, <2>2 DEF Spans
<1> QED BY <1>12, <1>13, <1>14, <1>15 DEF IInv

LEMMA RemoveKeeps ==
    ASSUME IInv, NEW b \in Blocks, Remove(b)
    PROVE  IInv'
<1> DEFINE now == Lens(content, removed')
<1>1. /\ Blocks = Range(list) /\ list \in Lists /\ Range(list) \subseteq Nodes
      /\ content \in [Nodes -> Nat] /\ removed \subseteq Range(list) \ {Head0}
      /\ Shapes /\ Lengths /\ Spans /\ Mirrors(index, lens, list)
    BY ShapesFacts DEF IInv
<1>2. /\ b # Head0 /\ removed' = removed \cup {b} /\ index' = Splay(index, now, b)
      /\ kind' = kind /\ list' = list /\ content' = content /\ made' = made
    BY DEF Remove
<1>3. Shapes' /\ Lengths' /\ Spans'
    BY <1>1, <1>2 DEF Shapes, Lengths, Spans
<1>4. \A c \in Range(list) \ {b} : now[c] = lens[c]
    BY <1>1, <1>2 DEF Lens, lens
<1>5. now \in [Nodes -> Nat]
    BY <1>1, LensType
<1>6. lens' = now
    BY <1>2 DEF lens
<1> HIDE DEF now
<1>7. Mirrors(Splay(index, now, b), now, list)
    BY <1>1, <1>4, <1>5, MirrorsSplay
<1> QED BY <1>2, <1>3, <1>6, <1>7 DEF IInv

LEMMA PurgeKeeps ==
    ASSUME IInv, NEW b \in Blocks, Purge(b)
    PROVE  IInv'
<1> DEFINE D == Range(list)
<1>1. /\ Blocks = D /\ list \in Lists /\ D \subseteq Nodes /\ list[1] = Head0 /\ Head0 \in D
      /\ content \in [Nodes -> Nat] /\ lens \in [Nodes -> Nat] /\ removed \subseteq D \ {Head0}
      /\ Shapes /\ Lengths /\ Spans /\ Mirrors(index, lens, list)
    BY ShapesFacts DEF IInv
<1>2. /\ b \in removed /\ list' = ListRemove(list, b) /\ index' = Delete(index, lens, b)
      /\ removed' = removed \ {b} /\ content' = [content EXCEPT ![b] = 0]
      /\ kind' = kind /\ made' = made
    BY DEF Purge, lens
<1>3. b \in D /\ b # Head0 /\ Len(list) # 1
    BY <1>1, <1>2, NotAlone
<1>4. /\ Inserted(list', list, PlaceOf(list, b) - 1, b)
      /\ list' \in Lists /\ Range(list') = D \ {b}
    BY <1>1, <1>2, <1>3, ListRemoveFacts
<1>5. list'[1] = Head0
    <2>1. PlaceOf(list, b) \in 1 .. Len(list) /\ list[PlaceOf(list, b)] = b
        BY <1>1, <1>3, ListFacts
    <2>2. 1 \in 1 .. (PlaceOf(list, b) - 1)
        BY <1>1, <1>3, <2>1
    <2> QED BY <1>1, <1>4, <2>2 DEF Inserted
<1>6. content' \in [Nodes -> Nat] /\ \A c \in D \ {b} : content'[c] = content[c]
    BY <1>1, <1>2
<1>7. Shapes'
    BY <1>1, <1>2, <1>4, <1>5, <1>6 DEF Shapes
<1>8. Lengths'
    BY <1>1, <1>2, <1>3, <1>4, <1>6 DEF Lengths
<1>9. Spans'
    BY <1>1, <1>2, <1>4, <1>6 DEF Spans
<1>10. Mirrors(index', lens, list')
    BY <1>1, <1>2, <1>3, MirrorsDelete
<1>11. \A c \in D \ {b} : lens'[c] = lens[c]
    BY <1>1, <1>2, <1>6 DEF lens, Lens
<1>12. Mirrors(index', lens', list')
    BY <1>4, <1>10, <1>11, MirrorsSame
<1> QED BY <1>7, <1>8, <1>9, <1>12 DEF IInv

LEMMA MoveAfterKeeps ==
    ASSUME IInv, NEW prev \in Blocks, NEW b \in Blocks, MoveAfter(prev, b)
    PROVE  IInv'
<1> DEFINE D == Range(list)
           rest == ListRemove(list, b)
<1>1. /\ Blocks = D /\ list \in Lists /\ D \subseteq Nodes /\ list[1] = Head0 /\ Head0 \in D
      /\ content \in [Nodes -> Nat] /\ lens \in [Nodes -> Nat] /\ removed \subseteq D \ {Head0}
      /\ Shapes /\ Lengths /\ Spans /\ Mirrors(index, lens, list)
    BY ShapesFacts DEF IInv
<1>2. /\ b # Head0 /\ b # prev /\ list' = ListInsert(rest, prev, b)
      /\ index' = InsertAfter(Delete(index, lens, b), lens, prev, b)
      /\ kind' = kind /\ content' = content /\ removed' = removed /\ made' = made
    BY DEF MoveAfter, lens
<1>3. b \in D /\ prev \in D /\ Len(list) # 1
    BY <1>1, <1>2, NotAlone
<1>4. /\ Inserted(rest, list, PlaceOf(list, b) - 1, b)
      /\ rest \in Lists /\ Range(rest) = D \ {b}
    BY <1>1, <1>3, ListRemoveFacts
<1>5. Mirrors(Delete(index, lens, b), lens, rest)
    BY <1>1, <1>3, MirrorsDelete
<1> HIDE DEF rest
<1>6. /\ Inserted(rest, list', PlaceOf(rest, prev), b) /\ list' \in Lists /\ Range(list') = D
    <2>1. /\ Inserted(rest, list', PlaceOf(rest, prev), b) /\ list' \in Lists
          /\ Range(list') = Range(rest) \cup {b}
        BY <1>1, <1>2, <1>3, <1>4, ListInsertFacts
    <2> QED BY <1>3, <1>4, <2>1
<1>7. list'[1] = Head0
    <2>1. PlaceOf(list, b) \in 1 .. Len(list) /\ list[PlaceOf(list, b)] = b
        BY <1>1, <1>3, ListFacts
    <2>2. 1 \in 1 .. (PlaceOf(list, b) - 1)
        BY <1>1, <1>2, <2>1
    <2>3. rest[1] = Head0
        BY <1>1, <1>4, <2>2 DEF Inserted
    <2>4. 1 \in 1 .. PlaceOf(rest, prev)
        <3>1. PlaceOf(rest, prev) \in 1 .. Len(rest)
            BY <1>2, <1>3, <1>4, ListFacts
        <3> QED BY <3>1
    <2> QED BY <1>6, <2>3, <2>4 DEF Inserted
<1>8. Shapes' /\ Lengths' /\ Spans'
    BY <1>1, <1>2, <1>6, <1>7 DEF Shapes, Lengths, Spans
<1>9. Mirrors(index', lens, list')
    <2>1. prev \in Range(rest) /\ b \in Nodes /\ b \notin Range(rest)
        BY <1>1, <1>2, <1>3, <1>4
    <2>2. \A c \in Range(rest) \ {prev} : lens[c] = lens[c]
        OBVIOUS
    <2> QED BY <1>1, <1>2, <1>4, <1>5, <2>1, <2>2, MirrorsInsert
<1>10. lens' = lens
    BY <1>2 DEF lens
<1> QED BY <1>8, <1>9, <1>10 DEF IInv

\* No operation breaks the invariant, nor does a step in which none happens.
LEMMA NextIInv == IInv /\ [Next]_vars => IInv'
<1> SUFFICES ASSUME IInv, [Next]_vars PROVE IInv'
    OBVIOUS
<1>1. CASE \E prev \in Blocks, k \in 1 .. Contents, len \in 1 .. Width : Insert(prev, k, len)
    BY <1>1, InsertKeeps
<1>2. CASE \E b \in Blocks, at \in 1 .. (Width - 1) : Split(b, at)
    BY <1>2, SplitKeeps
<1>3. CASE \E b \in Blocks : Remove(b)
    BY <1>3, RemoveKeeps
<1>4. CASE \E b \in Blocks : Purge(b)
    BY <1>4, PurgeKeeps
<1>5. CASE \E prev, b \in Blocks : MoveAfter(prev, b)
    BY <1>5, MoveAfterKeeps
<1>6. CASE UNCHANGED vars
    <2>1. /\ kind' = kind /\ list' = list /\ content' = content /\ removed' = removed
          /\ made' = made /\ index' = index
        BY <1>6 DEF vars
    <2>2. lens' = lens
        BY <2>1 DEF lens
    <2> QED BY <2>1, <2>2 DEF IInv, Shapes, Lengths, Spans
<1> QED BY <1>1, <1>2, <1>3, <1>4, <1>5, <1>6 DEF Next

LEMMA InvariantHolds == Spec => []IInv
BY InitIInv, NextIInv, PTL DEF Spec

\* The splay tree of a text or an array holds the blocks of its linked list, in
\* their order and linked in both directions, after any sequence of InsertAfter,
\* splitNode, deleteNodes, purge and MoveAfter.
THEOREM TreeHoldsList == Spec => []IndexIsList
<1>1. IInv => IndexIsList
    BY MirrorsIndexIsList DEF IInv, Shapes
<1> QED BY <1>1, InvariantHolds, PTL

\* The weights that splay.Tree repairs along its rotations are those that summing
\* up the lengths anew would give, but for the weight of the root, which Find does
\* not read: deleteNodes and splitNode change lengths anywhere in the tree.
THEOREM TreeKeepsWeights == Spec => []WeightsSummed
<1>1. IInv => WeightsSummed
    BY MirrorsWeightsSummed DEF IInv, Shapes
<1> QED BY <1>1, InvariantHolds, PTL


-----------------------------------------------------------------------------
(***************************************************************************)
(* The length of the first blocks                                          *)
(***************************************************************************)

\* The loop of LengthUpTo.
Adds(g, l, len, n) == g = [j \in 0 .. n |-> IF j = 0 THEN 0 ELSE g[j - 1] + len[l[j]]]

LEMMA AddsFacts ==
    ASSUME NEW n \in Nat, NEW l, NEW len, NEW g, Adds(g, l, len, n)
    PROVE  g[0] = 0 /\ \A j \in 1 .. n : g[j] = g[j - 1] + len[l[j]]
<1>1. \A j \in 0 .. n : g[j] = IF j = 0 THEN 0 ELSE g[j - 1] + len[l[j]]
    BY DEF Adds
<1> QED BY <1>1

LEMMA AddsExist ==
    ASSUME NEW n \in Nat, NEW l, NEW len
    PROVE  \E g : Adds(g, l, len, n)
<1> DEFINE T == {m \in Nat : \E g : Adds(g, l, len, m)}
<1>1. 0 \in T
    <2> DEFINE g == [k \in 0 .. 0 |-> 0]
    <2>1. Adds(g, l, len, 0)
        BY DEF Adds
    <2> QED BY <2>1
<1>2. ASSUME NEW m \in 1 .. n, m - 1 \in T
      PROVE  m \in T
    <2>1. PICK f : Adds(f, l, len, m - 1)
        BY <1>2
    <2> DEFINE Step(x, k) == IF k = 0 THEN 0 ELSE x[k - 1] + len[l[k]]
               g == [k \in 0 .. m |-> Step(f, k)]
    <2>2. \A k \in 0 .. (m - 1) : f[k] = Step(f, k) /\ g[k] = Step(f, k)
        <3>1. f = [k \in 0 .. (m - 1) |-> Step(f, k)]
            BY <2>1 DEF Adds
        <3> HIDE DEF Step
        <3> QED BY <1>2, <3>1
    <2>3. \A k \in 0 .. m : k # 0 => k - 1 \in 0 .. (m - 1)
        BY <1>2
    <2>4. \A k \in 0 .. m : Step(g, k) = Step(f, k)
        <3> HIDE DEF g
        <3> QED BY <2>2, <2>3
    <2>5. g = [k \in 0 .. m |-> Step(g, k)]
        <3> HIDE DEF Step
        <3> QED BY <2>4
    <2>6. Adds(g, l, len, m)
        <3> HIDE DEF g
        <3> QED BY <2>5 DEF Adds
    <2>7. m \in Nat
        BY <1>2
    <2> QED BY <2>6, <2>7
<1> HIDE DEF T
<1>3. \A i \in 0 .. n : i \in T
    BY <1>1, <1>2, BoundedInduction
<1>4. n \in T
    BY <1>3
<1> QED BY <1>4 DEF T

LEMMA LengthFacts ==
    ASSUME NEW l \in Lists, NEW len \in [Nodes -> Nat]
    PROVE  /\ LengthUpTo(l, len, 0) = 0
           /\ \A i \in 0 .. Len(l) : LengthUpTo(l, len, i) \in Nat
           /\ \A i \in 1 .. Len(l) : /\ LengthUpTo(l, len, i) = LengthUpTo(l, len, i - 1) + len[l[i]]
                                     /\ len[l[i]] \in Nat
<1>1. Len(l) \in Nat /\ \A i \in 1 .. Len(l) : l[i] \in Nodes
    BY ListFacts
<1>2. PICK g : Adds(g, l, len, Len(l))
    BY <1>1, AddsExist
<1>3. g[0] = 0 /\ \A j \in 1 .. Len(l) : g[j] = g[j - 1] + len[l[j]]
    BY <1>1, <1>2, AddsFacts
<1>4. ASSUME NEW i \in 0 .. Len(l)
      PROVE  LengthUpTo(l, len, i) = g[i]
    <2> DEFINE h == CHOOSE f : Adds(f, l, len, i)
               T == {j \in 0 .. i : h[j] = g[j]}
    <2>1. i \in Nat
        BY <1>1
    <2>2. Adds(h, l, len, i)
        BY <2>1, AddsExist
    <2>3. LengthUpTo(l, len, i) = h[i]
        BY DEF LengthUpTo, Adds
    <2> HIDE DEF h
    <2>4. h[0] = 0 /\ \A j \in 1 .. i : h[j] = h[j - 1] + len[l[j]]
        BY <2>1, <2>2, AddsFacts
    <2>5. 0 \in T
        BY <1>3, <2>1, <2>4
    <2>6. ASSUME NEW j \in 1 .. i, j - 1 \in T PROVE j \in T
        <3>1. j \in 1 .. Len(l) /\ j \in 0 .. i
            BY <1>1, <2>1
        <3> QED BY <1>3, <2>4, <2>6, <3>1
    <2> HIDE DEF T
    <2>7. \A j \in 0 .. i : j \in T
        BY <2>1, <2>5, <2>6, BoundedInduction
    <2>8. i \in T
        BY <2>1, <2>7
    <2> QED BY <2>3, <2>8 DEF T
<1>5. \A i \in 0 .. Len(l) : g[i] \in Nat
    <2> DEFINE T == {j \in 0 .. Len(l) : g[j] \in Nat}
    <2>1. 0 \in T
        BY <1>1, <1>3
    <2>2. ASSUME NEW j \in 1 .. Len(l), j - 1 \in T PROVE j \in T
        BY <1>1, <1>3, <2>2
    <2> HIDE DEF T
    <2>3. \A j \in 0 .. Len(l) : j \in T
        BY <1>1, <2>1, <2>2, BoundedInduction
    <2> QED BY <2>3 DEF T
<1>6. \A i \in 1 .. Len(l) : i \in 0 .. Len(l) /\ i - 1 \in 0 .. Len(l)
    BY <1>1
<1>7. 0 \in 0 .. Len(l)
    BY <1>1
<1> QED BY <1>1, <1>3, <1>4, <1>5, <1>6, <1>7

LEMMA LengthGrows ==
    ASSUME NEW l \in Lists, NEW len \in [Nodes -> Nat], NEW i \in 0 .. Len(l), NEW j \in 0 .. Len(l), i <= j
    PROVE  LengthUpTo(l, len, i) <= LengthUpTo(l, len, j)
<1> DEFINE L(k) == LengthUpTo(l, len, k)
           n == Len(l) - i
           T == {k \in 0 .. n : L(i) <= L(i + k)}
<1>1. Len(l) \in Nat /\ n \in Nat
    <2>1. Len(l) \in Nat
        BY ListFacts
    <2> QED BY <2>1
<1>2. /\ \A k \in 0 .. Len(l) : L(k) \in Nat
      /\ \A k \in 1 .. Len(l) : L(k) = L(k - 1) + len[l[k]] /\ len[l[k]] \in Nat
    BY LengthFacts
<1> HIDE DEF L
<1>3. 0 \in T
    BY <1>1, <1>2
<1>4. ASSUME NEW k \in 1 .. n, k - 1 \in T PROVE k \in T
    <2>1. i + k \in 1 .. Len(l) /\ i + (k - 1) = (i + k) - 1 /\ k \in 0 .. n
        BY <1>1
    <2>2. i + k - 1 \in 0 .. Len(l) /\ i + k \in 0 .. Len(l)
        BY <1>1
    <2>3. L(i) <= L(i + (k - 1))
        BY <1>4
    <2>4. L(i + k) = L((i + k) - 1) + len[l[i + k]] /\ len[l[i + k]] \in Nat
        BY <1>2, <2>1
    <2>5. L(i) \in Nat /\ L((i + k) - 1) \in Nat
        BY <1>2, <2>2
    <2> QED BY <2>1, <2>3, <2>4, <2>5
<1> HIDE DEF T, n
<1>5. \A k \in 0 .. n : k \in T
    BY <1>1, <1>3, <1>4, BoundedInduction
<1>6. j - i \in 0 .. n /\ i + (j - i) = j
    BY <1>1 DEF n
<1>7. j - i \in T
    BY <1>5, <1>6
<1> QED BY <1>6, <1>7 DEF T, L

-----------------------------------------------------------------------------
(***************************************************************************)
(* Find                                                                    *)
(***************************************************************************)

\* The length of the blocks from one place to another.
Stretch(l, len, a, z) == LengthUpTo(l, len, z) - LengthUpTo(l, len, a - 1)

\* The weight of a node is the length of the blocks under it.
HeavyAs(t, l, len, p, b) == Heavy(t, b) = Stretch(l, len, Edge(p, "left", b), Edge(p, "right", b))
KidsHeavy(t, l, len, p, b) == \A s \in Sides : Kid(t, s, b) # Nil => HeavyAs(t, l, len, p, Kid(t, s, b))

LEMMA KidWeights ==
    ASSUME NEW t, NEW len \in [Nodes -> Nat], NEW l \in Lists, NEW p, MirrorAt(t, len, l, p),
           NEW b \in Range(l), KidsHeavy(t, l, len, p, b)
    PROVE  /\ Weight(t, Kid(t, "left", b)) = Stretch(l, len, Edge(p, "left", b), At(p, b) - 1)
           /\ Weight(t, Kid(t, "right", b)) = Stretch(l, len, At(p, b) + 1, Edge(p, "right", b))
<1> DEFINE D == Range(l)
           a == Edge(p, "left", b)
           i == At(p, b)
           z == Edge(p, "right", b)
           L(k) == LengthUpTo(l, len, k)
           left == Kid(t, "left", b)
           right == Kid(t, "right", b)
<1>1. Whole(t, D, p, 1, Len(l)) /\ Forest(t, D, p)
    BY HeldFacts DEF MirrorAt
<1>2. a \in Int /\ i \in Int /\ z \in Int /\ 1 <= a /\ a <= i /\ i <= z /\ z <= Len(l)
    BY <1>1, ForestFacts DEF Whole
<1>3. Len(l) \in Nat /\ \A k \in 0 .. Len(l) : L(k) \in Nat
    BY ListFacts, LengthFacts
<1>4. a - 1 \in 0 .. Len(l) /\ i \in 0 .. Len(l) /\ i - 1 \in 0 .. Len(l) /\ z \in 0 .. Len(l)
    BY <1>2, <1>3
<1> HIDE DEF L
<1>5. Weight(t, left) = L(i - 1) - L(a - 1)
    <2>1. CASE left = Nil
        <3>1. a = i
            BY <1>1, <2>1, NilKid DEF Sides
        <3> HIDE DEF a, i
        <3>2. L(i - 1) - L(a - 1) = 0
            BY <1>3, <1>4, <3>1
        <3> QED BY <2>1, <3>2 DEF Weight
    <2>2. CASE left # Nil
        <3>1. /\ Edge(p, "left", left) = a
              /\ Edge(p, Other("left"), left) = i + Toward("left")
            BY <1>1, <2>2, KidFacts DEF Sides
        <3> HIDE DEF a, i
        <3>2. Edge(p, "right", left) = i - 1
            BY <1>2, <3>1 DEF Other, Toward
        <3>3. Heavy(t, left) = Stretch(l, len, Edge(p, "left", left), Edge(p, "right", left))
            BY <2>2 DEF Sides, KidsHeavy, HeavyAs
        <3> QED BY <2>2, <3>1, <3>2, <3>3 DEF Stretch, Weight, Heavy, L
    <2> QED BY <2>1, <2>2
<1>6. Weight(t, right) = L(z) - L(i)
    <2>1. CASE right = Nil
        <3>1. z = i
            BY <1>1, <2>1, NilKid DEF Sides
        <3> HIDE DEF z, i
        <3>2. L(z) - L(i) = 0
            BY <1>3, <1>4, <3>1
        <3> QED BY <2>1, <3>2 DEF Weight
    <2>2. CASE right # Nil
        <3>1. /\ Edge(p, "right", right) = z
              /\ Edge(p, Other("right"), right) = i + Toward("right")
            BY <1>1, <2>2, KidFacts DEF Sides
        <3> HIDE DEF z, i
        <3>2. Edge(p, "left", right) = i + 1 /\ (i + 1) - 1 = i
            BY <1>2, <3>1 DEF Other, Toward
        <3>3. Heavy(t, right) = Stretch(l, len, Edge(p, "left", right), Edge(p, "right", right))
            BY <2>2 DEF Sides, KidsHeavy, HeavyAs
        <3> QED BY <2>2, <3>1, <3>2, <3>3 DEF Stretch, Weight, Heavy, L
    <2> QED BY <2>1, <2>2
<1>7. (i + 1) - 1 = i
    BY <1>2
<1> HIDE DEF a, i, z
<1> QED BY <1>5, <1>6, <1>7 DEF Stretch, L, a, i, z

\* The weights of the nodes below the top.
LEMMA WeightsAre ==
    ASSUME NEW t, NEW len \in [Nodes -> Nat], NEW l \in Lists, NEW p, MirrorAt(t, len, l, p),
           NEW b \in Range(l), b # Top(t)
    PROVE  HeavyAs(t, l, len, p, b)
<1> DEFINE D == Range(l)
           C == {c \in D \ {Top(t)} : ~HeavyAs(t, l, len, p, c)}
<1>1. /\ Whole(t, D, p, 1, Len(l)) /\ Forest(t, D, p) /\ SummedBut(t, len, D, p, At(p, Top(t)))
      /\ Top(t) \in D
    BY HeldFacts DEF MirrorAt
<1> SUFFICES ASSUME C # {} PROVE FALSE
    OBVIOUS
<1>2. C \subseteq D
    OBVIOUS
<1>3. PICK c \in C : \A d \in C : Edge(p, "right", c) - Edge(p, "left", c)
                                      <= Edge(p, "right", d) - Edge(p, "left", d)
    <2> HIDE DEF C, D
    <2> QED BY <1>1, <1>2, Lowest
<1>4. c \in D /\ c # Top(t) /\ ~HeavyAs(t, l, len, p, c)
    OBVIOUS
<1>5. ASSUME NEW s \in Sides, Kid(t, s, c) # Nil PROVE HeavyAs(t, l, len, p, Kid(t, s, c))
    <2> DEFINE k == Kid(t, s, c)
    <2>1. /\ k \in D /\ Up(t, k) = c
          /\ Edge(p, "right", k) - Edge(p, "left", k) < Edge(p, "right", c) - Edge(p, "left", c)
        BY <1>1, <1>4, <1>5, KidFacts
    <2>2. k # Top(t)
        <3>1. Up(t, Top(t)) = Nil /\ Nil \notin D
            BY <1>1, ForestFacts, NilFacts DEF Whole
        <3> QED BY <1>4, <2>1, <3>1
    <2> HIDE DEF k
    <2>3. k \notin C
        <3>1. /\ Edge(p, "right", k) \in Int /\ Edge(p, "left", k) \in Int
              /\ Edge(p, "right", c) \in Int /\ Edge(p, "left", c) \in Int
            BY <1>1, <1>4, <2>1, ForestFacts
        <3> HIDE DEF C
        <3> QED BY <1>3, <2>1, <3>1
    <2>4. HeavyAs(t, l, len, p, k)
        BY <2>1, <2>2, <2>3
    <2> QED BY <2>4 DEF k
<1>6. /\ Weight(t, Kid(t, "left", c)) = Stretch(l, len, Edge(p, "left", c), At(p, c) - 1)
      /\ Weight(t, Kid(t, "right", c)) = Stretch(l, len, At(p, c) + 1, Edge(p, "right", c))
    <2>1. KidsHeavy(t, l, len, p, c)
        BY <1>5 DEF KidsHeavy
    <2> QED BY <1>4, <2>1, KidWeights
<1>7. Heavy(t, c) = len[c] + Weight(t, Kid(t, "left", c)) + Weight(t, Kid(t, "right", c))
    BY <1>1, <1>4, TopAbove DEF SummedBut, Sums
<1> DEFINE a == Edge(p, "left", c)
           i == At(p, c)
           z == Edge(p, "right", c)
           L(k) == LengthUpTo(l, len, k)
<1>8. a \in Int /\ i \in Int /\ z \in Int /\ 1 <= a /\ a <= i /\ i <= z /\ z <= Len(l)
    BY <1>1, <1>4, ForestFacts DEF Whole
<1>9. Len(l) \in Nat /\ l[i] = c
    BY <1>4, ListFacts, PlacesFacts DEF MirrorAt
<1> HIDE DEF a, i, z
<1>10. L(i) = L(i - 1) + len[c] /\ L(i) \in Nat /\ L(i - 1) \in Nat /\ L(a - 1) \in Nat /\ L(z) \in Nat
       /\ len[c] \in Nat
    <2>1. i \in 1 .. Len(l) /\ i \in 0 .. Len(l) /\ i - 1 \in 0 .. Len(l) /\ a - 1 \in 0 .. Len(l) /\ z \in 0 .. Len(l)
        BY <1>8, <1>9
    <2> QED BY <1>9, <2>1, LengthFacts
<1>11. (i + 1) - 1 = i
    BY <1>8
<1> HIDE DEF L
<1>12. Heavy(t, c) = L(z) - L(a - 1)
    <2>1. /\ Weight(t, Kid(t, "left", c)) = L(i - 1) - L(a - 1)
          /\ Weight(t, Kid(t, "right", c)) = L(z) - L(i)
        BY <1>6, <1>11 DEF Stretch, L, a, i, z
    <2> QED BY <1>7, <1>10, <2>1
<1> QED BY <1>4, <1>12 DEF HeavyAs, Stretch, L, a, z

LEMMA SideWeights ==
    ASSUME NEW t, NEW len \in [Nodes -> Nat], NEW l \in Lists, NEW p, MirrorAt(t, len, l, p),
           NEW b \in Range(l)
    PROVE  /\ Weight(t, Kid(t, "left", b)) = Stretch(l, len, Edge(p, "left", b), At(p, b) - 1)
           /\ Weight(t, Kid(t, "right", b)) = Stretch(l, len, At(p, b) + 1, Edge(p, "right", b))
<1> DEFINE D == Range(l)
<1>1. /\ Whole(t, D, p, 1, Len(l)) /\ Forest(t, D, p)
    BY HeldFacts DEF MirrorAt
<1>2. Up(t, Top(t)) = Nil /\ Nil \notin D
    BY <1>1, ForestFacts, NilFacts DEF Whole
<1>3. ASSUME NEW s \in Sides, Kid(t, s, b) # Nil PROVE HeavyAs(t, l, len, p, Kid(t, s, b))
    <2> DEFINE k == Kid(t, s, b)
    <2>1. k \in D /\ Up(t, k) = b
        BY <1>1, <1>3, KidFacts
    <2>2. k # Top(t)
        BY <1>2, <2>1
    <2> HIDE DEF k
    <2>3. HeavyAs(t, l, len, p, k)
        BY <2>1, <2>2, WeightsAre
    <2> QED BY <2>3 DEF k
<1>4. KidsHeavy(t, l, len, p, b)
    BY <1>3 DEF KidsHeavy
<1> QED BY <1>4, KidWeights

\* The first place that reaches a length.
FirstTo(l, len, i, place) ==
    /\ place \in 1 .. Len(l)
    /\ i <= LengthUpTo(l, len, place)
    /\ \A j \in 1 .. (place - 1) : LengthUpTo(l, len, j) < i

\* Where Find is on its way: the first place is in the interval of the node, and the
\* offset counts from the start of the interval.
Seeks(l, len, p, i, place, u) ==
    /\ u \in Range(l) \X Int
    /\ Holds(p, place, u[1])
    /\ u[2] = i - LengthUpTo(l, len, Edge(p, "left", u[1]) - 1)

LEMMA FindStepSeeks ==
    ASSUME NEW t, NEW len \in [Nodes -> Nat], NEW l \in Lists, NEW p, MirrorAt(t, len, l, p),
           NEW i \in Int, NEW place, FirstTo(l, len, i, place), NEW u, Seeks(l, len, p, i, place, u)
    PROVE  LET v == FindStep(t, len, u)
           IN  /\ Seeks(l, len, p, i, place, v)
               /\ At(p, u[1]) = place => v = u
               /\ At(p, v[1]) = place \/ Size(p, v[1]) < Size(p, u[1])
<1> DEFINE D == Range(l)
           n == u[1]
           a == Edge(p, "left", n)
           m == At(p, n)
           z == Edge(p, "right", n)
           L(k) == LengthUpTo(l, len, k)
           left == Kid(t, "left", n)
           right == Kid(t, "right", n)
           v == FindStep(t, len, u)
<1>1. Whole(t, D, p, 1, Len(l)) /\ Forest(t, D, p)
    BY HeldFacts DEF MirrorAt
<1>2. n \in D /\ u[2] \in Int /\ u = <<u[1], u[2]>> /\ a <= place /\ place <= z /\ u[2] = i - L(a - 1)
    BY DEF Seeks, Holds
<1>3. a \in Int /\ m \in Int /\ z \in Int /\ 1 <= a /\ a <= m /\ m <= z /\ z <= Len(l)
    BY <1>1, <1>2, ForestFacts DEF Whole
<1>4. Len(l) \in Nat /\ l[m] = n
    BY <1>2, ListFacts, PlacesFacts DEF MirrorAt
<1>5. /\ place \in Int /\ 1 <= place /\ place <= Len(l) /\ i <= L(place)
      /\ \A j \in 1 .. (place - 1) : L(j) < i
    BY <1>4 DEF FirstTo
<1>6. /\ Weight(t, left) = L(m - 1) - L(a - 1)
      /\ v = IF left # Nil /\ u[2] <= Weight(t, left)
             THEN <<left, u[2]>>
             ELSE IF right # Nil /\ Weight(t, left) + len[n] < u[2]
                  THEN <<right, u[2] - (Weight(t, left) + len[n])>>
                  ELSE u
    <2>1. Weight(t, left) = L(m - 1) - L(a - 1)
        BY <1>2, SideWeights DEF Stretch
    <2>2. v = IF left # Nil /\ u[2] <= Weight(t, left)
             THEN <<left, u[2]>>
             ELSE IF right # Nil /\ Weight(t, left) + len[n] < u[2]
                  THEN <<right, u[2] - (Weight(t, left) + len[n])>>
                  ELSE u
        BY DEF FindStep, LeftWeight, Kid
    <2> QED BY <2>1, <2>2
<1>7. left # Nil => /\ left \in D /\ Edge(p, "left", left) = a /\ Edge(p, "right", left) = m - 1
                    /\ Size(p, left) < Size(p, n)
    <2> SUFFICES ASSUME left # Nil
                 PROVE  /\ left \in D /\ Edge(p, "left", left) = a /\ Edge(p, "right", left) = m - 1
                        /\ Size(p, left) < Size(p, n)
        OBVIOUS
    <2>1. /\ left \in D /\ Edge(p, "left", left) = a /\ Edge(p, Other("left"), left) = m + Toward("left")
          /\ Size(p, left) < Size(p, n)
        BY <1>1, <1>2, KidFacts DEF Sides, Size
    <2> HIDE DEF left, m
    <2> QED BY <1>3, <2>1 DEF Other, Toward
<1>8. right # Nil => /\ right \in D /\ Edge(p, "right", right) = z /\ Edge(p, "left", right) = m + 1
                     /\ Size(p, right) < Size(p, n)
    <2> SUFFICES ASSUME right # Nil
                 PROVE  /\ right \in D /\ Edge(p, "right", right) = z /\ Edge(p, "left", right) = m + 1
                        /\ Size(p, right) < Size(p, n)
        OBVIOUS
    <2>1. /\ right \in D /\ Edge(p, "right", right) = z /\ Edge(p, Other("right"), right) = m + Toward("right")
          /\ Size(p, right) < Size(p, n)
        BY <1>1, <1>2, KidFacts DEF Sides, Size
    <2> HIDE DEF right, m
    <2> QED BY <1>3, <2>1 DEF Other, Toward
<1>9. left = Nil => a = m
    BY <1>1, <1>2, NilKid DEF Sides
<1>10. right = Nil => z = m
    BY <1>1, <1>2, NilKid DEF Sides
<1> HIDE DEF a, m, z, left, right, v
<1>11. /\ L(m) = L(m - 1) + len[n] /\ L(m) \in Nat /\ L(m - 1) \in Nat /\ L(a - 1) \in Nat /\ L(z) \in Nat
       /\ len[n] \in Nat /\ L(place) \in Nat
    <2>1. /\ m \in 1 .. Len(l) /\ m \in 0 .. Len(l) /\ m - 1 \in 0 .. Len(l) /\ a - 1 \in 0 .. Len(l)
          /\ z \in 0 .. Len(l) /\ place \in 0 .. Len(l)
        BY <1>3, <1>4, <1>5
    <2> QED BY <1>4, <2>1, LengthFacts
\* What the lengths say of the place.
<1>12. /\ i <= L(m - 1) /\ a # m => place <= m - 1
       /\ L(m - 1) < i => m <= place
       /\ L(m) < i => m < place
       /\ i <= L(m) => place <= m
    <2>1. ASSUME NEW j \in 0 .. Len(l), L(j) < i PROVE j < place
        <3>1. place <= j => L(place) <= L(j)
            <4>1. place \in 0 .. Len(l)
                BY <1>4, <1>5
            <4> QED BY <4>1, LengthGrows
        <3>2. L(j) \in Nat
            BY LengthFacts
        <3> HIDE DEF L
        <3> QED BY <1>5, <1>11, <2>1, <3>1, <3>2
    <2>2. ASSUME NEW j \in 1 .. Len(l), i <= L(j) PROVE place <= j
        <3>1. j \in 1 .. (place - 1) => L(j) < i
            BY <1>5
        <3>2. L(j) \in Nat
            BY LengthFacts
        <3> HIDE DEF L
        <3> QED BY <1>4, <1>5, <2>2, <3>1, <3>2
    <2>3. m \in 0 .. Len(l) /\ m - 1 \in 0 .. Len(l) /\ m \in 1 .. Len(l) /\ (a # m => m - 1 \in 1 .. Len(l))
        BY <1>3, <1>4
    <2> HIDE DEF L
    <2>4. L(m - 1) < i => m - 1 < place
        BY <2>1, <2>3
    <2>5. L(m) < i => m < place
        BY <2>1, <2>3
    <2>6. i <= L(m) => place <= m
        BY <2>2, <2>3
    <2>7. i <= L(m - 1) /\ a # m => place <= m - 1
        BY <2>2, <2>3
    <2> QED BY <1>3, <1>5, <2>4, <2>5, <2>6, <2>7
<1> HIDE DEF L
<1>13. CASE left # Nil /\ u[2] <= Weight(t, left)
    <2>1. v = <<left, u[2]>> /\ v[1] = left /\ v[2] = u[2]
        BY <1>6, <1>13
    <2>2. i <= L(m - 1)
        BY <1>2, <1>6, <1>11, <1>13
    <2>3. a # m
        <3>1. Edge(p, "left", left) <= Edge(p, "right", left)
            BY <1>1, <1>7, <1>13, ForestFacts
        <3> QED BY <1>3, <1>7, <1>13, <3>1
    <2>4. place <= m - 1
        BY <1>12, <2>2, <2>3
    <2>5. Seeks(l, len, p, i, place, v)
        BY <1>2, <1>7, <1>13, <2>1, <2>4 DEF Seeks, Holds, L
    <2>6. m # place
        BY <1>3, <1>5, <2>4
    <2> QED BY <1>7, <1>13, <2>1, <2>5, <2>6 DEF v, m
<1>14. CASE ~(left # Nil /\ u[2] <= Weight(t, left)) /\ right # Nil /\ Weight(t, left) + len[n] < u[2]
    <2> DEFINE o == u[2] - (Weight(t, left) + len[n])
    <2>1. v = <<right, o>>
        BY <1>6, <1>14
    <2>2. L(m) < i /\ o = i - L(m) /\ o \in Int
        BY <1>2, <1>6, <1>11, <1>14
    <2> HIDE DEF o
    <2>3. v[1] = right /\ v[2] = o /\ v \in D \X Int
        BY <1>8, <1>14, <2>1, <2>2
    <2>4. m < place
        BY <1>12, <2>2
    <2>5. Seeks(l, len, p, i, place, v)
        <3>1. Edge(p, "left", right) - 1 = m
            BY <1>3, <1>8, <1>14
        <3>2. Holds(p, place, right)
            BY <1>2, <1>3, <1>5, <1>8, <1>14, <2>4 DEF Holds
        <3> QED BY <2>2, <2>3, <3>1, <3>2 DEF Seeks, L
    <2>6. m # place
        BY <1>3, <1>5, <2>4
    <2> QED BY <1>8, <1>14, <2>3, <2>5, <2>6 DEF v, m
<1>15. CASE ~(left # Nil /\ u[2] <= Weight(t, left)) /\ ~(right # Nil /\ Weight(t, left) + len[n] < u[2])
    <2>1. v = u
        BY <1>6, <1>15
    <2>2. m <= place
        <3>1. CASE left = Nil
            BY <1>2, <1>9, <3>1
        <3>2. CASE left # Nil
            <4>1. L(m - 1) < i
                BY <1>2, <1>6, <1>11, <1>15, <3>2
            <4> QED BY <1>12, <4>1
        <3> QED BY <3>1, <3>2
    <2>3. place <= m
        <3>1. CASE right = Nil
            BY <1>2, <1>10, <3>1
        <3>2. CASE right # Nil
            <4>1. i <= L(m)
                BY <1>2, <1>6, <1>11, <1>15, <3>2
            <4> QED BY <1>12, <4>1
        <3> QED BY <3>1, <3>2
    <2>4. m = place
        BY <1>3, <1>5, <2>2, <2>3
    <2> QED BY <2>1, <2>4 DEF v, m
<1> QED BY <1>13, <1>14, <1>15

LEMMA FindPlace ==
    ASSUME NEW t, NEW len \in [Nodes -> Nat], NEW l \in Lists, Mirrors(t, len, l),
           NEW i \in Int, NEW place, FirstTo(l, len, i, place)
    PROVE  Find(t, len, i) = <<l[place], i - LengthUpTo(l, len, place - 1)>>
<1> DEFINE D == Range(l)
           U == D \X Int
           begin == <<Top(t), i>>
           F == [u \in U |-> FindStep(t, len, u)]
           Step(f, k) == IF k = 0 THEN begin ELSE FindStep(t, len, f[k - 1])
           Loop(f) == f = [k \in 0 .. Depth |-> Step(f, k)]
<1>1. PICK p : MirrorAt(t, len, l, p)
    BY DEF Mirrors
<1> DEFINE V == {u \in U : Seeks(l, len, p, i, place, u)}
           Near(k) == {u \in V : At(p, u[1]) = place \/ Size(p, u[1]) <= Depth - 1 - k}
           S == [k \in 0 .. Depth |-> Near(k)]
<1>2. /\ Whole(t, D, p, 1, Len(l)) /\ Forest(t, D, p) /\ Top(t) \in D
    BY <1>1, HeldFacts DEF MirrorAt
<1>3. Depth \in Nat /\ Len(l) \in Nat /\ Len(l) <= Depth
    BY DepthFacts, ListFacts
<1>4. begin \in V /\ Size(p, Top(t)) = Len(l) - 1
    <2>1. Edge(p, "left", Top(t)) = 1 /\ Edge(p, "right", Top(t)) = Len(l) /\ 1 - 1 = 0
        BY <1>2 DEF Whole
    <2>2. LengthUpTo(l, len, 0) = 0 /\ i - 0 = i
        BY LengthFacts
    <2>3. 1 <= place /\ place <= Len(l)
        BY <1>3 DEF FirstTo
    <2>4. Seeks(l, len, p, i, place, begin)
        BY <1>2, <2>1, <2>2, <2>3 DEF Seeks, Holds
    <2> QED BY <1>2, <2>1, <2>4 DEF Size
<1>5. ASSUME NEW u \in V
      PROVE  /\ FindStep(t, len, u) \in V
             /\ At(p, u[1]) = place => FindStep(t, len, u) = u
             /\ At(p, FindStep(t, len, u)[1]) = place \/ Size(p, FindStep(t, len, u)[1]) < Size(p, u[1])
    <2> DEFINE v == FindStep(t, len, u)
    <2>1. /\ Seeks(l, len, p, i, place, v)
          /\ At(p, u[1]) = place => v = u
          /\ At(p, v[1]) = place \/ Size(p, v[1]) < Size(p, u[1])
        BY <1>1, FindStepSeeks
    <2> HIDE DEF v
    <2>2. v \in V
        BY <2>1 DEF Seeks
    <2> QED BY <2>1, <2>2 DEF v
<1>6. \A u \in V : F[u] \in V /\ F[u] = FindStep(t, len, u)
    BY <1>5
<1> HIDE DEF V
<1>7. \E f : Loop(f)
    <2>1. PICK f : Loops(f, Depth, begin, F)
        <3> HIDE DEF F, begin
        <3> QED BY <1>3, LoopsExist
    <2>2. \A k \in 0 .. Depth : f[k] \in V
        <3> HIDE DEF F, begin
        <3> QED BY <1>3, <1>4, <1>6, <2>1, LoopStays
    <2>3. \A k \in 1 .. Depth : k - 1 \in 0 .. Depth
        BY <1>3
    <2>4. \A k \in 1 .. Depth : F[f[k - 1]] = FindStep(t, len, f[k - 1])
        <3> HIDE DEF F
        <3> QED BY <1>6, <2>2, <2>3
    <2>5. f = [k \in 0 .. Depth |-> IF k = 0 THEN begin ELSE F[f[k - 1]]]
        <3> HIDE DEF F, begin
        <3> QED BY <2>1 DEF Loops
    <2>6. \A k \in 0 .. Depth : (IF k = 0 THEN begin ELSE F[f[k - 1]]) = Step(f, k)
        <3> HIDE DEF F, begin
        <3>1. \A k \in 0 .. Depth : k = 0 \/ k \in 1 .. Depth
            BY <1>3
        <3> QED BY <2>4, <3>1
    <2>7. f = [k \in 0 .. Depth |-> Step(f, k)]
        <3> HIDE DEF F, Step, begin
        <3> QED BY <2>5, <2>6
    <2> QED BY <2>7
<1> DEFINE h == CHOOSE f : Loop(f)
           u == h[Depth]
<1>8. Loop(h)
    BY <1>7
<1>9. Find(t, len, i) = <<u[1], u[2] - LeftWeight(t, u[1])>>
    BY DEF Find, Top
<1> HIDE DEF h
<1>10. h[0] = begin /\ \A k \in 1 .. Depth : h[k] = FindStep(t, len, h[k - 1])
    <2>1. \A k \in 0 .. Depth : h[k] = Step(h, k)
        <3> HIDE DEF Step
        <3> QED BY <1>8
    <2>2. 0 \in 0 .. Depth /\ \A k \in 1 .. Depth : k \in 0 .. Depth /\ k # 0
        BY <1>3
    <2> HIDE DEF begin
    <2> QED BY <2>1, <2>2
<1>x. \A w \in V : w[1] \in D /\ Seeks(l, len, p, i, place, w) /\ Size(p, w[1]) \in Nat
    <2> SUFFICES ASSUME NEW w \in V
                 PROVE  w[1] \in D /\ Seeks(l, len, p, i, place, w) /\ Size(p, w[1]) \in Nat
        OBVIOUS
    <2>1. Seeks(l, len, p, i, place, w)
        BY DEF V
    <2>2. w[1] \in D
        BY <2>1 DEF Seeks
    <2>3. Size(p, w[1]) \in Nat
        BY <1>2, <2>2, ForestFacts DEF Size
    <2> QED BY <2>1, <2>2, <2>3
<1>11. ASSUME NEW k \in 1 .. Depth, NEW w \in Near(k - 1)
       PROVE  FindStep(t, len, w) \in Near(k)
    <2>1. w \in V /\ (At(p, w[1]) = place \/ Size(p, w[1]) <= Depth - 1 - (k - 1))
        OBVIOUS
    <2> DEFINE v == FindStep(t, len, w)
    <2>2. /\ v \in V /\ (At(p, w[1]) = place => v = w)
          /\ At(p, v[1]) = place \/ Size(p, v[1]) < Size(p, w[1])
        BY <1>5, <2>1
    <2> HIDE DEF v
    <2>3. Size(p, w[1]) \in Nat /\ Size(p, v[1]) \in Nat
        BY <1>x, <2>1, <2>2
    <2>4. At(p, v[1]) = place \/ Size(p, v[1]) <= Depth - 1 - k
        BY <1>3, <2>1, <2>2, <2>3
    <2> QED BY <2>2, <2>4 DEF v
<1>12. h[Depth] \in S[Depth]
    <2>1. begin \in Near(0)
        <3>1. Size(p, begin[1]) <= Depth - 1 - 0
            BY <1>3, <1>4
        <3> HIDE DEF begin
        <3> QED BY <1>4, <3>1
    <2> HIDE DEF Near, begin
    <2>2. h[0] \in S[0]
        BY <1>3, <1>10, <2>1
    <2>3. ASSUME NEW k \in 1 .. Depth, h[k - 1] \in S[k - 1] PROVE h[k] \in S[k]
        <3>1. k - 1 \in 0 .. Depth /\ k \in 0 .. Depth
            BY <1>3
        <3>2. h[k - 1] \in Near(k - 1)
            BY <2>3, <3>1
        <3>3. FindStep(t, len, h[k - 1]) \in Near(k)
            BY <1>11, <3>2
        <3> QED BY <1>10, <3>1, <3>3
    <2> HIDE DEF S
    <2> QED BY <1>3, <2>2, <2>3, LoopReaches
<1>13. u \in Near(Depth)
    <2> HIDE DEF Near
    <2> QED BY <1>3, <1>12
<1>14. u \in V /\ At(p, u[1]) = place
    <2>1. u \in V /\ (At(p, u[1]) = place \/ Size(p, u[1]) <= Depth - 1 - Depth)
        BY <1>13
    <2>2. Size(p, u[1]) \in Nat
        BY <1>x, <2>1
    <2> HIDE DEF u
    <2> QED BY <1>3, <2>1, <2>2
<1> HIDE DEF u
<1> DEFINE n == u[1]
           a == Edge(p, "left", n)
           L(k) == LengthUpTo(l, len, k)
<1>15. n \in D /\ u[2] = i - L(a - 1) /\ n = l[place]
    <2>1. n \in D /\ u[2] = i - L(a - 1)
        BY <1>x, <1>14 DEF Seeks
    <2>2. n = l[place]
        BY <1>1, <1>14, <2>1, ListFacts, PlacesFacts DEF MirrorAt
    <2> QED BY <2>1, <2>2
<1>16. LeftWeight(t, n) = L(place - 1) - L(a - 1)
    BY <1>1, <1>14, <1>15, SideWeights DEF Stretch, LeftWeight, Kid
<1>17. L(place - 1) \in Nat /\ L(a - 1) \in Nat
    <2>1. a \in Int /\ 1 <= a /\ a <= Len(l)
        BY <1>2, <1>15, ForestFacts DEF Whole
    <2>2. place - 1 \in 0 .. Len(l) /\ a - 1 \in 0 .. Len(l)
        BY <1>3, <2>1 DEF FirstTo
    <2> QED BY <2>2, LengthFacts
<1> HIDE DEF L, n, a
<1>18. u[2] - LeftWeight(t, n) = i - L(place - 1)
    BY <1>15, <1>16, <1>17
<1> QED BY <1>9, <1>15, <1>18 DEF L, n

\* There is a first place that reaches a length no longer than the whole.
LEMMA FirstToExists ==
    ASSUME NEW l \in Lists, NEW len \in [Nodes -> Nat], NEW i \in 0 .. LengthUpTo(l, len, Len(l))
    PROVE  FirstTo(l, len, i, Min({j \in DOMAIN l : LengthUpTo(l, len, j) >= i}))
<1> DEFINE L(k) == LengthUpTo(l, len, k)
           T == {j \in DOMAIN l : L(j) >= i}
<1>1. Len(l) \in Nat \ {0} /\ DOMAIN l = 1 .. Len(l)
    BY ListFacts
<1>2. \A k \in 1 .. Len(l) : L(k) \in Nat
    <2>1. \A k \in 1 .. Len(l) : k \in 0 .. Len(l)
        BY <1>1
    <2> QED BY <2>1, LengthFacts
<1>3. Len(l) \in 1 .. Len(l)
    BY <1>1
<1>4. i \in Int /\ i <= L(Len(l))
    BY <1>2, <1>3
<1> HIDE DEF L
<1>5. T \subseteq Nat /\ T # {}
    BY <1>1, <1>2, <1>3, <1>4
<1>6. PICK m \in T : \A n \in T : m <= n
    BY <1>5, LeastNatural
<1>7. Min(T) \in T /\ \A n \in T : Min(T) <= n
    <2> HIDE DEF T
    <2> QED BY <1>6 DEF Min
<1> DEFINE q == Min(T)
<1> HIDE DEF q
<1>8. q \in T /\ \A n \in T : q <= n
    BY <1>7 DEF q
<1>9. q \in 1 .. Len(l) /\ i <= L(q)
    BY <1>1, <1>2, <1>4, <1>8
<1>10. ASSUME NEW j \in 1 .. (q - 1) PROVE L(j) < i
    <2>1. j \in 1 .. Len(l) /\ ~(q <= j)
        BY <1>1, <1>9
    <2>2. j \notin T
        BY <1>8, <2>1
    <2> QED BY <1>1, <1>2, <1>4, <2>1, <2>2
<1>11. FirstTo(l, len, i, q)
    BY <1>9, <1>10 DEF FirstTo, L
<1> QED BY <1>11 DEF q, L

LEMMA MirrorsFindIsFirst ==
    ASSUME Shapes, Mirrors(index, lens, list)
    PROVE  FindIsFirst
<1>1. list \in Lists /\ lens \in [Nodes -> Nat]
    BY ShapesFacts
<1> SUFFICES ASSUME NEW i \in 0 .. LengthUpTo(list, lens, Len(list))
             PROVE  LET place == Min({j \in DOMAIN list : LengthUpTo(list, lens, j) >= i})
                    IN  /\ Find(index, lens, i) = <<list[place], i - LengthUpTo(list, lens, place - 1)>>
                        /\ ~FindFails(lens, Find(index, lens, i))
    BY DEF FindIsFirst
<1> DEFINE place == Min({j \in DOMAIN list : LengthUpTo(list, lens, j) >= i})
           L(k) == LengthUpTo(list, lens, k)
<1>2. FirstTo(list, lens, i, place)
    BY <1>1, FirstToExists
<1>3. i \in Int
    <2>1. Len(list) \in 0 .. Len(list)
        BY <1>1, ListFacts
    <2>2. LengthUpTo(list, lens, Len(list)) \in Nat
        BY <1>1, <2>1, LengthFacts
    <2> QED BY <2>2
<1> HIDE DEF place
<1>4. Find(index, lens, i) = <<list[place], i - L(place - 1)>>
    BY <1>1, <1>2, <1>3, FindPlace
<1>5. i - L(place - 1) <= lens[list[place]]
    <2>1. place \in 1 .. Len(list) /\ i <= L(place)
        BY <1>2 DEF FirstTo
    <2>2. place - 1 \in 0 .. Len(list)
        BY <1>1, <2>1, ListFacts
    <2>3. L(place) = L(place - 1) + lens[list[place]] /\ lens[list[place]] \in Nat /\ L(place - 1) \in Nat
        BY <1>1, <2>1, <2>2, LengthFacts
    <2> HIDE DEF L
    <2> QED BY <1>3, <2>1, <2>3
<1>6. ~FindFails(lens, Find(index, lens, i))
    <2>1. lens[list[place]] \in Nat /\ i - L(place - 1) \in Int
        <3>1. place \in 1 .. Len(list) /\ place - 1 \in 0 .. Len(list)
            BY <1>1, <1>2, ListFacts DEF FirstTo
        <3>2. lens[list[place]] \in Nat /\ L(place - 1) \in Nat
            BY <1>1, <3>1, LengthFacts
        <3> QED BY <1>3, <3>2
    <2> HIDE DEF L
    <2> QED BY <1>4, <1>5, <2>1 DEF FindFails
<1> QED BY <1>4, <1>6 DEF place

\* Splay.Find, as findNodePos uses it, gives every index of a text the first block
\* that reaches it, with the offset in it, and never comes to its log.Fatalf: so the
\* modules of the texts and arrays may look in the list instead.
THEOREM TreeFindsFirst == Spec => []FindIsFirst
<1>1. IInv => FindIsFirst
    BY MirrorsFindIsFirst DEF IInv
<1> QED BY <1>1, InvariantHolds, PTL

-----------------------------------------------------------------------------
(***************************************************************************)
(* Get                                                                     *)
(***************************************************************************)

\* In an array an element counts one until it is removed.
LEMMA LiveLens ==
    ASSUME Shapes, Lengths, kind = "array", NEW j \in 1 .. Len(list)
    PROVE  lens[list[j]] = IF j \in Live THEN 1 ELSE 0
<1>1. /\ list \in Lists /\ list[j] \in Range(list) /\ list[j] \in Nodes
      /\ DOMAIN list = 1 .. Len(list)
    BY ShapesFacts, ListFacts
<1>2. j \in Live <=> list[j] \notin removed \cup {Head0}
    BY <1>1 DEF Live
<1>3. lens[list[j]] = IF list[j] \in removed THEN 0 ELSE content[list[j]]
    BY <1>1 DEF lens, Lens
<1> QED BY <1>1, <1>2, <1>3 DEF Lengths

LEMMA LiveType ==
    ASSUME Shapes
    PROVE  \A k \in Live : k \in Int /\ 1 <= k /\ k <= Len(list)
<1>1. DOMAIN list = 1 .. Len(list) /\ Len(list) \in Nat
    BY ShapesFacts, ListFacts
<1> QED BY <1>1 DEF Live

\* So the length of the first places is the number of the elements there.
LEMMA LiveCount ==
    ASSUME Shapes, Lengths, kind = "array", NEW i \in 0 .. Len(list)
    PROVE  Cardinality({k \in Live : k <= i}) = LengthUpTo(list, lens, i)
<1> DEFINE L(j) == LengthUpTo(list, lens, j)
           First(j) == {k \in Live : k <= j}
           T == {j \in 0 .. Len(list) : IsFiniteSet(First(j)) /\ Cardinality(First(j)) = L(j)}
<1>1. /\ list \in Lists /\ lens \in [Nodes -> Nat] /\ Len(list) \in Nat /\ Live \subseteq 1 .. Len(list)
    BY ShapesFacts, ListFacts DEF Live
<1>2. L(0) = 0 /\ \A j \in 1 .. Len(list) : L(j) = L(j - 1) + lens[list[j]]
    BY <1>1, LengthFacts
<1>3. \A j \in 0 .. Len(list) : L(j) \in Nat
    BY <1>1, LengthFacts
<1> HIDE DEF L
<1>4. 0 \in T
    <2>1. First(0) = {}
        BY LiveType
    <2> HIDE DEF First
    <2>2. 0 \in 0 .. Len(list)
        BY <1>1
    <2>3. IsFiniteSet(First(0)) /\ Cardinality(First(0)) = 0
        BY <2>1, FS_EmptySet
    <2> QED BY <1>2, <2>2, <2>3
<1>5. ASSUME NEW j \in 1 .. Len(list), j - 1 \in T PROVE j \in T
    <2>1. IsFiniteSet(First(j - 1)) /\ Cardinality(First(j - 1)) = L(j - 1)
        BY <1>5
    <2>2. j \in 0 .. Len(list) /\ j - 1 \in 0 .. Len(list)
        BY <1>1
    <2>3. L(j - 1) \in Nat /\ lens[list[j]] = IF j \in Live THEN 1 ELSE 0
        BY <1>3, <2>2, LiveLens
    <2>4. CASE j \in Live
        <3>1. First(j) = First(j - 1) \cup {j} /\ j \notin First(j - 1)
            <4>1. \A k \in Live : k <= j <=> k <= j - 1 \/ k = j
                BY LiveType
            <4>2. j <= j /\ ~(j <= j - 1)
                BY <2>4, LiveType
            <4> QED BY <2>4, <4>1, <4>2
        <3> DEFINE A == First(j - 1)
        <3> HIDE DEF First, A
        <3>2. IsFiniteSet(First(j)) /\ Cardinality(First(j)) = L(j - 1) + 1
            <4>1. IsFiniteSet(A) /\ First(j) = A \cup {j} /\ j \notin A
                BY <2>1, <3>1 DEF A
            <4>2. IsFiniteSet(A \cup {j}) /\ Cardinality(A \cup {j}) = Cardinality(A) + 1
                BY <4>1, FS_AddElement
            <4> QED BY <2>1, <4>1, <4>2 DEF A
        <3>3. L(j) = L(j - 1) + 1
            BY <1>2, <2>3, <2>4
        <3> QED BY <2>2, <3>2, <3>3
    <2>5. CASE j \notin Live
        <3>1. First(j) = First(j - 1)
            <4>1. \A k \in Live : k <= j <=> k <= j - 1
                BY <2>5, LiveType
            <4> QED BY <4>1
        <3>2. L(j) = L(j - 1)
            BY <1>2, <2>3, <2>5
        <3> HIDE DEF First
        <3> QED BY <2>1, <2>2, <3>1, <3>2
    <2> QED BY <2>4, <2>5
<1> HIDE DEF T
<1>6. \A j \in 0 .. Len(list) : j \in T
    BY <1>1, <1>4, <1>5, BoundedInduction
<1> QED BY <1>6 DEF T, L

\* The next live place behind another.
LEMMA NextLiveIs ==
    ASSUME Shapes, NEW i \in 1 .. Len(list), NEW place \in Live, i < place,
           \A j \in Live : i < j => place <= j
    PROVE  NextLive(list[i]) = list[place]
<1> DEFINE T == {k \in Live : k > PlaceOf(list, list[i])}
<1>1. list \in Lists /\ Len(list) \in Nat /\ Live \subseteq 1 .. Len(list)
    BY ShapesFacts, ListFacts DEF Live
<1>2. PlaceOf(list, list[i]) = i
    BY <1>1, ListFacts
<1>3. place \in T /\ \A k \in T : place <= k
    BY <1>1, <1>2
<1>4. T \subseteq Nat
    BY LiveType
<1> HIDE DEF T
<1>5. Min(T) = place
    <2>1. \E x \in T : \A y \in T : x <= y
        BY <1>3
    <2>2. Min(T) \in T /\ \A y \in T : Min(T) <= y
        BY <2>1 DEF Min
    <2>3. Min(T) <= place /\ place <= Min(T) /\ Min(T) \in Nat /\ place \in Nat
        BY <1>3, <1>4, <2>2
    <2> QED BY <2>3
<1> QED BY <1>5 DEF NextLive, T

LEMMA MirrorsGetIsNth ==
    ASSUME Shapes, Lengths, Mirrors(index, lens, list)
    PROVE  GetIsNth
<1> SUFFICES ASSUME kind = "array", NEW place \in Live
             PROVE  Get(Cardinality({j \in Live : j < place})) = list[place]
    BY DEF GetIsNth
<1> DEFINE L(j) == LengthUpTo(list, lens, j)
           n == L(place - 1)
           q == Min({j \in DOMAIN list : L(j) >= n})
<1>1. /\ list \in Lists /\ lens \in [Nodes -> Nat] /\ Len(list) \in Nat /\ Live \subseteq 1 .. Len(list)
      /\ list[1] = Head0 /\ 1 \in 1 .. Len(list)
    BY ShapesFacts, ListFacts DEF Live
<1>2. place \in 1 .. Len(list) /\ place - 1 \in 0 .. Len(list) /\ Len(list) \in 0 .. Len(list)
    BY <1>1
<1>3. Cardinality({j \in Live : j < place}) = n
    <2>1. {j \in Live : j < place} = {j \in Live : j <= place - 1}
        <3>1. \A j \in Live : j < place <=> j <= place - 1
            BY LiveType
        <3> QED BY <3>1
    <2> QED BY <1>2, <2>1, LiveCount
<1>4. /\ \A j \in 0 .. Len(list) : L(j) \in Nat
      /\ \A j \in 1 .. Len(list) : L(j) = L(j - 1) + (IF j \in Live THEN 1 ELSE 0)
    <2>1. \A j \in 1 .. Len(list) : lens[list[j]] = IF j \in Live THEN 1 ELSE 0
        BY LiveLens
    <2> QED BY <1>1, <2>1, LengthFacts
<1>5. n \in 0 .. L(Len(list))
    <2>1. L(place - 1) <= L(Len(list))
        BY <1>1, <1>2, LengthGrows
    <2> HIDE DEF L
    <2> QED BY <1>2, <1>4, <2>1
<1>6. FirstTo(list, lens, n, q)
    BY <1>1, <1>5, FirstToExists
<1>7. Find(index, lens, n) = <<list[q], n - L(q - 1)>>
    <2>1. n \in Int
        BY <1>2, <1>4
    <2> HIDE DEF q, n
    <2> QED BY <1>1, <1>6, <2>1, FindPlace
<1>8. q \in 1 .. Len(list) /\ n <= L(q) /\ \A j \in 1 .. (q - 1) : L(j) < n
    BY <1>6 DEF FirstTo
<1>m. \A i, j \in 0 .. Len(list) : i <= j => L(i) <= L(j)
    BY <1>1, LengthGrows
<1> HIDE DEF q, L
\* Behind q the next live place is the one that is sought.
<1>9. /\ q < place
      /\ \A j \in Live : q < j => place <= j
      /\ (n = 0 => q = 1) /\ (n # 0 => n - L(q - 1) = 1)
    <2>1. L(1) = 0 /\ L(0) = 0 /\ 1 \notin Live
        <3>1. 1 \notin Live
            BY <1>1 DEF Live
        <3>2. L(0) = 0
            BY <1>1, LengthFacts DEF L
        <3>3. L(1) = L(1 - 1) + 0
            BY <1>1, <1>4, <3>1
        <3> QED BY <3>1, <3>2, <3>3
    <2>2. n = 0 => q = 1
        <3>1. 1 < q => L(1) < n
            BY <1>1, <1>8
        <3> QED BY <1>1, <1>8, <2>1, <3>1
    <2>3. n # 0 => n - L(q - 1) = 1 /\ L(q) = n
        <3> SUFFICES ASSUME n # 0 PROVE n - L(q - 1) = 1 /\ L(q) = n
            OBVIOUS
        <3>1. n \in Nat /\ q - 1 \in 0 .. Len(list) /\ q \in 0 .. Len(list)
            BY <1>1, <1>2, <1>4, <1>8
        <3>2. L(q - 1) < n
            <4>1. CASE q = 1
                <5>1. q - 1 = 0
                    BY <4>1
                <5> QED BY <2>1, <3>1, <5>1
            <4>2. CASE q # 1
                <5>1. q - 1 \in 1 .. (q - 1)
                    BY <1>1, <1>8, <4>2
                <5> QED BY <1>8, <5>1
            <4> QED BY <4>1, <4>2
        <3>3. L(q) = L(q - 1) + (IF q \in Live THEN 1 ELSE 0) /\ L(q) \in Nat /\ L(q - 1) \in Nat
            BY <1>4, <1>8, <3>1
        <3> HIDE DEF n
        <3> QED BY <1>8, <3>1, <3>2, <3>3
    <2>4. L(place) = n + 1 /\ n \in Nat
        BY <1>2, <1>4
    <2>5. q < place
        <3>1. CASE n = 0
            <4>1. place # 1
                BY <2>1
            <4> QED BY <1>1, <1>2, <2>2, <3>1, <4>1
        <3>2. CASE n # 0
            <4>1. place <= q => L(place) <= L(q)
                BY <1>2, <1>8, <1>m
            <4> QED BY <1>1, <1>2, <1>8, <2>3, <2>4, <3>2, <4>1
        <3> QED BY <3>1, <3>2
    <2>6. L(q) = n
        BY <2>1, <2>2, <2>3
    <2>7. ASSUME NEW j \in Live, q < j PROVE place <= j
        <3>1. j \in 1 .. Len(list) /\ j - 1 \in 0 .. Len(list) /\ j \in 0 .. Len(list)
            BY <1>1
        <3>2. L(j) = L(j - 1) + 1 /\ L(j) \in Nat /\ L(j - 1) \in Nat
            BY <1>4, <3>1
        <3>3. L(q) <= L(j - 1)
            BY <1>1, <1>8, <1>m, <2>7, <3>1
        <3>4. j <= place - 1 => L(j) <= L(place - 1)
            BY <1>2, <1>m, <3>1
        <3>5. ~(j <= place - 1)
            BY <2>4, <2>6, <3>2, <3>3, <3>4
        <3> QED BY <1>2, <3>1, <3>5
    <2> QED BY <2>2, <2>3, <2>5, <2>7
<1>10. NextLive(list[q]) = list[place]
    BY <1>8, <1>9, NextLiveIs
<1>11. Get(n) = NextLive(list[q])
    <2>1. Get(n) = IF (n = 0 /\ list[q] = Head0) \/ n - L(q - 1) > 0 THEN NextLive(list[q]) ELSE list[q]
        <3> HIDE DEF n
        <3> QED BY <1>7 DEF Get
    <2>2. (n = 0 /\ list[q] = Head0) \/ n - L(q - 1) > 0
        BY <1>1, <1>9
    <2> QED BY <2>1, <2>2
<1> QED BY <1>3, <1>10, <1>11

\* RGATreeList.Get of an index gives the element there, whatever elements were
\* removed and moved: it goes on from the node that the splay tree finds.
THEOREM TreeGetsNth == Spec => []GetIsNth
<1>1. IInv => GetIsNth
    BY MirrorsGetIsNth DEF IInv
<1> QED BY <1>1, InvariantHolds, PTL
=============================================================================
