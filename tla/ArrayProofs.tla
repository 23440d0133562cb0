----------------------------- MODULE ArrayProofs -----------------------------
(***************************************************************************)
(* The replicas of an array, with any number of clients and changes: those *)
(* that have executed the same changes agree on every element, and on the  *)
(* order of the elements as long as nothing is moved.                      *)
(***************************************************************************)
EXTENDS ArrayReplicas, ReplicasProofs

\* The element of Replicas is an array, and nothing is collected.
ArrayInstance ==
    /\ Operation = ArrayOperation
    /\ Empty = NewRGATreeList
    /\ \A l, at : Operations(l, at) = ArrayOperations(l, at)
    /\ \A l, op, at : Fails(l, op, at) = ArrayFails(l, op, at)
    /\ \A l, op, at : Execute(l, op, at) = ArrayExecute(l, op, at)
    /\ \A l, ticket : GarbageCollect(l, ticket) = PurgeRemoved(l, ticket)
    /\ \A l : Decoded(l) = DecodedList(l)
    /\ Collecting = FALSE

-----------------------------------------------------------------------------
(***************************************************************************)
(* What the executed changes make of an array                              *)
(***************************************************************************)

Named(S, kind, t) == {e \in S : e.op.kind = kind /\ e.op.elem = t}
Added(S) == {e.op.elem : e \in {f \in S : f.op.kind = "add"}}

\* The ticket of the latest change of a kind that names an element, Nil if none does.
LatestIs(S, kind, t, at) ==
    \/ Named(S, kind, t) = {} /\ at = Nil
    \/ \E e \in Named(S, kind, t) : at = At(e) /\ \A f \in Named(S, kind, t) : At(f) <= at

\* No element is there twice.
Distinct(l) ==
    \A i, j \in 1 .. Len(l.nodes) : l.nodes[i].createdAt = l.nodes[j].createdAt => i = j

\* An element is behind the one it was added to, and so are those between them,
\* which are newer.
PlacedAfter(l, p, x) ==
    /\ IndexOf(l, p) < IndexOf(l, x)
    /\ \A k \in 1 .. Len(l.nodes) :
          IndexOf(l, p) < k /\ k < IndexOf(l, x) => l.nodes[k].createdAt > x
Ordered(l, S) == \A e \in S : e.op.kind = "add" => PlacedAfter(l, e.op.prev, e.op.elem)

CreatedAts(l) == {l.nodes[i].createdAt : i \in 1 .. Len(l.nodes)}

ArrayValue(l, S) ==
    /\ \A e \in S : e.op.kind = "add" =>
          /\ e.op.elem = At(e)
          /\ e.op.prev \in {0} \cup Added(S) /\ e.op.prev < e.op.elem
    /\ \A e \in S : e.op.kind \in {"move", "remove"} => e.op.elem \in Added(S)
    /\ Distinct(l)
    /\ CreatedAts(l) = Added(S)
    /\ \A i \in 1 .. Len(l.nodes) :
          /\ LatestIs(S, "move", l.nodes[i].createdAt, l.nodes[i].movedAt)
          /\ LatestIs(S, "remove", l.nodes[i].createdAt, l.nodes[i].removedAt)
    /\ (\A e \in S : e.op.kind # "move") => Ordered(l, S)
ArrayValues == {p \in List \X SUBSET Change : ArrayValue(p[1], p[2])}

\* What an author of a change has executed before.
ArrayGround(e, S) ==
    /\ e.op.kind \in Kinds
    /\ e.op.kind = "add" =>
          e.op.elem = At(e) /\ e.op.prev \in {0} \cup Added(S) /\ e.op.prev < e.op.elem
    /\ e.op.kind \in {"move", "remove"} => e.op.elem \in Added(S) /\ e.op.elem < At(e)
ArrayGrounds == {p \in Change \X SUBSET Change : ArrayGround(p[1], p[2])}

-----------------------------------------------------------------------------
(***************************************************************************)
(* Places                                                                  *)
(***************************************************************************)

\* The place of an element.
LEMMA IndexFacts ==
    ASSUME NEW l \in List, Distinct(l)
    PROVE  /\ Len(l.nodes) \in Nat /\ DOMAIN l.nodes = 1 .. Len(l.nodes)
           /\ IndexOf(l, 0) = 0
           /\ \A i \in 1 .. Len(l.nodes) :
                 /\ l.nodes[i] \in Node
                 /\ IndexOf(l, l.nodes[i].createdAt) = i
           /\ \A t : t # 0 /\ Has(l, t) =>
                 /\ IndexOf(l, t) \in 1 .. Len(l.nodes)
                 /\ l.nodes[IndexOf(l, t)].createdAt = t
<1>1. l.nodes \in Seq(Node)
    BY DEF List
<1>2. Len(l.nodes) \in Nat /\ DOMAIN l.nodes = 1 .. Len(l.nodes)
    BY <1>1
<1>3. \A i \in 1 .. Len(l.nodes) : l.nodes[i] \in Node
    BY <1>1
<1>4. \A i \in 1 .. Len(l.nodes) : l.nodes[i].createdAt # 0
    BY <1>3 DEF Node
<1>5. IndexOf(l, 0) = 0
    BY DEF IndexOf, InitialTicket
<1>6. ASSUME NEW t, t # 0, Has(l, t)
      PROVE  /\ IndexOf(l, t) \in 1 .. Len(l.nodes)
             /\ l.nodes[IndexOf(l, t)].createdAt = t
    <2>1. IndexOf(l, t) = CHOOSE i \in DOMAIN l.nodes : l.nodes[i].createdAt = t
        BY <1>6 DEF IndexOf, InitialTicket
    <2>2. \E i \in DOMAIN l.nodes : l.nodes[i].createdAt = t
        BY <1>6 DEF Has, InitialTicket
    <2> QED BY <1>2, <2>1, <2>2
<1>7. ASSUME NEW i \in 1 .. Len(l.nodes)
      PROVE  IndexOf(l, l.nodes[i].createdAt) = i
    <2> DEFINE t == l.nodes[i].createdAt
    <2>1. t # 0 /\ Has(l, t)
        BY <1>2, <1>4 DEF Has
    <2> QED BY <1>6, <2>1 DEF Distinct
<1> QED BY <1>2, <1>3, <1>5, <1>6, <1>7

-----------------------------------------------------------------------------
(***************************************************************************)
(* Inserting and releasing a node                                          *)
(***************************************************************************)

\* r is s with x inserted behind the first i.
Inserted(s, r, i, x) ==
    /\ Len(r) = Len(s) + 1
    /\ \A k \in 1 .. i : r[k] = s[k]
    /\ r[i + 1] = x
    /\ \A k \in (i + 1) .. Len(s) : r[k + 1] = s[k]

\* Concatenation.
LEMMA ConcatSeq ==
    ASSUME NEW D, NEW p \in Seq(D), NEW q \in Seq(D)
    PROVE  /\ p \o q \in Seq(D)
           /\ Len(p \o q) = Len(p) + Len(q)
           /\ \A k \in 1 .. Len(p) : (p \o q)[k] = p[k]
           /\ \A k \in 1 .. Len(q) : (p \o q)[Len(p) + k] = q[k]
OBVIOUS

LEMMA InsertSeq ==
    ASSUME NEW D, NEW s \in Seq(D), NEW x \in D, NEW i \in 0 .. Len(s)
    PROVE  LET r == SubSeq(s, 1, i) \o <<x>> \o SubSeq(s, i + 1, Len(s))
           IN  r \in Seq(D) /\ Inserted(s, r, i, x)
<1> DEFINE a == SubSeq(s, 1, i)
           b == SubSeq(s, i + 1, Len(s))
           n == Len(s)
<1>1. n \in Nat /\ i \in Nat /\ i <= n
    OBVIOUS
<1>2. a \in Seq(D) /\ Len(a) = i /\ \A k \in 1 .. i : a[k] = s[k]
    <2>1. a \in Seq(D)
        BY <1>1
    <2>2. Len(a) = i
        BY <1>1
    <2> QED BY <1>1, <2>1, <2>2
<1>3. b \in Seq(D) /\ Len(b) = n - i /\ \A k \in 1 .. (n - i) : b[k] = s[i + k]
    <2>1. b \in Seq(D)
        BY <1>1
    <2>2. Len(b) = n - i
        BY <1>1
    <2> QED BY <1>1, <2>1, <2>2
<1> HIDE DEF a, b, n
<1> DEFINE c == a \o <<x>>
<1>4. c \in Seq(D) /\ Len(c) = i + 1 /\ c[i + 1] = x /\ \A k \in 1 .. i : c[k] = s[k]
    BY <1>1, <1>2
<1> HIDE DEF c
<1> DEFINE r == c \o b
<1>5. /\ r \in Seq(D) /\ Len(r) = (i + 1) + (n - i)
      /\ \A k \in 1 .. (i + 1) : r[k] = c[k]
      /\ \A k \in 1 .. (n - i) : r[(i + 1) + k] = b[k]
    <2>1. r \in Seq(D) /\ Len(r) = Len(c) + Len(b)
        BY <1>3, <1>4, ConcatSeq
    <2>2. /\ \A k \in 1 .. Len(c) : r[k] = c[k]
          /\ \A k \in 1 .. Len(b) : r[Len(c) + k] = b[k]
        BY <1>3, <1>4
    <2> HIDE DEF r
    <2> QED BY <1>3, <1>4, <2>1, <2>2
<1> HIDE DEF r
<1>8. ASSUME NEW k \in (i + 1) .. n
      PROVE  r[k + 1] = s[k]
    <2>1. k - i \in 1 .. (n - i) /\ i + (k - i) = k /\ (i + 1) + (k - i) = k + 1
        BY <1>1
    <2> QED BY <1>3, <1>5, <2>1
<1>9. Len(r) = n + 1
    BY <1>1, <1>5
<1>10. /\ \A k \in 1 .. i : r[k] = s[k]
       /\ r[i + 1] = x
    BY <1>1, <1>4, <1>5
<1>11. r \in Seq(D) /\ Inserted(s, r, i, x)
    BY <1>5, <1>8, <1>9, <1>10 DEF Inserted, n
<1> QED BY <1>11 DEF r, c, a, b

LEMMA ReleaseSeq ==
    ASSUME NEW D, NEW s \in Seq(D), NEW i \in 1 .. Len(s)
    PROVE  LET r == SubSeq(s, 1, i - 1) \o SubSeq(s, i + 1, Len(s))
           IN  r \in Seq(D) /\ Inserted(r, s, i - 1, s[i])
<1> DEFINE a == SubSeq(s, 1, i - 1)
           b == SubSeq(s, i + 1, Len(s))
           n == Len(s)
<1>1. n \in Nat /\ i \in Nat /\ 1 <= i /\ i <= n
    OBVIOUS
<1>2. a \in Seq(D) /\ Len(a) = i - 1 /\ \A k \in 1 .. (i - 1) : a[k] = s[k]
    <2>1. a \in Seq(D)
        BY <1>1
    <2>2. Len(a) = i - 1
        BY <1>1
    <2> QED BY <1>1, <2>1, <2>2
<1>3. b \in Seq(D) /\ Len(b) = n - i /\ \A k \in 1 .. (n - i) : b[k] = s[i + k]
    <2>1. b \in Seq(D)
        BY <1>1
    <2>2. Len(b) = n - i
        BY <1>1
    <2> QED BY <1>1, <2>1, <2>2
<1> HIDE DEF a, b, n
<1> DEFINE r == a \o b
<1>4. /\ r \in Seq(D) /\ Len(r) = (i - 1) + (n - i)
      /\ \A k \in 1 .. (i - 1) : r[k] = a[k]
      /\ \A k \in 1 .. (n - i) : r[(i - 1) + k] = b[k]
    <2>1. r \in Seq(D) /\ Len(r) = Len(a) + Len(b)
        BY <1>2, <1>3, ConcatSeq
    <2>2. /\ \A k \in 1 .. Len(a) : r[k] = a[k]
          /\ \A k \in 1 .. Len(b) : r[Len(a) + k] = b[k]
        BY <1>2, <1>3
    <2> HIDE DEF r
    <2> QED BY <1>2, <1>3, <2>1, <2>2
<1> HIDE DEF r
<1>7. ASSUME NEW k \in i .. (n - 1)
      PROVE  s[k + 1] = r[k]
    <2>1. /\ k - (i - 1) \in 1 .. (n - i) /\ i + (k - (i - 1)) = k + 1
          /\ (i - 1) + (k - (i - 1)) = k
        BY <1>1
    <2> QED BY <1>3, <1>4, <2>1
<1>8. n = Len(r) + 1 /\ (i - 1) + 1 = i
    BY <1>1, <1>4
<1>9. r \in Seq(D) /\ Inserted(r, s, i - 1, s[i])
    <2>1. \A k \in 1 .. (i - 1) : s[k] = r[k]
        BY <1>2, <1>4
    <2>2. \A k \in ((i - 1) + 1) .. Len(r) : s[k + 1] = r[k]
        BY <1>1, <1>7, <1>8
    <2> QED BY <1>4, <1>8, <2>1, <2>2 DEF Inserted, n
<1> QED BY <1>9 DEF r, a, b

\* The place to insert at is found.
LEMMA PlaceFacts ==
    ASSUME NEW l \in List, Distinct(l), NEW prev, Has(l, prev), NEW at \in Nat
    PROVE  LET i == FindNextBeforeExecutedAt(l, prev, at)
           IN  /\ i \in IndexOf(l, prev) .. Len(l.nodes)
               /\ i < Len(l.nodes) => PositionedAt(l.nodes[i + 1]) <= at
               /\ \A j \in (IndexOf(l, prev) + 1) .. i : PositionedAt(l.nodes[j]) > at
<1> DEFINE n == Len(l.nodes)
           p == IndexOf(l, prev)
           P(j) == PositionedAt(l.nodes[j])
           T == {i \in p .. n : i < n => P(i + 1) <= at}
<1>1. n \in Nat /\ p \in Nat /\ p <= n
    <2>1. n \in Nat
        BY IndexFacts
    <2>2. prev = 0 \/ prev # 0
        OBVIOUS
    <2> QED BY <2>1, <2>2, IndexFacts
<1>2. \A j \in 1 .. n : P(j) \in Nat
    <2> SUFFICES ASSUME NEW j \in 1 .. n PROVE P(j) \in Nat
        OBVIOUS
    <2>1. l.nodes[j] \in Node
        BY IndexFacts
    <2> QED BY <2>1 DEF Node, PositionedAt
<1> HIDE DEF n, p, P
<1>3. n \in T /\ T \subseteq Nat
    BY <1>1
<1>4. PICK i \in T : \A j \in T : i <= j
    <2> HIDE DEF T
    <2> QED BY <1>3, LeastNatural
<1>5. ASSUME NEW j \in (p + 1) .. i
      PROVE  P(j) > at
    <2>1. j - 1 \in p .. n /\ ~(i <= j - 1) /\ j - 1 < n /\ (j - 1) + 1 = j /\ j \in 1 .. n
        BY <1>1, <1>4
    <2>2. ~(P(j) <= at)
        BY <1>4, <2>1
    <2> QED BY <1>2, <2>1, <2>2
<1>6. i \in p .. n /\ (i < n => P(i + 1) <= at) /\ \A j \in (p + 1) .. i : P(j) > at
    BY <1>4, <1>5
<1>7. FindNextBeforeExecutedAt(l, prev, at) =
        CHOOSE m \in p .. n : (m < n => P(m + 1) <= at) /\ \A j \in (p + 1) .. m : P(j) > at
    BY DEF FindNextBeforeExecutedAt, p, n, P
<1> DEFINE Q(m) == (m < n => P(m + 1) <= at) /\ \A j \in (p + 1) .. m : P(j) > at
<1>8. i \in p .. n /\ Q(i)
    BY <1>6
<1> HIDE DEF Q
<1>9. (CHOOSE m \in p .. n : Q(m)) \in p .. n /\ Q(CHOOSE m \in p .. n : Q(m))
    BY <1>8
<1>10. FindNextBeforeExecutedAt(l, prev, at) \in p .. n /\ Q(FindNextBeforeExecutedAt(l, prev, at))
    BY <1>7, <1>9 DEF Q
<1> QED BY <1>10 DEF Q, n, p, P

\* InsertAfter inserts the node there.
LEMMA InsertFacts ==
    ASSUME NEW l \in List, Distinct(l), NEW prev, Has(l, prev), NEW node \in Node, NEW at \in Nat
    PROVE  LET i == FindNextBeforeExecutedAt(l, prev, at)
               r == InsertAfter(l, prev, node, at)
           IN  /\ i \in 0 .. Len(l.nodes) /\ IndexOf(l, prev) <= i
               /\ r \in List
               /\ Inserted(l.nodes, r.nodes, i, node)
<1> DEFINE i == FindNextBeforeExecutedAt(l, prev, at)
           s == SubSeq(l.nodes, 1, i) \o <<node>> \o SubSeq(l.nodes, i + 1, Len(l.nodes))
<1>1. l.nodes \in Seq(Node) /\ l.size \in Int /\ Len(l.nodes) \in Nat
    BY DEF List
<1>2. IndexOf(l, prev) \in Nat
    <2>1. prev = 0 \/ prev # 0
        OBVIOUS
    <2> QED BY <2>1, IndexFacts
<1>3. i \in 0 .. Len(l.nodes) /\ IndexOf(l, prev) <= i
    <2>1. i \in IndexOf(l, prev) .. Len(l.nodes)
        BY PlaceFacts
    <2> HIDE DEF i
    <2> QED BY <1>1, <1>2, <2>1
<1>4. InsertAfter(l, prev, node, at) = [nodes |-> s, size |-> l.size + 1]
    BY DEF InsertAfter
<1> HIDE DEF i
<1>5. s \in Seq(Node) /\ Inserted(l.nodes, s, i, node)
    BY <1>1, <1>3, InsertSeq
<1> HIDE DEF s
<1>6. [nodes |-> s, size |-> l.size + 1] \in List
    BY <1>1, <1>5 DEF List
<1> QED BY <1>3, <1>4, <1>5, <1>6 DEF i

\* What it makes of the places of the elements.
LEMMA InsertedFacts ==
    ASSUME NEW l \in List, NEW r \in List, Distinct(l), NEW i \in 0 .. Len(l.nodes), NEW x,
           Inserted(l.nodes, r.nodes, i, x),
           \A k \in 1 .. Len(l.nodes) : l.nodes[k].createdAt # x.createdAt
    PROVE  /\ Distinct(r)
           /\ IndexOf(r, x.createdAt) = i + 1
           /\ \A t : Has(l, t) =>
                 /\ Has(r, t)
                 /\ IndexOf(r, t) = IF IndexOf(l, t) <= i THEN IndexOf(l, t) ELSE IndexOf(l, t) + 1
           /\ \A k \in 1 .. Len(r.nodes) :
                 \/ r.nodes[k] = x
                 \/ \E j \in 1 .. Len(l.nodes) : r.nodes[k] = l.nodes[j]
           /\ CreatedAts(r) = CreatedAts(l) \cup {x.createdAt}
<1> DEFINE n == Len(l.nodes)
           old(k) == IF k <= i THEN k ELSE k - 1
           new(k) == IF k <= i THEN k ELSE k + 1
<1>1. /\ n \in Nat /\ i \in Nat /\ i <= n /\ Len(r.nodes) = n + 1
      /\ \A k \in 1 .. i : r.nodes[k] = l.nodes[k]
      /\ r.nodes[i + 1] = x
      /\ \A k \in (i + 1) .. n : r.nodes[k + 1] = l.nodes[k]
    BY IndexFacts DEF Inserted
<1> HIDE DEF n
<1>2. ASSUME NEW k \in 1 .. (n + 1), k # i + 1
      PROVE  old(k) \in 1 .. n /\ r.nodes[k] = l.nodes[old(k)]
    <2>1. CASE k <= i
        BY <1>1, <2>1
    <2>2. CASE ~(k <= i)
        <3>1. k - 1 \in (i + 1) .. n /\ (k - 1) + 1 = k /\ k - 1 \in 1 .. n
            BY <1>1, <1>2, <2>2
        <3> QED BY <1>1, <2>2, <3>1
    <2> QED BY <2>1, <2>2
<1>3. ASSUME NEW k \in 1 .. n
      PROVE  new(k) \in 1 .. (n + 1) /\ new(k) # i + 1 /\ r.nodes[new(k)] = l.nodes[k]
    <2>1. CASE k <= i
        BY <1>1, <2>1
    <2>2. CASE ~(k <= i)
        <3>1. k \in (i + 1) .. n
            BY <1>1, <2>2
        <3> QED BY <1>1, <2>2, <3>1
    <2> QED BY <2>1, <2>2
<1>4. \A j, k \in 1 .. (n + 1) : j # i + 1 /\ k # i + 1 /\ old(j) = old(k) => j = k
    BY <1>1
<1> HIDE DEF old, new
<1>5. Distinct(r)
    <2> SUFFICES ASSUME NEW j \in 1 .. (n + 1), NEW k \in 1 .. (n + 1),
                        r.nodes[j].createdAt = r.nodes[k].createdAt
                 PROVE  j = k
        BY <1>1 DEF Distinct
    <2>1. CASE j = i + 1 \/ k = i + 1
        BY <1>1, <1>2, <2>1 DEF n
    <2>2. CASE j # i + 1 /\ k # i + 1
        <3>1. old(j) \in 1 .. n /\ old(k) \in 1 .. n
              /\ l.nodes[old(j)].createdAt = l.nodes[old(k)].createdAt
            BY <1>2, <2>2
        <3>2. old(j) = old(k)
            BY <3>1 DEF Distinct, n
        <3> QED BY <1>4, <2>2, <3>2
    <2> QED BY <2>1, <2>2
<1>6. \A k \in 1 .. (n + 1) : IndexOf(r, r.nodes[k].createdAt) = k
    BY <1>1, <1>5, IndexFacts
<1>7. IndexOf(r, x.createdAt) = i + 1
    <2>1. i + 1 \in 1 .. (n + 1)
        BY <1>1
    <2> QED BY <1>1, <1>6, <2>1
<1>8. ASSUME NEW t, Has(l, t)
      PROVE  /\ Has(r, t)
             /\ IndexOf(r, t) = IF IndexOf(l, t) <= i THEN IndexOf(l, t) ELSE IndexOf(l, t) + 1
    <2>1. CASE t = 0
        <3>1. IndexOf(l, t) = 0 /\ IndexOf(r, t) = 0
            BY <1>5, <2>1, IndexFacts
        <3> QED BY <1>1, <2>1, <3>1 DEF Has, InitialTicket
    <2>2. CASE t # 0
        <3> DEFINE k == IndexOf(l, t)
        <3>1. k \in 1 .. n /\ l.nodes[k].createdAt = t
            BY <1>8, <2>2, IndexFacts DEF n
        <3> HIDE DEF k
        <3>2. new(k) \in 1 .. (n + 1) /\ r.nodes[new(k)].createdAt = t
            BY <1>3, <3>1
        <3>3. IndexOf(r, t) = new(k)
            BY <1>6, <3>2
        <3>4. Has(r, t)
            <4>1. DOMAIN r.nodes = 1 .. (n + 1)
                BY <1>1, <1>5, IndexFacts
            <4> QED BY <3>2, <4>1 DEF Has
        <3> QED BY <3>3, <3>4 DEF new, k
    <2> QED BY <2>1, <2>2
<1>9. \A k \in 1 .. (n + 1) : r.nodes[k] = x \/ \E j \in 1 .. n : r.nodes[k] = l.nodes[j]
    BY <1>1, <1>2
<1>10. {r.nodes[k].createdAt : k \in 1 .. (n + 1)} =
         {l.nodes[k].createdAt : k \in 1 .. n} \cup {x.createdAt}
    <2>1. i + 1 \in 1 .. (n + 1)
        BY <1>1
    <2>2. \A k \in 1 .. n : \E j \in 1 .. (n + 1) : r.nodes[j] = l.nodes[k]
        BY <1>3
    <2>3. ASSUME NEW k \in 1 .. (n + 1)
          PROVE  r.nodes[k].createdAt \in
                    {l.nodes[j].createdAt : j \in 1 .. n} \cup {x.createdAt}
        BY <1>9
    <2>4. ASSUME NEW k \in 1 .. n
          PROVE  l.nodes[k].createdAt \in {r.nodes[j].createdAt : j \in 1 .. (n + 1)}
        <3>1. PICK j \in 1 .. (n + 1) : r.nodes[j] = l.nodes[k]
            BY <2>2
        <3>2. l.nodes[k].createdAt = r.nodes[j].createdAt
            BY <3>1
        <3> QED BY <3>2
    <2>5. x.createdAt \in {r.nodes[j].createdAt : j \in 1 .. (n + 1)}
        BY <1>1, <2>1
    <2> QED BY <2>3, <2>4, <2>5
<1> QED BY <1>1, <1>5, <1>7, <1>8, <1>9, <1>10 DEF n, CreatedAts

\* And what taking the node away makes of them.
LEMMA ReleasedFacts ==
    ASSUME NEW l \in List, NEW r \in List, Distinct(l), NEW i \in 0 .. Len(r.nodes), NEW x,
           Inserted(r.nodes, l.nodes, i, x)
    PROVE  /\ Distinct(r)
           /\ \A k \in 1 .. Len(r.nodes) : r.nodes[k].createdAt # x.createdAt
           /\ \A k \in 1 .. Len(r.nodes) : \E j \in 1 .. Len(l.nodes) : r.nodes[k] = l.nodes[j]
           /\ CreatedAts(r) = CreatedAts(l) \ {x.createdAt}
<1> DEFINE n == Len(r.nodes)
           new(k) == IF k <= i THEN k ELSE k + 1
<1>1. /\ n \in Nat /\ i \in Nat /\ i <= n /\ Len(l.nodes) = n + 1
      /\ \A k \in 1 .. i : l.nodes[k] = r.nodes[k]
      /\ l.nodes[i + 1] = x
      /\ \A k \in (i + 1) .. n : l.nodes[k + 1] = r.nodes[k]
    <2>1. r.nodes \in Seq(Node)
        BY DEF List
    <2> QED BY <2>1 DEF Inserted
<1> HIDE DEF n
<1>2. ASSUME NEW k \in 1 .. n
      PROVE  new(k) \in 1 .. (n + 1) /\ new(k) # i + 1 /\ l.nodes[new(k)] = r.nodes[k]
    <2>1. CASE k <= i
        BY <1>1, <2>1
    <2>2. CASE ~(k <= i)
        <3>1. k \in (i + 1) .. n
            BY <1>1, <2>2
        <3> QED BY <1>1, <2>2, <3>1
    <2> QED BY <2>1, <2>2
<1>3. \A j, k \in 1 .. n : new(j) = new(k) => j = k
    BY <1>1
<1>4. ASSUME NEW k \in 1 .. (n + 1), k # i + 1
      PROVE  \E j \in 1 .. n : l.nodes[k] = r.nodes[j]
    <2>1. CASE k <= i
        <3>1. k \in 1 .. i /\ k \in 1 .. n
            BY <1>1, <2>1
        <3> QED BY <1>1, <3>1
    <2>2. CASE ~(k <= i)
        <3>1. k - 1 \in (i + 1) .. n /\ (k - 1) + 1 = k /\ k - 1 \in 1 .. n
            BY <1>1, <1>4, <2>2
        <3> QED BY <1>1, <3>1
    <2> QED BY <2>1, <2>2
<1> HIDE DEF new
<1>5. i + 1 \in 1 .. (n + 1)
    BY <1>1
<1>6. \A k \in 1 .. n : r.nodes[k].createdAt # x.createdAt
    BY <1>1, <1>2, <1>5 DEF Distinct
<1>7. Distinct(r)
    <2> SUFFICES ASSUME NEW j \in 1 .. n, NEW k \in 1 .. n,
                        r.nodes[j].createdAt = r.nodes[k].createdAt
                 PROVE  j = k
        BY DEF Distinct, n
    <2>1. /\ new(j) \in 1 .. Len(l.nodes) /\ new(k) \in 1 .. Len(l.nodes)
          /\ l.nodes[new(j)].createdAt = l.nodes[new(k)].createdAt
        BY <1>1, <1>2
    <2>2. new(j) = new(k)
        BY <2>1 DEF Distinct
    <2> QED BY <1>3, <2>2
<1>8. \A k \in 1 .. n : \E j \in 1 .. (n + 1) : r.nodes[k] = l.nodes[j]
    BY <1>2
<1>9. {r.nodes[k].createdAt : k \in 1 .. n} =
        {l.nodes[k].createdAt : k \in 1 .. (n + 1)} \ {x.createdAt}
    <2>1. ASSUME NEW k \in 1 .. n
          PROVE  /\ r.nodes[k].createdAt \in {l.nodes[j].createdAt : j \in 1 .. (n + 1)}
                 /\ r.nodes[k].createdAt # x.createdAt
        <3>1. PICK j \in 1 .. (n + 1) : r.nodes[k] = l.nodes[j]
            BY <1>8
        <3>2. r.nodes[k].createdAt = l.nodes[j].createdAt
            BY <3>1
        <3> QED BY <1>6, <3>2
    <2>2. ASSUME NEW k \in 1 .. (n + 1), l.nodes[k].createdAt # x.createdAt
          PROVE  l.nodes[k].createdAt \in {r.nodes[j].createdAt : j \in 1 .. n}
        <3>1. k # i + 1
            BY <1>1, <2>2
        <3>2. PICK j \in 1 .. n : l.nodes[k] = r.nodes[j]
            BY <1>4, <3>1
        <3>3. l.nodes[k].createdAt = r.nodes[j].createdAt
            BY <3>2
        <3> QED BY <3>3
    <2> QED BY <2>1, <2>2
<1> QED BY <1>1, <1>6, <1>7, <1>8, <1>9 DEF n, CreatedAts

\* Release takes it away.
LEMMA ReleaseFacts ==
    ASSUME NEW l \in List, Distinct(l), NEW t, IndexOf(l, t) \in 1 .. Len(l.nodes)
    PROVE  LET i == IndexOf(l, t)
               r == Release(l, t)
           IN  r \in List /\ Inserted(r.nodes, l.nodes, i - 1, l.nodes[i])
<1> DEFINE i == IndexOf(l, t)
           s == SubSeq(l.nodes, 1, i - 1) \o SubSeq(l.nodes, i + 1, Len(l.nodes))
           z == IF IsRemoved(l.nodes[i]) THEN l.size ELSE l.size - 1
<1>1. l.nodes \in Seq(Node) /\ l.size \in Int
    BY DEF List
<1>2. Release(l, t) = [nodes |-> s, size |-> z]
    BY DEF Release
<1> HIDE DEF i
<1>3. s \in Seq(Node) /\ Inserted(s, l.nodes, i - 1, l.nodes[i])
    BY <1>1, ReleaseSeq DEF i
<1>4. z \in Int
    BY <1>1
<1> HIDE DEF s, z
<1>5. [nodes |-> s, size |-> z] \in List
    BY <1>3, <1>4 DEF List
<1> QED BY <1>2, <1>3, <1>5 DEF i

-----------------------------------------------------------------------------
(***************************************************************************)
(* The operations                                                          *)
(***************************************************************************)

\* The operation of each kind.
LEMMA ExecuteKinds ==
    ASSUME NEW l, NEW op, NEW at
    PROVE  /\ op.kind = "add" => ArrayExecute(l, op, at) = ExecuteAdd(l, op, at)
           /\ op.kind = "move" => ArrayExecute(l, op, at) = ExecuteMove(l, op, at)
           /\ op.kind = "remove" => ArrayExecute(l, op, at) = ExecuteRemove(l, op, at)
BY DEF ArrayExecute

\* The elements of an array are those that were added.
LEMMA HasAdded ==
    ASSUME NEW l \in List, NEW S, ArrayValue(l, S), NEW t
    PROVE  Has(l, t) <=> t \in {0} \cup Added(S)
<1>1. DOMAIN l.nodes = 1 .. Len(l.nodes)
    BY IndexFacts DEF ArrayValue
<1>2. {l.nodes[i].createdAt : i \in 1 .. Len(l.nodes)} = Added(S)
    BY DEF ArrayValue, CreatedAts
<1> QED BY <1>1, <1>2 DEF Has, InitialTicket

\* Tickets of changes, which tell them apart.
LEMMA NewTicket ==
    ASSUME NEW l \in List, NEW S, S \subseteq Change, ArrayValue(l, S),
           NEW e \in Change, \A f \in S : ~SameId(e, f)
    PROVE  /\ At(e) \in Nat \ {0} /\ At(e) \notin Added(S)
           /\ \A f \in S : At(f) \in Nat \ {0} /\ At(f) # At(e)
<1>1. \A f \in Change : At(f) \in Nat \ {0}
    <2> SUFFICES ASSUME NEW f \in Change PROVE At(f) \in Nat \ {0}
        OBVIOUS
    <2>1. f.lamport \in Nat \ {0} /\ f.actor \in Clients
        BY DEF Change
    <2> QED BY <2>1, TicketType DEF At
<1>2. \A f \in S : At(f) # At(e)
    BY TicketUnique
<1>3. At(e) \notin Added(S)
    <2> SUFFICES ASSUME NEW f \in S, f.op.kind = "add", f.op.elem = At(e)
                 PROVE  FALSE
        BY DEF Added
    <2>1. f.op.elem = At(f)
        BY DEF ArrayValue
    <2> QED BY <1>2, <2>1
<1> QED BY <1>1, <1>2, <1>3

\* A change that does not name the element changes nothing of it.
LEMMA NamedSame ==
    ASSUME NEW S, NEW e, NEW kind, NEW t, e.op.kind # kind \/ e.op.elem # t
    PROVE  Named(S \cup {e}, kind, t) = Named(S, kind, t)
BY DEF Named

LEMMA AddPlaces ==
    ASSUME NEW l \in List, NEW S, S \subseteq Change, ArrayValue(l, S), Ordered(l, S),
           NEW e \in Change, ArrayGround(e, S), \A f \in S : ~SameId(e, f), e.op.kind = "add",
           NEW r \in List, NEW i \in 0 .. Len(l.nodes),
           Inserted(l.nodes, r.nodes, i, NewNode(At(e))),
           IndexOf(l, e.op.prev) <= i,
           i < Len(l.nodes) => l.nodes[i + 1].createdAt <= At(e),
           \A j \in (IndexOf(l, e.op.prev) + 1) .. i : l.nodes[j].createdAt > At(e)
    PROVE  Ordered(r, S \cup {e})
<1> DEFINE n == Len(l.nodes)
           x == At(e)
           C(k) == l.nodes[k].createdAt
<1>1. Distinct(l) /\ x \in Nat \ {0} /\ x \notin Added(S)
    BY NewTicket DEF ArrayValue
<1>2. NewNode(x).createdAt = x
    BY DEF NewNode
<1>3. \A k \in 1 .. n : C(k) # x /\ C(k) \in Nat
    <2>1. {l.nodes[k].createdAt : k \in 1 .. Len(l.nodes)} = Added(S)
        BY DEF ArrayValue, CreatedAts
    <2>2. \A k \in 1 .. n : l.nodes[k] \in Node
        BY <1>1, IndexFacts
    <2> QED BY <1>1, <2>1, <2>2 DEF Node
<1>4. /\ Distinct(r) /\ IndexOf(r, x) = i + 1
      /\ \A t : Has(l, t) =>
            IndexOf(r, t) = IF IndexOf(l, t) <= i THEN IndexOf(l, t) ELSE IndexOf(l, t) + 1
    BY <1>1, <1>2, <1>3, InsertedFacts
<1>5. /\ n \in Nat /\ i \in Nat /\ i <= n /\ Len(r.nodes) = n + 1
      /\ \A k \in 1 .. i : r.nodes[k].createdAt = C(k)
      /\ r.nodes[i + 1].createdAt = x
      /\ \A k \in (i + 1) .. n : r.nodes[k + 1].createdAt = C(k)
    <2>1. n \in Nat
        BY <1>1, IndexFacts
    <2> QED BY <1>2, <2>1 DEF Inserted
<1>6. \A t : t \in {0} \cup Added(S) => Has(l, t)
    BY HasAdded
<1>7. \A t : Has(l, t) => IndexOf(l, t) \in 0 .. n /\ (t # 0 => IndexOf(l, t) \in 1 .. n)
    <2> SUFFICES ASSUME NEW t, Has(l, t)
                 PROVE  IndexOf(l, t) \in 0 .. n /\ (t # 0 => IndexOf(l, t) \in 1 .. n)
        OBVIOUS
    <2>1. CASE t = 0
        BY <1>1, <1>5, <2>1, IndexFacts
    <2>2. CASE t # 0
        BY <1>1, <1>5, <2>2, IndexFacts
    <2> QED BY <2>1, <2>2
<1> HIDE DEF n, x, C
<1>8. ASSUME NEW f \in S, f.op.kind = "add"
      PROVE  PlacedAfter(r, f.op.prev, f.op.elem)
    <2> DEFINE p == f.op.prev
               y == f.op.elem
               a == IndexOf(l, p)
               b == IndexOf(l, y)
    <2>1. p \in {0} \cup Added(S) /\ y \in Added(S) /\ y \in Nat \ {0} /\ y # x
        <3>1. y = At(f) /\ p \in {0} \cup Added(S)
            BY <1>8 DEF ArrayValue
        <3>2. At(f) \in Nat \ {0} /\ At(f) # x
            BY NewTicket DEF x
        <3>3. y \in Added(S)
            BY <1>8 DEF Added
        <3> QED BY <3>1, <3>2, <3>3
    <2>2. Has(l, p) /\ Has(l, y)
        BY <1>6, <2>1
    <2>3. PlacedAfter(l, p, y)
        BY <1>8 DEF Ordered
    <2> HIDE DEF p, y
    <2>4. a \in 0 .. n /\ b \in 1 .. n /\ C(b) = y
        BY <1>1, <1>7, <2>1, <2>2, IndexFacts DEF C
    <2>5. a < b /\ \A k \in 1 .. n : a < k /\ k < b => C(k) > y
        BY <2>3 DEF PlacedAfter, n, C
    <2>6. /\ IndexOf(r, p) = IF a <= i THEN a ELSE a + 1
          /\ IndexOf(r, y) = IF b <= i THEN b ELSE b + 1
        BY <1>4, <2>2
    <2> HIDE DEF a, b
    <2>7. IndexOf(r, p) < IndexOf(r, y)
        BY <1>5, <2>4, <2>5, <2>6
    <2>8. ASSUME a <= i, i < b
          PROVE  x > y
        <3>1. i + 1 \in 1 .. n /\ i < n
            BY <1>5, <2>4, <2>8
        <3>2. C(i + 1) <= x
            BY <3>1 DEF C, n, x
        <3>3. CASE i + 1 = b
            BY <1>1, <2>1, <2>4, <3>2, <3>3
        <3>4. CASE i + 1 # b
            <4>1. a < i + 1 /\ i + 1 < b
                BY <1>5, <2>4, <2>8, <3>4
            <4>2. C(i + 1) > y
                BY <2>5, <3>1, <4>1
            <4> QED BY <1>1, <1>3, <2>1, <3>1, <3>2, <4>2
        <3> QED BY <3>3, <3>4
    <2>9. ASSUME NEW k \in 1 .. (n + 1), IndexOf(r, p) < k, k < IndexOf(r, y)
          PROVE  r.nodes[k].createdAt > y
        <3>1. CASE k <= i
            <4>1. k \in 1 .. i /\ k \in 1 .. n /\ a < k /\ k < b
                BY <1>5, <2>4, <2>6, <2>9, <3>1
            <4> QED BY <1>5, <2>5, <4>1
        <3>2. CASE k = i + 1
            <4>1. a <= i /\ i < b
                BY <1>5, <2>4, <2>6, <2>9, <3>2
            <4> QED BY <1>5, <2>8, <3>2, <4>1
        <3>3. CASE k > i + 1
            <4> DEFINE j == k - 1
            <4>1. j \in (i + 1) .. n /\ j + 1 = k /\ j \in 1 .. n /\ a < j /\ j < b
                BY <1>5, <2>4, <2>6, <2>9, <3>3
            <4> HIDE DEF j
            <4>2. r.nodes[k].createdAt = C(j)
                BY <1>5, <4>1
            <4> QED BY <2>5, <4>1, <4>2
        <3> QED BY <1>5, <2>9, <3>1, <3>2, <3>3
    <2> QED BY <1>5, <2>7, <2>9 DEF PlacedAfter, p, y
<1>9. PlacedAfter(r, e.op.prev, e.op.elem)
    <2> DEFINE p == e.op.prev
               a == IndexOf(l, p)
    <2>1. e.op.elem = x /\ p \in {0} \cup Added(S)
        BY DEF ArrayGround, x
    <2>2. Has(l, p)
        BY <1>6, <2>1
    <2>3. a \in 0 .. n /\ a <= i
        BY <1>7, <2>2
    <2>4. IndexOf(r, p) = a
        BY <1>4, <2>2, <2>3
    <2>5. \A j \in (a + 1) .. i : C(j) > x
        BY DEF C, x
    <2> HIDE DEF p, a
    <2>6. ASSUME NEW k \in 1 .. (n + 1), a < k, k < i + 1
          PROVE  r.nodes[k].createdAt > x
        <3>1. k \in (a + 1) .. i /\ k \in 1 .. i
            BY <1>5, <2>3, <2>6
        <3> QED BY <1>5, <2>5, <3>1
    <2>7. a < i + 1
        BY <1>5, <2>3
    <2> QED BY <1>4, <1>5, <2>1, <2>4, <2>6, <2>7 DEF PlacedAfter, p
<1> QED BY <1>8, <1>9 DEF Ordered

\* Add.
LEMMA AddValue ==
    ASSUME NEW l \in List, NEW S, S \subseteq Change, ArrayValue(l, S),
           NEW e \in Change, ArrayGround(e, S), \A f \in S : ~SameId(e, f),
           e.op.kind = "add", Has(l, e.op.prev)
    PROVE  /\ ArrayExecute(l, e.op, At(e)) \in List
           /\ ArrayValue(ArrayExecute(l, e.op, At(e)), S \cup {e})
<1> DEFINE x == At(e)
           p == e.op.prev
           node == NewNode(x)
           r == InsertAfter(l, p, node, x)
           i == FindNextBeforeExecutedAt(l, p, x)
<1>1. x \in Nat \ {0} /\ x \notin Added(S) /\ \A f \in S : At(f) # x
    BY NewTicket
<1>2. e.op.elem = x /\ p \in {0} \cup Added(S) /\ p < x
    BY DEF ArrayGround
<1>3. ArrayExecute(l, e.op, At(e)) = r
    BY <1>2, ExecuteKinds DEF ExecuteAdd
<1>4. Distinct(l) /\ CreatedAts(l) = Added(S)
    BY DEF ArrayValue
<1> HIDE DEF x
<1>5. /\ node \in Node /\ node.createdAt = x /\ node.movedAt = Nil /\ node.removedAt = Nil
    BY <1>1 DEF NewNode, Node
<1> HIDE DEF node, p
<1>6. /\ i \in 0 .. Len(l.nodes) /\ IndexOf(l, p) <= i /\ r \in List
      /\ Inserted(l.nodes, r.nodes, i, node)
    BY <1>1, <1>4, <1>5, InsertFacts DEF p
<1>7. /\ i < Len(l.nodes) => PositionedAt(l.nodes[i + 1]) <= x
      /\ \A j \in (IndexOf(l, p) + 1) .. i : PositionedAt(l.nodes[j]) > x
    BY <1>1, <1>4, PlaceFacts DEF p
<1> HIDE DEF r, i
<1>8. \A k \in 1 .. Len(l.nodes) : l.nodes[k].createdAt # node.createdAt
    BY <1>1, <1>4, <1>5 DEF CreatedAts
<1>9. /\ Distinct(r)
      /\ \A k \in 1 .. Len(r.nodes) :
            r.nodes[k] = node \/ \E j \in 1 .. Len(l.nodes) : r.nodes[k] = l.nodes[j]
      /\ CreatedAts(r) = Added(S) \cup {x}
    <2>1. /\ Distinct(r)
          /\ \A k \in 1 .. Len(r.nodes) :
                r.nodes[k] = node \/ \E j \in 1 .. Len(l.nodes) : r.nodes[k] = l.nodes[j]
          /\ CreatedAts(r) = CreatedAts(l) \cup {node.createdAt}
        BY <1>4, <1>6, <1>8, InsertedFacts
    <2> QED BY <1>4, <1>5, <2>1
<1>10. Added(S \cup {e}) = Added(S) \cup {x}
    BY <1>2 DEF Added
<1>11. \A kind, t : kind # "add" => Named(S \cup {e}, kind, t) = Named(S, kind, t)
    BY NamedSame
<1>12. \A kind \in {"move", "remove"} : Named(S, kind, x) = {}
    BY <1>1 DEF Named, ArrayValue
<1>13. ASSUME NEW k \in 1 .. Len(r.nodes)
       PROVE  /\ LatestIs(S \cup {e}, "move", r.nodes[k].createdAt, r.nodes[k].movedAt)
              /\ LatestIs(S \cup {e}, "remove", r.nodes[k].createdAt, r.nodes[k].removedAt)
    <2>1. CASE r.nodes[k] = node
        BY <1>5, <1>11, <1>12, <2>1 DEF LatestIs
    <2>2. ASSUME NEW j \in 1 .. Len(l.nodes), r.nodes[k] = l.nodes[j]
          PROVE  /\ LatestIs(S \cup {e}, "move", r.nodes[k].createdAt, r.nodes[k].movedAt)
                 /\ LatestIs(S \cup {e}, "remove", r.nodes[k].createdAt, r.nodes[k].removedAt)
        <3>1. /\ LatestIs(S, "move", l.nodes[j].createdAt, l.nodes[j].movedAt)
              /\ LatestIs(S, "remove", l.nodes[j].createdAt, l.nodes[j].removedAt)
            BY DEF ArrayValue
        <3> QED BY <1>11, <2>2, <3>1 DEF LatestIs
    <2> QED BY <1>9, <2>1, <2>2
<1>14. ASSUME \A f \in S \cup {e} : f.op.kind # "move"
       PROVE  Ordered(r, S \cup {e})
    <2>1. Ordered(l, S)
        BY <1>14 DEF ArrayValue
    <2>2. \A k \in 1 .. Len(l.nodes) : PositionedAt(l.nodes[k]) = l.nodes[k].createdAt
        <3> SUFFICES ASSUME NEW k \in 1 .. Len(l.nodes)
                     PROVE  PositionedAt(l.nodes[k]) = l.nodes[k].createdAt
            OBVIOUS
        <3>1. Named(S, "move", l.nodes[k].createdAt) = {}
            BY <1>14 DEF Named
        <3>2. l.nodes[k].movedAt = Nil
            BY <3>1 DEF ArrayValue, LatestIs
        <3> QED BY <3>2 DEF PositionedAt
    <2>3. Len(l.nodes) \in Nat /\ IndexOf(l, p) \in Nat
        <3>1. p = 0 \/ p # 0
            OBVIOUS
        <3> QED BY <1>4, <3>1, IndexFacts DEF p
    <2>4. i < Len(l.nodes) => i + 1 \in 1 .. Len(l.nodes)
        BY <1>6, <2>3
    <2>5. \A j \in (IndexOf(l, p) + 1) .. i : j \in 1 .. Len(l.nodes)
        BY <1>6, <2>3
    <2>6. /\ i < Len(l.nodes) => l.nodes[i + 1].createdAt <= At(e)
          /\ \A j \in (IndexOf(l, e.op.prev) + 1) .. i : l.nodes[j].createdAt > At(e)
        BY <1>7, <2>2, <2>4, <2>5 DEF x, p
    <2>7. Inserted(l.nodes, r.nodes, i, NewNode(At(e))) /\ IndexOf(l, e.op.prev) <= i
        BY <1>6 DEF node, x, p
    <2> QED BY <1>6, <2>1, <2>6, <2>7, AddPlaces
<1>15. \A f \in S \cup {e} : f.op.kind = "add" =>
         /\ f.op.elem = At(f)
         /\ f.op.prev \in {0} \cup Added(S \cup {e}) /\ f.op.prev < f.op.elem
    BY <1>2, <1>10 DEF ArrayValue, x, p
<1>16. \A f \in S \cup {e} : f.op.kind \in {"move", "remove"} => f.op.elem \in Added(S \cup {e})
    BY <1>10 DEF ArrayValue
<1>17. ArrayValue(r, S \cup {e})
    BY <1>9, <1>10, <1>13, <1>14, <1>15, <1>16 DEF ArrayValue
<1> QED BY <1>3, <1>6, <1>17

\* The latest of the changes that name an element, when one more does.
LEMMA LatestNext ==
    ASSUME NEW S, S \subseteq Change, NEW e \in Change, NEW kind, NEW t, NEW at,
           e.op.kind = kind, e.op.elem = t, LatestIs(S, kind, t, at)
    PROVE  /\ at = Nil \/ At(e) > at => LatestIs(S \cup {e}, kind, t, At(e))
           /\ ~(at = Nil \/ At(e) > at) => LatestIs(S \cup {e}, kind, t, at)
<1>1. \A f \in Change : At(f) \in Nat
    <2> SUFFICES ASSUME NEW f \in Change PROVE At(f) \in Nat
        OBVIOUS
    <2>1. f.lamport \in Nat \ {0} /\ f.actor \in Clients
        BY DEF Change
    <2> QED BY <2>1, TicketType DEF At
<1>2. Named(S \cup {e}, kind, t) = Named(S, kind, t) \cup {e}
    BY DEF Named
<1>3. Named(S, kind, t) \subseteq Change
    BY DEF Named
<1>4. CASE Named(S, kind, t) = {} /\ at = Nil
    <2>1. LatestIs(S \cup {e}, kind, t, At(e))
        BY <1>1, <1>2, <1>4 DEF LatestIs
    <2> QED BY <1>4, <2>1
<1>5. ASSUME NEW g \in Named(S, kind, t), at = At(g), \A f \in Named(S, kind, t) : At(f) <= at
      PROVE  /\ At(e) > at => LatestIs(S \cup {e}, kind, t, At(e))
             /\ ~(At(e) > at) => LatestIs(S \cup {e}, kind, t, at)
             /\ at # Nil
    <2>1. at \in Nat /\ At(e) \in Nat /\ \A f \in Named(S, kind, t) : At(f) \in Nat
        BY <1>1, <1>3, <1>5
    <2>2. ASSUME At(e) > at
          PROVE  LatestIs(S \cup {e}, kind, t, At(e))
        <3>1. \A f \in Named(S, kind, t) \cup {e} : At(f) <= At(e)
            BY <1>5, <2>1, <2>2
        <3> QED BY <1>2, <3>1 DEF LatestIs
    <2>3. ASSUME ~(At(e) > at)
          PROVE  LatestIs(S \cup {e}, kind, t, at)
        <3>1. \A f \in Named(S, kind, t) \cup {e} : At(f) <= at
            BY <1>5, <2>1, <2>3
        <3> QED BY <1>2, <1>5, <3>1 DEF LatestIs
    <2>4. at # Nil
        BY <2>1 DEF Nil
    <2> QED BY <2>2, <2>3, <2>4
<1> QED BY <1>4, <1>5 DEF LatestIs

\* A change of a kind other than add leaves what is said of the changes alone.
LEMMA OldChanges ==
    ASSUME NEW l, NEW S, ArrayValue(l, S), NEW e, ArrayGround(e, S),
           e.op.kind \in {"move", "remove"}
    PROVE  /\ Added(S \cup {e}) = Added(S)
           /\ \A f \in S \cup {e} : f.op.kind = "add" =>
                /\ f.op.elem = At(f)
                /\ f.op.prev \in {0} \cup Added(S \cup {e}) /\ f.op.prev < f.op.elem
           /\ \A f \in S \cup {e} : f.op.kind \in {"move", "remove"} =>
                f.op.elem \in Added(S \cup {e})
<1>1. Added(S \cup {e}) = Added(S)
    BY DEF Added
<1>2. e.op.elem \in Added(S)
    BY DEF ArrayGround
<1> QED BY <1>1, <1>2 DEF ArrayValue

\* Move.
LEMMA MoveValue ==
    ASSUME NEW l \in List, NEW S, S \subseteq Change, ArrayValue(l, S),
           NEW e \in Change, ArrayGround(e, S), \A f \in S : ~SameId(e, f),
           e.op.kind = "move", ~ArrayFails(l, e.op, At(e))
    PROVE  /\ ArrayExecute(l, e.op, At(e)) \in List
           /\ ArrayValue(ArrayExecute(l, e.op, At(e)), S \cup {e})
<1> DEFINE x == At(e)
           p == e.op.prev
           t == e.op.elem
           i == IndexOf(l, t)
           r == Release(l, t)
           node == [l.nodes[i] EXCEPT !.movedAt = x]
           m == InsertAfter(r, p, node, x)
           j == FindNextBeforeExecutedAt(r, p, x)
<1>1. /\ x \in Nat \ {0}
      /\ ArrayExecute(l, e.op, x) = IF Moves(l, t, x) THEN m ELSE l
    BY NewTicket, ExecuteKinds DEF ExecuteMove, MoveAfter
<1>2. /\ t \in Added(S) /\ Has(l, p) /\ Has(l, t) /\ ~(p = t /\ Moves(l, t, x))
      /\ e.op.kind = "move"
    BY DEF ArrayGround, ArrayFails
<1>3. /\ Distinct(l) /\ CreatedAts(l) = Added(S)
      /\ \A k \in 1 .. Len(l.nodes) :
            /\ LatestIs(S, "move", l.nodes[k].createdAt, l.nodes[k].movedAt)
            /\ LatestIs(S, "remove", l.nodes[k].createdAt, l.nodes[k].removedAt)
    BY DEF ArrayValue
<1>4. t # 0
    <2>1. \A k \in 1 .. Len(l.nodes) : l.nodes[k].createdAt # 0
        BY <1>3, IndexFacts DEF Node
    <2> QED BY <1>2, <1>3, <2>1 DEF CreatedAts
<1>5. i \in 1 .. Len(l.nodes) /\ l.nodes[i].createdAt = t /\ l.nodes[i] \in Node
    BY <1>2, <1>3, <1>4, IndexFacts
<1>6. \A u : Named(S \cup {e}, "remove", u) = Named(S, "remove", u)
    BY <1>2, NamedSame
<1>7. \A u : u # t => Named(S \cup {e}, "move", u) = Named(S, "move", u)
    BY NamedSame
<1>8. /\ Moves(l, t, x) => LatestIs(S \cup {e}, "move", t, x)
      /\ ~Moves(l, t, x) => LatestIs(S \cup {e}, "move", t, l.nodes[i].movedAt)
    <2>1. LatestIs(S, "move", t, l.nodes[i].movedAt)
        BY <1>3, <1>5
    <2>2. Moves(l, t, x) <=> l.nodes[i].movedAt = Nil \/ x > l.nodes[i].movedAt
        BY DEF Moves
    <2> QED BY <1>2, <2>1, <2>2, LatestNext
<1>9. ASSUME NEW a, NEW k \in 1 .. Len(l.nodes), a = l.nodes[k], a.createdAt # t
      PROVE  /\ LatestIs(S \cup {e}, "move", a.createdAt, a.movedAt)
             /\ LatestIs(S \cup {e}, "remove", a.createdAt, a.removedAt)
    BY <1>3, <1>6, <1>7, <1>9 DEF LatestIs
<1>10. /\ Added(S \cup {e}) = Added(S)
       /\ \A f \in S \cup {e} : f.op.kind = "add" =>
            /\ f.op.elem = At(f)
            /\ f.op.prev \in {0} \cup Added(S \cup {e}) /\ f.op.prev < f.op.elem
       /\ \A f \in S \cup {e} : f.op.kind \in {"move", "remove"} =>
            f.op.elem \in Added(S \cup {e})
    BY <1>2, OldChanges
<1>11. ~\A f \in S \cup {e} : f.op.kind # "move"
    BY <1>2
<1>12. CASE ~Moves(l, t, x)
    <2>1. ASSUME NEW k \in 1 .. Len(l.nodes)
          PROVE  /\ LatestIs(S \cup {e}, "move", l.nodes[k].createdAt, l.nodes[k].movedAt)
                 /\ LatestIs(S \cup {e}, "remove", l.nodes[k].createdAt, l.nodes[k].removedAt)
        <3>1. CASE l.nodes[k].createdAt # t
            BY <1>9, <3>1
        <3>2. CASE l.nodes[k].createdAt = t
            <4>1. k = i
                BY <1>3, <1>5, <3>2 DEF Distinct
            <4>2. LatestIs(S \cup {e}, "move", t, l.nodes[k].movedAt)
                BY <1>8, <1>12, <4>1
            <4>3. LatestIs(S \cup {e}, "remove", t, l.nodes[k].removedAt)
                BY <1>3, <1>6, <3>2 DEF LatestIs
            <4> QED BY <3>2, <4>2, <4>3
        <3> QED BY <3>1, <3>2
    <2>2. ArrayValue(l, S \cup {e})
        BY <1>3, <1>10, <1>11, <2>1 DEF ArrayValue
    <2> QED BY <1>1, <1>12, <2>2
<1>13. CASE Moves(l, t, x)
    <2> HIDE DEF x, t, i
    <2>1. /\ node \in Node /\ node.createdAt = t /\ node.movedAt = x
          /\ node.removedAt = l.nodes[i].removedAt
        BY <1>1, <1>5 DEF Node
    <2> HIDE DEF node
    <2>2. r \in List /\ Inserted(r.nodes, l.nodes, i - 1, l.nodes[i])
        BY <1>3, <1>5, ReleaseFacts DEF i
    <2> DEFINE before == i - 1
    <2> HIDE DEF r
    <2>3. before \in 0 .. Len(r.nodes)
        <3>1. r.nodes \in Seq(Node) /\ Len(l.nodes) \in Nat
            BY <2>2, IndexFacts, <1>3 DEF List
        <3>2. Len(l.nodes) = Len(r.nodes) + 1 /\ Len(r.nodes) \in Nat
            BY <2>2, <3>1 DEF Inserted
        <3> QED BY <1>5, <3>2
    <2>4. /\ Distinct(r)
          /\ \A k \in 1 .. Len(r.nodes) : r.nodes[k].createdAt # t
          /\ \A k \in 1 .. Len(r.nodes) : \E q \in 1 .. Len(l.nodes) : r.nodes[k] = l.nodes[q]
          /\ CreatedAts(r) = Added(S) \ {t}
        <3>1. /\ Distinct(r)
              /\ \A k \in 1 .. Len(r.nodes) : r.nodes[k].createdAt # l.nodes[i].createdAt
              /\ \A k \in 1 .. Len(r.nodes) :
                    \E q \in 1 .. Len(l.nodes) : r.nodes[k] = l.nodes[q]
              /\ CreatedAts(r) = CreatedAts(l) \ {l.nodes[i].createdAt}
            <4>1. Inserted(r.nodes, l.nodes, before, l.nodes[i])
                BY <2>2
            <4> HIDE DEF before
            <4> QED BY <1>3, <2>2, <2>3, <4>1, ReleasedFacts
        <3> QED BY <1>3, <1>5, <3>1
    <2>5. Has(r, p)
        <3>1. p # t
            BY <1>2, <1>13 DEF t, x
        <3>2. p \in {0} \cup CreatedAts(l)
            BY <1>2, <1>3, HasAdded
        <3>3. p = 0 \/ p \in CreatedAts(r)
            BY <1>3, <2>4, <3>1, <3>2
        <3>4. DOMAIN r.nodes = 1 .. Len(r.nodes)
            BY <2>2, <2>4, IndexFacts
        <3> QED BY <3>3, <3>4 DEF Has, CreatedAts, InitialTicket
    <2> HIDE DEF p
    <2>6. /\ j \in 0 .. Len(r.nodes) /\ m \in List
          /\ Inserted(r.nodes, m.nodes, j, node)
        BY <1>1, <2>1, <2>2, <2>4, <2>5, InsertFacts
    <2> HIDE DEF m, j
    <2>7. /\ Distinct(m)
          /\ \A k \in 1 .. Len(m.nodes) :
                m.nodes[k] = node \/ \E q \in 1 .. Len(r.nodes) : m.nodes[k] = r.nodes[q]
          /\ CreatedAts(m) = CreatedAts(r) \cup {node.createdAt}
        <3>1. \A k \in 1 .. Len(r.nodes) : r.nodes[k].createdAt # node.createdAt
            BY <2>1, <2>4
        <3> QED BY <2>2, <2>4, <2>6, <3>1, InsertedFacts
    <2>8. CreatedAts(m) = Added(S)
        BY <1>2, <2>1, <2>4, <2>7 DEF t
    <2>9. ASSUME NEW k \in 1 .. Len(m.nodes)
          PROVE  /\ LatestIs(S \cup {e}, "move", m.nodes[k].createdAt, m.nodes[k].movedAt)
                 /\ LatestIs(S \cup {e}, "remove", m.nodes[k].createdAt, m.nodes[k].removedAt)
        <3>1. CASE m.nodes[k] = node
            <4>1. LatestIs(S \cup {e}, "remove", t, l.nodes[i].removedAt)
                BY <1>3, <1>5, <1>6 DEF LatestIs
            <4> QED BY <1>8, <1>13, <2>1, <3>1, <4>1
        <3>2. ASSUME NEW q \in 1 .. Len(r.nodes), m.nodes[k] = r.nodes[q]
              PROVE  /\ LatestIs(S \cup {e}, "move", m.nodes[k].createdAt, m.nodes[k].movedAt)
                     /\ LatestIs(S \cup {e}, "remove", m.nodes[k].createdAt, m.nodes[k].removedAt)
            <4>1. PICK o \in 1 .. Len(l.nodes) : r.nodes[q] = l.nodes[o]
                BY <2>4
            <4>2. m.nodes[k] = l.nodes[o] /\ m.nodes[k].createdAt # t
                BY <2>4, <3>2, <4>1
            <4> QED BY <1>9, <4>2
        <3> QED BY <2>7, <3>1, <3>2
    <2>10. ArrayValue(m, S \cup {e})
        BY <1>10, <1>11, <2>7, <2>8, <2>9 DEF ArrayValue
    <2> QED BY <1>1, <1>13, <2>6, <2>10 DEF x, t
<1> QED BY <1>12, <1>13

\* A list that differs only in what does not order it.
LEMMA SamePlaces ==
    ASSUME NEW l \in List, NEW r \in List, Len(r.nodes) = Len(l.nodes),
           \A k \in 1 .. Len(l.nodes) : r.nodes[k].createdAt = l.nodes[k].createdAt,
           Distinct(l)
    PROVE  /\ Distinct(r) /\ CreatedAts(r) = CreatedAts(l)
           /\ \A t : Has(l, t) => IndexOf(r, t) = IndexOf(l, t)
<1> DEFINE n == Len(l.nodes)
<1>1. Len(r.nodes) = n
    OBVIOUS
<1> HIDE DEF n
<1>2. Distinct(r)
    BY <1>1 DEF Distinct, n
<1>3. {r.nodes[k].createdAt : k \in 1 .. n} = {l.nodes[k].createdAt : k \in 1 .. n}
    BY DEF n
<1>4. ASSUME NEW t, Has(l, t)
      PROVE  IndexOf(r, t) = IndexOf(l, t)
    <2>1. CASE t = 0
        BY <1>2, <2>1, IndexFacts
    <2>2. CASE t # 0
        <3>1. IndexOf(l, t) \in 1 .. n /\ l.nodes[IndexOf(l, t)].createdAt = t
            BY <1>4, <2>2, IndexFacts DEF n
        <3>2. IndexOf(l, t) \in 1 .. Len(r.nodes) /\ r.nodes[IndexOf(l, t)].createdAt = t
            BY <1>1, <3>1 DEF n
        <3> QED BY <1>2, <3>2, IndexFacts
    <2> QED BY <2>1, <2>2
<1> QED BY <1>1, <1>2, <1>3, <1>4 DEF CreatedAts, n

LEMMA SameOrdered ==
    ASSUME NEW l \in List, NEW r \in List, NEW S, Distinct(l), Len(r.nodes) = Len(l.nodes),
           \A k \in 1 .. Len(l.nodes) : r.nodes[k].createdAt = l.nodes[k].createdAt,
           \A e \in S : e.op.kind = "add" => Has(l, e.op.prev) /\ Has(l, e.op.elem),
           Ordered(l, S)
    PROVE  Ordered(r, S)
<1>1. \A t : Has(l, t) => IndexOf(r, t) = IndexOf(l, t)
    BY SamePlaces
<1>2. ASSUME NEW e \in S, e.op.kind = "add"
      PROVE  PlacedAfter(r, e.op.prev, e.op.elem)
    <2>1. PlacedAfter(l, e.op.prev, e.op.elem)
        BY <1>2 DEF Ordered
    <2>2. /\ IndexOf(r, e.op.prev) = IndexOf(l, e.op.prev)
          /\ IndexOf(r, e.op.elem) = IndexOf(l, e.op.elem)
        BY <1>1, <1>2
    <2> QED BY <2>1, <2>2 DEF PlacedAfter
<1> QED BY <1>2 DEF Ordered

\* Remove.
LEMMA RemoveValue ==
    ASSUME NEW l \in List, NEW S, S \subseteq Change, ArrayValue(l, S),
           NEW e \in Change, ArrayGround(e, S), \A f \in S : ~SameId(e, f),
           e.op.kind = "remove"
    PROVE  /\ ArrayExecute(l, e.op, At(e)) \in List
           /\ ArrayValue(ArrayExecute(l, e.op, At(e)), S \cup {e})
<1> DEFINE x == At(e)
           t == e.op.elem
           i == IndexOf(l, t)
           latest == ~IsRemoved(l.nodes[i]) \/ x > l.nodes[i].removedAt
           nodes == [l.nodes EXCEPT ![i].removedAt = x]
           r == IF latest THEN [nodes |-> nodes, size |-> l.size - 1] ELSE l
<1>1. x \in Nat \ {0} /\ t \in Added(S) /\ x > t
    <2>1. x \in Nat \ {0} /\ t \in Added(S) /\ t < x
        BY NewTicket DEF ArrayGround
    <2>2. t \in Nat
        <3>1. t \in CreatedAts(l) /\ Distinct(l)
            BY <2>1 DEF ArrayValue
        <3>2. \A k \in 1 .. Len(l.nodes) : l.nodes[k].createdAt \in Nat
            BY <3>1, IndexFacts DEF Node
        <3> QED BY <3>1, <3>2 DEF CreatedAts
    <2> QED BY <2>1, <2>2
<1>2. ArrayExecute(l, e.op, x) = r
    <2>1. ArrayExecute(l, e.op, x) = DeleteByCreatedAt(l, t, x)
        BY ExecuteKinds DEF ExecuteRemove
    <2> HIDE DEF x, t
    <2> QED BY <1>1, <2>1 DEF DeleteByCreatedAt
<1>3. /\ Distinct(l) /\ CreatedAts(l) = Added(S)
      /\ \A k \in 1 .. Len(l.nodes) :
            /\ LatestIs(S, "move", l.nodes[k].createdAt, l.nodes[k].movedAt)
            /\ LatestIs(S, "remove", l.nodes[k].createdAt, l.nodes[k].removedAt)
    BY DEF ArrayValue
<1>4. \A k \in 1 .. Len(l.nodes) : l.nodes[k] \in Node /\ l.nodes[k].createdAt # 0
    BY <1>3, IndexFacts DEF Node
<1>5. Has(l, t) /\ t # 0
    <2>1. t # 0
        BY <1>1, <1>3, <1>4 DEF CreatedAts
    <2> QED BY <1>1, <2>1, HasAdded
<1>6. i \in 1 .. Len(l.nodes) /\ l.nodes[i].createdAt = t
    BY <1>3, <1>5, IndexFacts
<1>7. l.nodes \in Seq(Node) /\ l.size \in Int /\ Len(l.nodes) \in Nat
    BY DEF List
<1> HIDE DEF x, t, i
<1>8. /\ nodes \in Seq(Node) /\ Len(nodes) = Len(l.nodes)
      /\ \A k \in 1 .. Len(l.nodes) :
            /\ nodes[k].createdAt = l.nodes[k].createdAt
            /\ nodes[k].movedAt = l.nodes[k].movedAt
            /\ nodes[k].removedAt = IF k = i THEN x ELSE l.nodes[k].removedAt
    <2>1. [l.nodes[i] EXCEPT !.removedAt = x] \in Node
        BY <1>1, <1>4, <1>6 DEF Node
    <2>2. nodes \in Seq(Node) /\ Len(nodes) = Len(l.nodes)
        BY <1>6, <1>7, <2>1
    <2> QED BY <1>4, <1>6, <1>7, <2>2 DEF Node
<1> HIDE DEF nodes
<1>9. latest => r \in List /\ r.nodes = nodes
    BY <1>7, <1>8 DEF List
<1>10. /\ r \in List /\ Len(r.nodes) = Len(l.nodes)
       /\ \A k \in 1 .. Len(l.nodes) :
             /\ r.nodes[k].createdAt = l.nodes[k].createdAt
             /\ r.nodes[k].movedAt = l.nodes[k].movedAt
             /\ r.nodes[k].removedAt = IF k = i /\ latest THEN x ELSE l.nodes[k].removedAt
    <2>1. CASE latest
        BY <1>8, <1>9, <2>1
    <2>2. CASE ~latest
        BY <2>2
    <2> QED BY <2>1, <2>2
<1>11. latest <=> l.nodes[i].removedAt = Nil \/ x > l.nodes[i].removedAt
    BY DEF IsRemoved
<1> HIDE DEF latest, r
<1>12. /\ Distinct(r) /\ CreatedAts(r) = Added(S)
    BY <1>3, <1>10, SamePlaces
<1>13. /\ Added(S \cup {e}) = Added(S)
       /\ \A f \in S \cup {e} : f.op.kind = "add" =>
            /\ f.op.elem = At(f)
            /\ f.op.prev \in {0} \cup Added(S \cup {e}) /\ f.op.prev < f.op.elem
       /\ \A f \in S \cup {e} : f.op.kind \in {"move", "remove"} =>
            f.op.elem \in Added(S \cup {e})
    BY OldChanges
<1>14. ASSUME NEW k \in 1 .. Len(r.nodes)
       PROVE  /\ LatestIs(S \cup {e}, "move", r.nodes[k].createdAt, r.nodes[k].movedAt)
              /\ LatestIs(S \cup {e}, "remove", r.nodes[k].createdAt, r.nodes[k].removedAt)
    <2>1. k \in 1 .. Len(l.nodes)
        BY <1>10
    <2>2. Named(S \cup {e}, "move", l.nodes[k].createdAt) = Named(S, "move", l.nodes[k].createdAt)
        BY DEF Named
    <2>3. LatestIs(S \cup {e}, "move", r.nodes[k].createdAt, r.nodes[k].movedAt)
        BY <1>3, <1>10, <2>1, <2>2 DEF LatestIs
    <2>4. CASE k = i
        <3>1. LatestIs(S, "remove", t, l.nodes[i].removedAt)
            BY <1>3, <1>6
        <3>2. /\ l.nodes[i].removedAt = Nil \/ x > l.nodes[i].removedAt
                    => LatestIs(S \cup {e}, "remove", t, x)
              /\ ~(l.nodes[i].removedAt = Nil \/ x > l.nodes[i].removedAt)
                    => LatestIs(S \cup {e}, "remove", t, l.nodes[i].removedAt)
            BY <3>1, LatestNext DEF x, t
        <3>3. r.nodes[k].createdAt = t
            BY <1>6, <1>10, <2>1, <2>4
        <3>4. LatestIs(S \cup {e}, "remove", t, IF latest THEN x ELSE l.nodes[i].removedAt)
            BY <1>11, <3>2
        <3>5. r.nodes[k].removedAt = IF latest THEN x ELSE l.nodes[i].removedAt
            BY <1>10, <2>1, <2>4
        <3> QED BY <2>3, <3>3, <3>4, <3>5
    <2>5. CASE k # i
        <3>1. l.nodes[k].createdAt # t
            BY <1>3, <1>6, <2>1, <2>5 DEF Distinct
        <3>2. Named(S \cup {e}, "remove", l.nodes[k].createdAt) =
                Named(S, "remove", l.nodes[k].createdAt)
            BY <3>1, NamedSame DEF t
        <3>3. r.nodes[k].removedAt = l.nodes[k].removedAt
            BY <1>10, <2>1, <2>5
        <3>4. LatestIs(S \cup {e}, "remove", r.nodes[k].createdAt, r.nodes[k].removedAt)
            BY <1>3, <1>10, <2>1, <3>2, <3>3 DEF LatestIs
        <3> QED BY <2>3, <3>4
    <2> QED BY <2>4, <2>5
<1>15. ASSUME \A f \in S \cup {e} : f.op.kind # "move"
       PROVE  Ordered(r, S \cup {e})
    <2>1. Ordered(l, S)
        BY <1>15 DEF ArrayValue
    <2>2. \A f \in S : f.op.kind = "add" => Has(l, f.op.prev) /\ Has(l, f.op.elem)
        <3>1. \A f \in S : f.op.kind = "add" =>
                f.op.prev \in {0} \cup Added(S) /\ f.op.elem \in Added(S)
            BY DEF ArrayValue, Added
        <3> QED BY <3>1, HasAdded
    <2>3. Ordered(r, S)
        BY <1>3, <1>10, <2>1, <2>2, SameOrdered
    <2> QED BY <2>3 DEF Ordered
<1>16. ArrayValue(r, S \cup {e})
    BY <1>12, <1>13, <1>14, <1>15 DEF ArrayValue
<1> QED BY <1>2, <1>10, <1>16 DEF x

-----------------------------------------------------------------------------
(***************************************************************************)
(* An array is sound                                                       *)
(***************************************************************************)

LEMMA EmptyValue == NewRGATreeList \in List /\ ArrayValue(NewRGATreeList, {})
<1> DEFINE l == NewRGATreeList
           none == {}
<1>1. l.nodes = <<>> /\ l \in List /\ Len(l.nodes) = 0
    BY DEF NewRGATreeList, List
<1>2. CreatedAts(l) = {} /\ Added(none) = {}
    BY <1>1 DEF CreatedAts, Added
<1>3. Distinct(l) /\ Ordered(l, none)
    BY <1>1 DEF Distinct, Ordered
<1> QED BY <1>1, <1>2, <1>3 DEF ArrayValue

\* The size says nothing about the nodes.
LEMMA DecodedValue ==
    ASSUME NEW l \in List, NEW S, ArrayValue(l, S)
    PROVE  DecodedList(l) \in List /\ ArrayValue(DecodedList(l), S)
<1> DEFINE r == DecodedList(l)
<1>1. l.nodes \in Seq(Node) /\ Len(l.nodes) \in Int
    BY DEF List
<1>2. r \in List /\ r.nodes = l.nodes
    BY <1>1 DEF DecodedList, List
<1> HIDE DEF r
<1>3. \A p, x : PlacedAfter(l, p, x) => PlacedAfter(r, p, x)
    <2>1. \A t : IndexOf(r, t) = IndexOf(l, t)
        BY <1>2 DEF IndexOf
    <2> QED BY <1>2, <2>1 DEF PlacedAfter
<1>4. Distinct(r) /\ CreatedAts(r) = CreatedAts(l) /\ (Ordered(l, S) => Ordered(r, S))
    BY <1>2, <1>3 DEF Distinct, CreatedAts, Ordered, ArrayValue
<1>5. ArrayValue(r, S)
    BY <1>2, <1>4 DEF ArrayValue
<1> QED BY <1>2, <1>5 DEF r

\* Nothing was removed at or before the first ticket.
LEMMA NothingPurged ==
    ASSUME NEW l \in List, NEW S, S \subseteq Change, ArrayValue(l, S)
    PROVE  PurgeRemoved(l, InitialTicket) = l
<1>1. ASSUME NEW i \in DOMAIN l.nodes, IsRemoved(l.nodes[i])
      PROVE  ~(l.nodes[i].removedAt <= InitialTicket)
    <2>1. i \in 1 .. Len(l.nodes)
        BY IndexFacts DEF ArrayValue
    <2>2. LatestIs(S, "remove", l.nodes[i].createdAt, l.nodes[i].removedAt)
        BY <2>1 DEF ArrayValue
    <2>3. PICK f \in S : l.nodes[i].removedAt = At(f)
        BY <1>1, <2>2 DEF LatestIs, IsRemoved, Named
    <2>4. f.lamport \in Nat \ {0} /\ f.actor \in Clients
        BY DEF Change
    <2>5. At(f) \in Nat \ {0}
        BY <2>4, TicketType DEF At
    <2> QED BY <2>3, <2>5 DEF InitialTicket
<1> QED BY <1>1 DEF PurgeRemoved

\* What an application does, its author has executed all for.
LEMMA ArrayUpdates ==
    ASSUME NEW l \in List, NEW S, S \subseteq Change, ArrayValue(l, S),
           Operation = ArrayOperation, NEW c \in Clients, NEW k \in Nat \ {0},
           \A f \in S : f.lamport < k, NEW op \in ArrayOperations(l, TicketOf(k, c))
    PROVE  LET e == [op |-> op, actor |-> c, lamport |-> k]
           IN  e \in Change /\ ArrayGround(e, S)
<1> DEFINE x == TicketOf(k, c)
           e == [op |-> op, actor |-> c, lamport |-> k]
<1>1. x \in Nat \ {0}
    BY TicketType
<1>2. \A f \in S : At(f) < x
    <2> SUFFICES ASSUME NEW f \in S PROVE At(f) < x
        OBVIOUS
    <2>1. f.lamport \in Nat /\ f.actor \in Clients /\ f.lamport < k
        BY DEF Change
    <2> QED BY <2>1, TicketOrder DEF At
<1>3. \A t \in Added(S) : t < x
    BY <1>2 DEF Added, ArrayValue
<1>4. e.op = op /\ At(e) = x
    BY DEF At
<1> HIDE DEF x, e
<1>5. /\ Distinct(l) /\ CreatedAts(l) = Added(S) /\ DOMAIN l.nodes = 1 .. Len(l.nodes)
      /\ \A i \in 1 .. Len(l.nodes) : l.nodes[i] \in Node
      /\ Len(l.nodes) \in Nat
    BY IndexFacts DEF ArrayValue
<1>6. \A i \in DOMAIN l.nodes : l.nodes[i].createdAt \in Added(S) /\ l.nodes[i].createdAt \in Nat
    BY <1>5 DEF CreatedAts, Node
<1>7. Elements(l) \subseteq Added(S) /\ Elements(l) \subseteq Nat
    BY <1>6 DEF Elements, Live
<1>12. op.kind \in Kinds
    BY DEF ArrayOperations
<1>8. CASE op \in Add(l, x)
    <2>1. PICK prev \in Elements(l) \cup {LastCreatedAt(l)} :
            op = [kind |-> "add", prev |-> prev, elem |-> x]
        BY <1>8 DEF Add
    <2>2. LastCreatedAt(l) \in {0} \cup Added(S) /\ LastCreatedAt(l) \in Nat
        <3>1. CASE l.nodes = <<>>
            BY <3>1 DEF LastCreatedAt, InitialTicket
        <3>2. CASE l.nodes # <<>>
            <4>1. l.nodes \in Seq(Node)
                BY DEF List
            <4>2. Len(l.nodes) \in DOMAIN l.nodes
                BY <1>5, <3>2, <4>1
            <4> QED BY <1>6, <3>2, <4>2 DEF LastCreatedAt
        <3> QED BY <3>1, <3>2
    <2>3. prev \in {0} \cup Added(S) /\ prev \in Nat /\ prev < x
        BY <1>1, <1>3, <1>7, <2>1, <2>2
    <2>4. op \in ArrayOperation /\ op.kind = "add" /\ op.prev = prev /\ op.elem = x
        BY <1>1, <2>1, <2>3 DEF ArrayOperation
    <2>5. e \in Change
        BY <2>4 DEF e, Change
    <2>6. ArrayGround(e, S)
        BY <1>4, <1>12, <2>3, <2>4 DEF ArrayGround
    <2> QED BY <2>5, <2>6 DEF e
<1>9. ASSUME op \in ArrayOperation, op.kind \in {"move", "remove"}, op.elem \in Added(S)
      PROVE  e \in Change /\ ArrayGround(e, S)
    <2>1. e \in Change
        BY <1>9 DEF e, Change
    <2>2. op.elem < x
        BY <1>3, <1>9
    <2> QED BY <1>4, <1>9, <1>12, <2>1, <2>2 DEF ArrayGround
<1>10. CASE op \in MoveBefore(l)
    <2>1. PICK next \in Elements(l), elem \in Elements(l) :
            op = [kind |-> "move", prev |-> FindPrevCreatedAt(l, next), elem |-> elem]
        BY <1>10 DEF MoveBefore
    <2>2. FindPrevCreatedAt(l, next) \in Nat
        <3> DEFINE B == {i \in Live(l) : i < IndexOf(l, next)}
        <3>1. CASE B = {}
            BY <3>1 DEF FindPrevCreatedAt, InitialTicket
        <3>2. CASE B # {}
            <4> DEFINE n == Len(l.nodes)
                       C == {n - i : i \in B}
            <4>1. B \subseteq 1 .. n
                BY <1>5 DEF Live
            <4>2. C \subseteq Nat /\ C # {}
                BY <1>5, <3>2, <4>1
            <4> HIDE DEF n, B
            <4>3. PICK d \in C : \A f \in C : d <= f
                <5> HIDE DEF C
                <5> QED BY <4>2, LeastNatural
            <4>4. PICK i \in B : d = n - i
                BY <4>3
            <4>5. \A j \in B : n - i <= n - j
                BY <4>3, <4>4
            <4>6. \A j \in B : j <= i
                BY <1>5, <4>1, <4>5 DEF n
            <4> DEFINE b == CHOOSE a \in B : \A j \in B : j <= a
            <4>7. b \in B
                BY <4>6
            <4>8. FindPrevCreatedAt(l, next) = l.nodes[b].createdAt
                BY <3>2 DEF FindPrevCreatedAt, B
            <4> HIDE DEF b
            <4> QED BY <1>5, <1>6, <4>1, <4>7, <4>8 DEF n
        <3> QED BY <3>1, <3>2
    <2>3. op \in ArrayOperation /\ op.kind = "move" /\ op.elem = elem
        BY <1>7, <2>1, <2>2 DEF ArrayOperation
    <2> QED BY <1>7, <1>9, <2>1, <2>3 DEF e
<1>11. CASE op \in Delete(l)
    <2>1. PICK i \in DOMAIN l.nodes :
            op = [kind |-> "remove", prev |-> InitialTicket, elem |-> l.nodes[i].createdAt]
        BY <1>11 DEF Delete, Live
    <2>2. op \in ArrayOperation /\ op.kind = "remove" /\ op.elem \in Added(S)
        BY <1>6, <2>1 DEF ArrayOperation, InitialTicket
    <2> QED BY <1>9, <2>2 DEF e
<1> QED BY <1>8, <1>10, <1>11 DEF ArrayOperations, x

\* Every step of a replica keeps the value of its array one its changes lead to.
LEMMA ArraySound == ArrayInstance => Sound(ArrayValues, ArrayGrounds)
<1> SUFFICES ASSUME ArrayInstance PROVE Sound(ArrayValues, ArrayGrounds)
    OBVIOUS
<1> DEFINE R == ArrayValues
           W == ArrayGrounds
<1>1. <<Empty, {}>> \in R
    BY EmptyValue DEF ArrayInstance, ArrayValues
<1>2. ASSUME NEW v, NEW S, <<v, S>> \in R
      PROVE  v \in List /\ S \subseteq Change /\ ArrayValue(v, S)
    BY <1>2 DEF ArrayValues
<1>3. ASSUME NEW v, NEW S, <<v, S>> \in R
      PROVE  <<Decoded(v), S>> \in R /\ <<GarbageCollect(v, InitialTicket), S>> \in R
    <2>1. v \in List /\ S \subseteq Change /\ ArrayValue(v, S)
        BY <1>2, <1>3
    <2>2. Decoded(v) = DecodedList(v) /\ GarbageCollect(v, InitialTicket) = v
        BY <2>1, NothingPurged DEF ArrayInstance
    <2>3. DecodedList(v) \in List /\ ArrayValue(DecodedList(v), S)
        BY <2>1, DecodedValue
    <2> QED BY <1>3, <2>1, <2>2, <2>3 DEF ArrayValues
<1>4. ASSUME NEW e, NEW S, NEW T, <<e, S>> \in W, Complete(S, T), T \subseteq Change
      PROVE  <<e, T>> \in W
    <2>1. e \in Change /\ ArrayGround(e, S)
        BY <1>4 DEF ArrayGrounds
    <2>2. Added(S) \subseteq Added(T)
        BY <1>4 DEF Added, Complete
    <2>3. ArrayGround(e, T)
        BY <2>1, <2>2 DEF ArrayGround
    <2> QED BY <1>4, <2>1, <2>3 DEF ArrayGrounds
<1>5. ASSUME NEW v, NEW S, NEW c, NEW k, NEW op,
             <<v, S>> \in R, c \in Clients, k \in Nat \ {0}, \A f \in S : f.lamport < k,
             op \in Operations(v, TicketOf(k, c))
      PROVE  /\ [op |-> op, actor |-> c, lamport |-> k] \in Change
             /\ <<[op |-> op, actor |-> c, lamport |-> k], S>> \in W
    <2>1. v \in List /\ S \subseteq Change /\ ArrayValue(v, S)
        BY <1>2, <1>5
    <2>2. Operation = ArrayOperation /\ op \in ArrayOperations(v, TicketOf(k, c))
        BY <1>5 DEF ArrayInstance
    <2> DEFINE e == [op |-> op, actor |-> c, lamport |-> k]
    <2>3. e \in Change /\ ArrayGround(e, S)
        BY <1>5, <2>1, <2>2, ArrayUpdates
    <2> HIDE DEF e
    <2>4. <<e, S>> \in W
        BY <2>1, <2>3 DEF ArrayGrounds
    <2> QED BY <2>3, <2>4 DEF e
<1>6. ASSUME NEW v, NEW S, NEW e, <<v, S>> \in R, S \subseteq Change,
             <<e, S>> \in W, e \in Change, \A f \in S : ~SameId(e, f),
             ~Fails(v, e.op, At(e))
      PROVE  <<Execute(v, e.op, At(e)), S \cup {e}>> \in R
    <2>1. v \in List /\ ArrayValue(v, S) /\ ArrayGround(e, S)
        BY <1>2, <1>6 DEF ArrayGrounds
    <2>2. ~ArrayFails(v, e.op, At(e)) /\ Execute(v, e.op, At(e)) = ArrayExecute(v, e.op, At(e))
        BY <1>6 DEF ArrayInstance
    <2>3. e.op.kind \in {"add", "move", "remove"}
        BY <1>6 DEF Change, ArrayInstance, ArrayOperation
    <2> DEFINE r == ArrayExecute(v, e.op, At(e))
    <2>4. r \in List /\ ArrayValue(r, S \cup {e})
        <3>1. CASE e.op.kind = "add"
            <4>1. Has(v, e.op.prev)
                BY <2>2, <3>1 DEF ArrayFails
            <4> QED BY <1>6, <2>1, <3>1, <4>1, AddValue
        <3>2. CASE e.op.kind = "move"
            BY <1>6, <2>1, <2>2, <3>2, MoveValue
        <3>3. CASE e.op.kind = "remove"
            BY <1>6, <2>1, <3>3, RemoveValue
        <3> QED BY <2>3, <3>1, <3>2, <3>3
    <2> HIDE DEF r
    <2>5. S \cup {e} \subseteq Change
        BY <1>6
    <2> QED BY <2>2, <2>4, <2>5 DEF r, ArrayValues
<1> HIDE DEF R, W
<1> QED BY <1>1, <1>3, <1>4, <1>5, <1>6 DEF Sound, R, W

-----------------------------------------------------------------------------
(***************************************************************************)
(* Arrays that the same changes have led to                                *)
(***************************************************************************)

\* There is only one latest.
LEMMA LatestOnce ==
    ASSUME NEW S, S \subseteq Change, NEW kind, NEW t, NEW a, NEW b,
           LatestIs(S, kind, t, a), LatestIs(S, kind, t, b)
    PROVE  a = b
<1>1. \A f \in Named(S, kind, t) : At(f) \in Nat
    <2> SUFFICES ASSUME NEW f \in Change PROVE At(f) \in Nat
        BY DEF Named
    <2>1. f.lamport \in Nat \ {0} /\ f.actor \in Clients
        BY DEF Change
    <2> QED BY <2>1, TicketType DEF At
<1> QED BY <1>1 DEF LatestIs

\* So an element is the same in all of them.
LEMMA SameNode ==
    ASSUME NEW l \in List, NEW r \in List, NEW S, S \subseteq Change,
           ArrayValue(l, S), ArrayValue(r, S),
           NEW i \in 1 .. Len(l.nodes), NEW j \in 1 .. Len(r.nodes),
           l.nodes[i].createdAt = r.nodes[j].createdAt
    PROVE  l.nodes[i] = r.nodes[j]
<1>1. l.nodes[i] \in Node /\ r.nodes[j] \in Node
    BY IndexFacts DEF ArrayValue
<1>2. l.nodes[i].movedAt = r.nodes[j].movedAt /\ l.nodes[i].removedAt = r.nodes[j].removedAt
    BY LatestOnce DEF ArrayValue
<1>3. \A a, b \in Node : /\ a.createdAt = b.createdAt /\ a.movedAt = b.movedAt
                        /\ a.removedAt = b.removedAt => a = b
    BY DEF Node
<1> QED BY <1>1, <1>2, <1>3

NodesOf(l) == {l.nodes[i] : i \in DOMAIN l.nodes}

LEMMA SameNodes ==
    ASSUME NEW l \in List, NEW r \in List, NEW S, S \subseteq Change,
           ArrayValue(l, S), ArrayValue(r, S)
    PROVE  NodesOf(l) = NodesOf(r)
<1>1. DOMAIN l.nodes = 1 .. Len(l.nodes) /\ DOMAIN r.nodes = 1 .. Len(r.nodes)
    BY IndexFacts DEF ArrayValue
<1> DEFINE L == {l.nodes[i].createdAt : i \in 1 .. Len(l.nodes)}
           R == {r.nodes[i].createdAt : i \in 1 .. Len(r.nodes)}
<1>7. L = R
    BY DEF ArrayValue, CreatedAts
<1>2. \A i \in 1 .. Len(l.nodes) : \E j \in 1 .. Len(r.nodes) :
        l.nodes[i].createdAt = r.nodes[j].createdAt
    BY <1>7
<1>3. \A j \in 1 .. Len(r.nodes) : \E i \in 1 .. Len(l.nodes) :
        l.nodes[i].createdAt = r.nodes[j].createdAt
    BY <1>7
<1>4. \A i \in 1 .. Len(l.nodes), j \in 1 .. Len(r.nodes) :
        l.nodes[i].createdAt = r.nodes[j].createdAt => l.nodes[i] = r.nodes[j]
    BY SameNode
<1>5. \A i \in DOMAIN l.nodes : \E j \in DOMAIN r.nodes : l.nodes[i] = r.nodes[j]
    BY <1>1, <1>2, <1>4
<1>6. \A j \in DOMAIN r.nodes : \E i \in DOMAIN l.nodes : l.nodes[i] = r.nodes[j]
    BY <1>1, <1>3, <1>4
<1> QED BY <1>5, <1>6 DEF NodesOf

\* The older of two elements is before the newer one exactly if it is not behind
\* the element the newer one was added to.
LEMMA BeforeNewer ==
    ASSUME NEW l \in List, Distinct(l), NEW a, NEW b, NEW p, Has(l, a), Has(l, b), Has(l, p),
           a \in Nat, b \in Nat, a < b, b # 0, PlacedAfter(l, p, b)
    PROVE  /\ IndexOf(l, a) <= IndexOf(l, b) <=> IndexOf(l, a) <= IndexOf(l, p)
           /\ IndexOf(l, b) <= IndexOf(l, a) <=> ~(IndexOf(l, a) <= IndexOf(l, p))
<1> DEFINE i == IndexOf(l, a)
           j == IndexOf(l, b)
           k == IndexOf(l, p)
<1>1. /\ j \in 1 .. Len(l.nodes) /\ l.nodes[j].createdAt = b
      /\ i \in 0 .. Len(l.nodes) /\ k \in 0 .. Len(l.nodes) /\ Len(l.nodes) \in Nat
      /\ i # 0 => i \in 1 .. Len(l.nodes) /\ l.nodes[i].createdAt = a
    <2>1. \A t : Has(l, t) => IndexOf(l, t) \in 0 .. Len(l.nodes)
        <3> SUFFICES ASSUME NEW t, Has(l, t) PROVE IndexOf(l, t) \in 0 .. Len(l.nodes)
            OBVIOUS
        <3>1. CASE t = 0
            BY <3>1, IndexFacts
        <3>2. CASE t # 0
            BY <3>2, IndexFacts
        <3> QED BY <3>1, <3>2
    <2>2. i # 0 => a # 0
        BY IndexFacts
    <2> QED BY <2>1, <2>2, IndexFacts
<1>2. k < j /\ \A q \in 1 .. Len(l.nodes) : k < q /\ q < j => l.nodes[q].createdAt > b
    BY DEF PlacedAfter
<1> HIDE DEF i, j, k
<1>3. i # j
    BY <1>1
<1>4. ~(k < i /\ i < j)
    BY <1>1, <1>2
<1> QED BY <1>1, <1>2, <1>3, <1>4 DEF i, j, k

\* Where nothing is moved, two arrays have their elements in the same order.
LEMMA OrderedOnce ==
    ASSUME NEW l \in List, NEW r \in List, NEW S, S \subseteq Change,
           ArrayValue(l, S), ArrayValue(r, S), Ordered(l, S), Ordered(r, S),
           NEW a \in {0} \cup Added(S), NEW b \in {0} \cup Added(S)
    PROVE  IndexOf(l, a) <= IndexOf(l, b) <=> IndexOf(r, a) <= IndexOf(r, b)
<1> DEFINE E == {0} \cup Added(S)
           Agree(x, y) == IndexOf(l, x) <= IndexOf(l, y) <=> IndexOf(r, x) <= IndexOf(r, y)
           T == {m \in Nat : \E x, y \in E : x <= m /\ y <= m /\ ~Agree(x, y)}
<1>1. /\ Distinct(l) /\ Distinct(r) /\ E \subseteq Nat
      /\ \A t \in E : Has(l, t) /\ Has(r, t)
    <2>1. \A i \in 1 .. Len(l.nodes) : l.nodes[i].createdAt \in Nat
        BY IndexFacts DEF ArrayValue, Node
    <2>2. E \subseteq Nat
        BY <2>1 DEF ArrayValue, CreatedAts
    <2> QED BY <2>2, HasAdded DEF ArrayValue
<1>2. \A y \in E \ {0} : \E p \in E : p < y /\ PlacedAfter(l, p, y) /\ PlacedAfter(r, p, y)
    <2> SUFFICES ASSUME NEW e \in S, e.op.kind = "add"
                 PROVE  \E p \in E : /\ p < e.op.elem
                                     /\ PlacedAfter(l, p, e.op.elem)
                                     /\ PlacedAfter(r, p, e.op.elem)
        BY DEF Added
    <2>1. e.op.prev \in E /\ e.op.prev < e.op.elem
        BY DEF ArrayValue
    <2>2. PlacedAfter(l, e.op.prev, e.op.elem) /\ PlacedAfter(r, e.op.prev, e.op.elem)
        BY DEF Ordered
    <2> QED BY <2>1, <2>2
<1> HIDE DEF E
<1>3. ASSUME NEW m \in T, \A n \in T : m <= n
      PROVE  FALSE
    <2>1. PICK x \in E, y \in E : x <= m /\ y <= m /\ ~Agree(x, y)
        OBVIOUS
    <2>2. m \in Nat /\ x \in Nat /\ y \in Nat
        BY <1>1
    <2>3. \A u, v \in E : u < m /\ v < m => Agree(u, v)
        <3> SUFFICES ASSUME NEW u \in E, NEW v \in E, u < m, v < m, ~Agree(u, v)
                     PROVE  FALSE
            OBVIOUS
        <3>1. u \in Nat /\ v \in Nat
            BY <1>1
        <3>2. m - 1 \in Nat /\ u <= m - 1 /\ v <= m - 1
            BY <2>2, <3>1
        <3>3. m - 1 \in T
            BY <3>2
        <3> HIDE DEF T
        <3>4. m <= m - 1
            BY <1>3, <3>3
        <3> QED BY <2>2, <3>4
    <2> HIDE DEF T
    <2>4. CASE x < y
        <3>1. PICK p \in E : p < y /\ PlacedAfter(l, p, y) /\ PlacedAfter(r, p, y)
            BY <1>2, <2>2, <2>4
        <3>2. /\ IndexOf(l, x) <= IndexOf(l, y) <=> IndexOf(l, x) <= IndexOf(l, p)
              /\ IndexOf(r, x) <= IndexOf(r, y) <=> IndexOf(r, x) <= IndexOf(r, p)
            BY <1>1, <2>2, <2>4, <3>1, BeforeNewer
        <3>3. Agree(x, p)
            <4>1. p \in Nat
                BY <1>1
            <4>2. x < m /\ p < m
                BY <2>1, <2>2, <2>4, <3>1, <4>1
            <4> QED BY <2>3, <4>2
        <3> QED BY <2>1, <3>2, <3>3
    <2>5. CASE y < x
        <3>1. PICK p \in E : p < x /\ PlacedAfter(l, p, x) /\ PlacedAfter(r, p, x)
            BY <1>2, <2>2, <2>5
        <3>2. /\ IndexOf(l, x) <= IndexOf(l, y) <=> ~(IndexOf(l, y) <= IndexOf(l, p))
              /\ IndexOf(r, x) <= IndexOf(r, y) <=> ~(IndexOf(r, y) <= IndexOf(r, p))
            BY <1>1, <2>2, <2>5, <3>1, BeforeNewer
        <3>3. Agree(y, p)
            <4>1. p \in Nat
                BY <1>1
            <4>2. y < m /\ p < m
                BY <2>1, <2>2, <2>5, <3>1, <4>1
            <4> QED BY <2>3, <4>2
        <3> QED BY <2>1, <3>2, <3>3
    <2>6. CASE x = y
        <3>1. IndexOf(l, x) \in Nat /\ IndexOf(r, x) \in Nat
            <4>1. x = 0 \/ x # 0
                OBVIOUS
            <4> QED BY <1>1, <4>1, IndexFacts
        <3> QED BY <2>1, <2>6, <3>1
    <2> QED BY <2>2, <2>4, <2>5, <2>6
<1>4. T = {}
    <2> SUFFICES ASSUME T # {} PROVE FALSE
        OBVIOUS
    <2>1. T \subseteq Nat
        OBVIOUS
    <2> HIDE DEF T
    <2>2. \E m \in T : \A n \in T : m <= n
        BY <2>1, LeastNatural
    <2> QED BY <1>3, <2>2
<1>5. a \in Nat /\ b \in Nat /\ a \in E /\ b \in E
    BY <1>1 DEF E
<1>6. \E m \in Nat : a <= m /\ b <= m
    <2>1. CASE a <= b
        BY <1>5, <2>1
    <2>2. CASE ~(a <= b)
        BY <1>5, <2>2
    <2> QED BY <2>1, <2>2
<1> QED BY <1>4, <1>5, <1>6

\* So one list begins like the other.
LEMMA SamePrefix ==
    ASSUME NEW l \in List, NEW r \in List, Distinct(l), Distinct(r),
           CreatedAts(l) = CreatedAts(r),
           \A a, b \in CreatedAts(l) :
              IndexOf(l, a) <= IndexOf(l, b) <=> IndexOf(r, a) <= IndexOf(r, b)
    PROVE  /\ Len(l.nodes) <= Len(r.nodes)
           /\ \A i \in 1 .. Len(l.nodes) : l.nodes[i].createdAt = r.nodes[i].createdAt
<1> DEFINE n == Len(l.nodes)
           m == Len(r.nodes)
           Same(i) == i <= m /\ l.nodes[i].createdAt = r.nodes[i].createdAt
           T == {i \in 1 .. n : ~Same(i)}
<1>1. n \in Nat /\ m \in Nat
    BY IndexFacts
<1>2. /\ \A i \in 1 .. n : IndexOf(l, l.nodes[i].createdAt) = i
      /\ \A i \in 1 .. m : IndexOf(r, r.nodes[i].createdAt) = i
    BY IndexFacts
<1>3. /\ \A i \in 1 .. n : \E j \in 1 .. m : l.nodes[i].createdAt = r.nodes[j].createdAt
      /\ \A j \in 1 .. m : \E i \in 1 .. n : l.nodes[i].createdAt = r.nodes[j].createdAt
    BY DEF CreatedAts
<1>4. \A i, j \in 1 .. n :
        i <= j <=> IndexOf(r, l.nodes[i].createdAt) <= IndexOf(r, l.nodes[j].createdAt)
    <2> SUFFICES ASSUME NEW i \in 1 .. n, NEW j \in 1 .. n
                 PROVE  i <= j <=> IndexOf(r, l.nodes[i].createdAt) <= IndexOf(r, l.nodes[j].createdAt)
        OBVIOUS
    <2>1. l.nodes[i].createdAt \in CreatedAts(l) /\ l.nodes[j].createdAt \in CreatedAts(l)
        BY DEF CreatedAts
    <2> HIDE DEF n
    <2> QED BY <1>2, <2>1
<1> HIDE DEF n, m
<1>5. ASSUME NEW i \in T, \A k \in T : i <= k
      PROVE  FALSE
    <2>1. i \in 1 .. n /\ \A k \in 1 .. n : k < i => Same(k)
        <3> SUFFICES ASSUME NEW k \in 1 .. n, k < i, ~Same(k) PROVE FALSE
            OBVIOUS
        <3>1. k \in T
            OBVIOUS
        <3> HIDE DEF T
        <3>2. i <= k
            BY <1>5, <3>1
        <3>3. i \in 1 .. n
            BY DEF T
        <3> QED BY <1>1, <3>2, <3>3
    <2>2. PICK j \in 1 .. m : l.nodes[i].createdAt = r.nodes[j].createdAt
        BY <1>3, <2>1
    <2>3. IndexOf(r, l.nodes[i].createdAt) = j
        BY <1>2, <2>2
    <2>4. i <= j
        <3> SUFFICES ASSUME j < i PROVE FALSE
            BY <1>1, <2>1
        <3>1. j \in 1 .. n
            BY <1>1, <2>1
        <3>2. l.nodes[j].createdAt = r.nodes[j].createdAt
            BY <2>1, <3>1
        <3>3. l.nodes[j].createdAt = l.nodes[i].createdAt
            BY <2>2, <3>2
        <3>4. j = i
            BY <1>2, <2>1, <3>1, <3>3
        <3> QED BY <1>1, <2>1, <3>4
    <2>5. CASE i = j
        BY <1>1, <2>1, <2>2, <2>5
    <2>6. CASE i < j
        <3>1. i \in 1 .. m
            BY <1>1, <2>1, <2>6
        <3>2. PICK k \in 1 .. n : l.nodes[k].createdAt = r.nodes[i].createdAt
            BY <1>3, <3>1
        <3>3. IndexOf(r, l.nodes[k].createdAt) = i
            BY <1>2, <3>1, <3>2
        <3>4. k < i
            BY <1>1, <1>4, <2>1, <2>3, <2>6, <3>3
        <3>5. Same(k)
            BY <2>1, <3>4
        <3>6. k \in 1 .. m /\ r.nodes[k].createdAt = r.nodes[i].createdAt
            BY <1>1, <3>2, <3>5
        <3>7. k = i
            BY <1>2, <3>1, <3>6
        <3> QED BY <1>1, <2>1, <3>4, <3>7
    <2> QED BY <1>1, <2>1, <2>4, <2>5, <2>6
<1>6. T = {}
    <2> SUFFICES ASSUME T # {} PROVE FALSE
        OBVIOUS
    <2>1. T \subseteq Nat
        BY <1>1
    <2> HIDE DEF T
    <2>2. \E i \in T : \A k \in T : i <= k
        BY <2>1, LeastNatural
    <2> QED BY <1>5, <2>2
<1>7. \A i \in 1 .. n : Same(i)
    BY <1>6
<1>8. n <= m
    <2>1. n = 0 \/ n \in 1 .. n
        BY <1>1
    <2> QED BY <1>1, <1>7, <2>1
<1> QED BY <1>7, <1>8 DEF n, m

\* Where nothing is moved, the same changes lead to the same nodes.
LEMMA SameList ==
    ASSUME NEW l \in List, NEW r \in List, NEW S, S \subseteq Change,
           ArrayValue(l, S), ArrayValue(r, S), \A e \in S : e.op.kind # "move"
    PROVE  l.nodes = r.nodes
<1>1. /\ Distinct(l) /\ Distinct(r) /\ CreatedAts(l) = Added(S) /\ CreatedAts(r) = Added(S)
      /\ Ordered(l, S) /\ Ordered(r, S)
    BY DEF ArrayValue
<1>2. \A a, b \in Added(S) :
        IndexOf(l, a) <= IndexOf(l, b) <=> IndexOf(r, a) <= IndexOf(r, b)
    <2> SUFFICES ASSUME NEW a \in Added(S), NEW b \in Added(S)
                 PROVE  IndexOf(l, a) <= IndexOf(l, b) <=> IndexOf(r, a) <= IndexOf(r, b)
        OBVIOUS
    <2>1. a \in {0} \cup Added(S) /\ b \in {0} \cup Added(S)
        OBVIOUS
    <2> QED BY <1>1, <2>1, OrderedOnce
<1>3. /\ Len(l.nodes) <= Len(r.nodes) /\ Len(r.nodes) <= Len(l.nodes)
      /\ \A i \in 1 .. Len(l.nodes) : l.nodes[i].createdAt = r.nodes[i].createdAt
    BY <1>1, <1>2, SamePrefix
<1>4. l.nodes \in Seq(Node) /\ r.nodes \in Seq(Node)
    BY DEF List
<1>5. Len(l.nodes) = Len(r.nodes)
    BY <1>3, <1>4
<1>6. \A i \in 1 .. Len(l.nodes) : l.nodes[i] = r.nodes[i]
    BY <1>3, <1>5, SameNode
<1> QED BY <1>4, <1>5, <1>6

-----------------------------------------------------------------------------
(***************************************************************************)
(* The theorems                                                            *)
(***************************************************************************)

\* The array of every replica is one its changes lead to.
LEMMA ReplicaValues ==
    ASSUME ArrayInstance, ExecInv, NEW c \in Clients, c \notin dead
    PROVE  /\ data[c] \in List /\ Executed(c) \subseteq Change
           /\ ArrayValue(data[c], Executed(c))
<1>1. ValuesInv(ArrayValues)
    BY ArraySound DEF ExecInv, ExecutionsInv
<1>2. <<data[c], Executed(c)>> \in ArrayValues
    BY <1>1 DEF ValuesInv
<1> QED BY <1>2 DEF ArrayValues

\* Whatever order replicas have executed the same changes in, and whether these came
\* one by one or in snapshots: they agree on every element of the array, that it is
\* there, when it was last moved and when it was last removed (RGATreeList.InsertAfter,
\* MoveAfter and DeleteByCreatedAt).
THEOREM ElementsAgree == ASSUME ArrayInstance PROVE Spec => []SameElements
<1>1. Spec => []ExecInv
    <2>1. ~Collecting
        BY DEF ArrayInstance
    <2> QED BY <2>1, Execution
<1>2. ExecInv => SameElements
    <2> SUFFICES ASSUME ExecInv, NEW c \in Clients, NEW d \in Clients, SameChanges(c, d)
                 PROVE  NodesOf(data[c]) = NodesOf(data[d])
        BY DEF SameElements, NodesOf
    <2>1. c \notin dead /\ d \notin dead /\ Executed(c) = Executed(d)
        BY SameExecuted
    <2>2. /\ data[c] \in List /\ ArrayValue(data[c], Executed(c)) /\ Executed(c) \subseteq Change
          /\ data[d] \in List /\ ArrayValue(data[d], Executed(c))
        BY <2>1, ReplicaValues
    <2> QED BY <2>2, SameNodes
<1> QED BY <1>1, <1>2, PTL

\* And as long as no element is moved they have the elements in the same order, those
\* that are removed included (RGATreeList.findNextBeforeExecutedAt).
THEOREM OrdersAgree == ASSUME ArrayInstance PROVE Spec => []Converged
<1>1. Spec => []ExecInv
    <2>1. ~Collecting
        BY DEF ArrayInstance
    <2> QED BY <2>1, Execution
<1>2. ExecInv => Converged
    <2> SUFFICES ASSUME ExecInv, NEW c \in Clients, NEW d \in Clients, SameChanges(c, d), ~Moved
                 PROVE  data[c].nodes = data[d].nodes
        BY DEF Converged
    <2>1. /\ c \notin dead /\ d \notin dead /\ Executed(c) = Executed(d)
          /\ \A e \in Executed(c) : \E s \in DOMAIN log : e = log[s]
        BY SameExecuted
    <2>2. /\ data[c] \in List /\ ArrayValue(data[c], Executed(c)) /\ Executed(c) \subseteq Change
          /\ data[d] \in List /\ ArrayValue(data[d], Executed(c))
        BY <2>1, ReplicaValues
    <2>3. \A e \in Executed(c) : e.op.kind # "move"
        BY <2>1 DEF Moved
    <2> QED BY <2>2, <2>3, SameList
<1> QED BY <1>1, <1>2, PTL

\* A new element whose ticket is above all positions goes right behind prev.
LEMMA InPlace ==
    ASSUME NEW l \in List, NEW S, S \subseteq Change, ArrayValue(l, S),
           NEW e \in Change, ArrayGround(e, S), e.op.kind = "add",
           \A f \in S : f.lamport < e.lamport
    PROVE  /\ ~ArrayFails(l, e.op, At(e))
           /\ LET r == ArrayExecute(l, e.op, At(e))
              IN  IndexOf(r, e.op.elem) = IndexOf(r, e.op.prev) + 1
<1> DEFINE x == At(e)
           p == e.op.prev
           node == NewNode(x)
           r == InsertAfter(l, p, node, x)
           i == FindNextBeforeExecutedAt(l, p, x)
           n == Len(l.nodes)
<1>1. e.op.elem = x /\ p \in {0} \cup Added(S)
    BY DEF ArrayGround
<1>2. Has(l, p) /\ ~ArrayFails(l, e.op, x)
    BY <1>1, HasAdded DEF ArrayFails
<1>3. ArrayExecute(l, e.op, x) = r
    BY <1>1, ExecuteKinds DEF ExecuteAdd
<1>4. Distinct(l) /\ CreatedAts(l) = Added(S)
    BY DEF ArrayValue
<1>5. x \in Nat \ {0} /\ \A f \in S : At(f) \in Nat /\ At(f) < x
    <2>1. \A f \in S : ~SameId(e, f)
        BY DEF Change, SameId
    <2>2. x \in Nat \ {0} /\ \A f \in S : At(f) \in Nat
        BY <2>1, NewTicket
    <2>3. ASSUME NEW f \in S
          PROVE  At(f) < x
        <3>1. /\ f.lamport \in Nat /\ f.actor \in Clients /\ f.lamport < e.lamport
              /\ e.lamport \in Nat /\ e.actor \in Clients
            BY DEF Change
        <3> QED BY <3>1, TicketOrder DEF At
    <2> QED BY <2>2, <2>3
<1>6. \A t \in Added(S) : t \in Nat /\ t < x
    BY <1>5 DEF Added, ArrayValue
<1> HIDE DEF x
<1>7. ASSUME NEW k \in 1 .. n
      PROVE  ~(PositionedAt(l.nodes[k]) > x)
    <2>1. l.nodes[k].createdAt \in Nat /\ l.nodes[k].createdAt < x
        BY <1>4, <1>6 DEF CreatedAts
    <2>2. l.nodes[k].movedAt = Nil \/ \E f \in S : l.nodes[k].movedAt = At(f)
        BY DEF ArrayValue, LatestIs, Named
    <2>3. PositionedAt(l.nodes[k]) \in Nat /\ PositionedAt(l.nodes[k]) < x
        BY <1>5, <2>1, <2>2 DEF PositionedAt
    <2> QED BY <1>5, <2>3
<1>8. node \in Node /\ node.createdAt = x
    BY <1>5 DEF NewNode, Node
<1>9. /\ i \in IndexOf(l, p) .. n
      /\ \A j \in (IndexOf(l, p) + 1) .. i : PositionedAt(l.nodes[j]) > x
    BY <1>2, <1>4, <1>5, PlaceFacts
<1> HIDE DEF node, p
<1>10. i \in 0 .. n /\ r \in List /\ Inserted(l.nodes, r.nodes, i, node)
    BY <1>2, <1>4, <1>5, <1>8, InsertFacts
<1> HIDE DEF r, i
<1>11. n \in Nat /\ IndexOf(l, p) \in Nat
    <2>1. p = 0 \/ p # 0
        OBVIOUS
    <2> QED BY <1>2, <1>4, <2>1, IndexFacts
<1>12. i = IndexOf(l, p)
    <2> SUFFICES ASSUME i # IndexOf(l, p) PROVE FALSE
        OBVIOUS
    <2> DEFINE k == IndexOf(l, p) + 1
    <2>1. k \in (IndexOf(l, p) + 1) .. i /\ k \in 1 .. n
        BY <1>9, <1>11
    <2> QED BY <1>7, <1>9, <2>1
<1>13. \A k \in 1 .. Len(l.nodes) : l.nodes[k].createdAt # node.createdAt
    <2>1. x \notin Added(S)
        BY <1>5, <1>6
    <2> QED BY <1>4, <1>8, <2>1 DEF CreatedAts
<1>14. /\ IndexOf(r, node.createdAt) = i + 1
       /\ \A t : Has(l, t) =>
            IndexOf(r, t) = IF IndexOf(l, t) <= i THEN IndexOf(l, t) ELSE IndexOf(l, t) + 1
    BY <1>4, <1>10, <1>13, InsertedFacts
<1>15. IndexOf(r, x) = i + 1 /\ IndexOf(r, p) = i
    BY <1>2, <1>8, <1>11, <1>12, <1>14
<1> QED BY <1>1, <1>2, <1>3, <1>15 DEF x, p

\* Only Update makes the local changes of a replica longer.
LEMMA OnlyUpdateGrows ==
    ASSUME OrderInv, ClockIndInv', ~Collecting, [Next]_vars,
           NEW c \in Clients, Len(local'[c]) > Len(local[c])
    PROVE  Update(c)
<1>1. Len(local[c]) \in Nat
    BY ClientFacts DEF OrderInv
<1>2. local' # local
    BY <1>1
<1>3. PICK d \in Clients : ClientStep(d)
    BY <1>2 DEF Next, vars
<1>4. Update(d) \/ Sync(d)
    BY <1>2, <1>3 DEF ClientStep, ApplyChange, Collect
<1>5. CASE Update(d)
    <2>1. PICK op : Updated(d, [op |-> op, actor |-> d, lamport |-> clock[d] + 1])
        BY <1>5, UpdateFacts
    <2>2. c # d => local'[c] = local[c]
        BY <2>1 DEF Updated
    <2> QED BY <1>1, <1>5, <2>2
<1>6. CASE Sync(d)
    <2>1. Pushed(d)
        BY <1>6, SyncFacts
    <2>2. Len(local'[c]) = 0 \/ local'[c] = local[c]
        BY <2>1, EmptyFacts DEF Pushed
    <2> QED BY <1>1, <2>2
<1> QED BY <1>4, <1>5, <1>6

\* A new element appears where the application put it, right behind prev: the clock
\* of a replica is ahead of all it has executed, so nothing behind prev was
\* positioned later (ArrayProxy.InsertIntegerAfter).
THEOREM InsertionsInPlace == ASSUME ArrayInstance PROVE Spec => InsertedInPlace
<1>1. ~Collecting
    BY DEF ArrayInstance
<1>2. Spec => []ExecInv
    BY <1>1, Execution
<1>3. ASSUME ExecInv, ExecInv', [Next]_vars, NEW c \in Clients,
             Len(local'[c]) > Len(local[c]), Ready(c)
      PROVE  LET op == local'[c][Len(local'[c])].op
                 l == data'[c]
             IN  op.kind = "add" => IndexOf(l, op.elem) = IndexOf(l, op.prev) + 1
    <2> DEFINE k == clock[c] + 1
               S == Executed(c)
    <2>1. OrderInv /\ ClockIndInv' /\ Update(c)
        BY <1>1, <1>3, OnlyUpdateGrows DEF ExecInv, OrderInv
    <2>2. PICK op \in Operations(data[c], TicketOf(k, c)) :
            LET change == [op |-> op, actor |-> c, lamport |-> k]
            IN  ExecuteOn(c, change) /\ local' = [local EXCEPT ![c] = Append(@, change)]
        BY <2>1 DEF Update
    <2> DEFINE e == [op |-> op, actor |-> c, lamport |-> k]
    <2>3. ExecuteOn(c, e) /\ local' = [local EXCEPT ![c] = Append(@, e)] /\ e.op = op
          /\ e.lamport = k
        BY <2>2
    <2>4. local'[c][Len(local'[c])] = e
        <3> HIDE DEF e
        <3>1. local'[c] = Append(local[c], e) /\ IsSeq(local[c])
            BY <2>1, <2>3 DEF OrderInv, ClockIndInv, ClockType
        <3> QED BY <3>1, AppendFacts
    <2>5. /\ c \notin dead /\ data[c] \in List /\ S \subseteq Change /\ ArrayValue(data[c], S)
        BY <1>3, ReplicaValues DEF Ready
    <2>6. k \in Nat \ {0} /\ \A f \in S : f.lamport < k
        <3>1. clock[c] \in Nat /\ \A f \in S : f.lamport <= clock[c]
            BY <2>1, ClientFacts DEF OrderInv, AheadInv
        <3>2. \A f \in S : f.lamport \in Nat
            BY <2>5 DEF Change
        <3> HIDE DEF S
        <3> QED BY <3>1, <3>2
    <2>7. e \in Change /\ ArrayGround(e, S)
        <3>1. op \in ArrayOperations(data[c], TicketOf(k, c)) /\ Operation = ArrayOperation
            BY <2>2 DEF ArrayInstance
        <3> HIDE DEF k, S
        <3> QED BY <2>5, <2>6, <3>1, ArrayUpdates
    <2>8. ASSUME op.kind = "add"
          PROVE  IndexOf(data'[c], op.elem) = IndexOf(data'[c], op.prev) + 1
        <3> HIDE DEF S, e
        <3>1. /\ ~ArrayFails(data[c], e.op, At(e))
              /\ LET r == ArrayExecute(data[c], e.op, At(e))
                 IN  IndexOf(r, e.op.elem) = IndexOf(r, e.op.prev) + 1
            BY <2>3, <2>5, <2>6, <2>7, <2>8, InPlace
        <3>2. ~Fails(data[c], e.op, At(e))
            BY <3>1 DEF ArrayInstance
        <3>3. data' = [data EXCEPT ![c] = Execute(data[c], e.op, At(e))]
            BY <2>3, <3>2 DEF ExecuteOn
        <3>4. data'[c] = ArrayExecute(data[c], e.op, At(e))
            BY <2>1, <3>3 DEF OrderInv, Shape, ArrayInstance
        <3> QED BY <2>3, <3>1, <3>4
    <2> HIDE DEF e
    <2> QED BY <2>3, <2>4, <2>8
<1>4. ExecInv /\ ExecInv' /\ [Next]_vars =>
        [\A c \in Clients : Len(local'[c]) > Len(local[c]) /\ Ready(c) =>
            LET op == local'[c][Len(local'[c])].op
                l == data'[c]
            IN  op.kind = "add" => IndexOf(l, op.elem) = IndexOf(l, op.prev) + 1]_vars
    BY <1>3
<1> QED BY <1>2, <1>4, PTL DEF Spec, InsertedInPlace

\* Unless elements are moved, no operation, local or received, names an element the
\* replica does not have, so none ends a client (Add.Execute and Remove.Execute).
THEOREM ArrayRuns == ASSUME ArrayInstance, "move" \notin Kinds PROVE Spec => []NoFatal
<1>1. Spec => []ExecInv
    <2>1. ~Collecting
        BY DEF ArrayInstance
    <2> QED BY <2>1, Execution
<1>2. NeverFails(ArrayValues, ArrayGrounds)
    <2> SUFFICES ASSUME NEW v, NEW S, NEW e, <<v, S>> \in ArrayValues, S \subseteq Change,
                        <<e, S>> \in ArrayGrounds, e \in Change
                 PROVE  ~ArrayFails(v, e.op, At(e))
        BY DEF NeverFails, ArrayInstance
    <2>1. v \in List /\ ArrayValue(v, S) /\ ArrayGround(e, S)
        BY DEF ArrayValues, ArrayGrounds
    <2>2. e.op.kind # "move"
        BY <2>1 DEF ArrayGround
    <2>3. e.op.kind = "add" => Has(v, e.op.prev)
        BY <2>1, HasAdded DEF ArrayGround
    <2>4. e.op.kind = "remove" => Has(v, e.op.elem)
        BY <2>1, HasAdded DEF ArrayGround
    <2> QED BY <2>2, <2>3, <2>4 DEF ArrayFails
<1>3. ExecInv => NoFatal
    BY <1>2, ArraySound DEF ExecInv, ExecutionsInv
<1> QED BY <1>1, <1>3, PTL
=============================================================================
