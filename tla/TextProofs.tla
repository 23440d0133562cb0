----------------------------- MODULE TextProofs -----------------------------
(***************************************************************************)
(* The replicas of a rich text, with any number of clients and changes:    *)
(* those that have executed the same changes have cut the text into the    *)
(* same blocks and have them in the same order, an edit removes nothing    *)
(* but what its author saw disappear, and a style holds where its author   *)
(* put it.                                                                 *)
(***************************************************************************)
EXTENDS RichTextReplicas, ReplicasProofs

\* The element of Replicas is a rich text, and nothing is collected.
TextInstance ==
    /\ Operation = RichTextOperation
    /\ Empty = NewRichText
    /\ \A t, at : Operations(t, at) = RichTextOperations(t, at)
    /\ \A t, op, at : Fails(t, op, at) = TextFails(t, op, at)
    /\ \A t, op, at : Execute(t, op, at) = RichTextExecute(t, op, at)
    /\ \A t, ticket : GarbageCollect(t, ticket) = CleanupRemovedNodes(t, ticket)
    /\ \A t : Decoded(t) = DecodedText(t)
    /\ Collecting = FALSE

-----------------------------------------------------------------------------
(***************************************************************************)
(* What the executed changes make of a text                                *)
(***************************************************************************)

\* The changes that insert, and the insertions with their lengths: the initial head
\* and the last line are two that are always there.
Inserting(S) == {e \in S : e.op.type = "edit" /\ e.op.len > 0}
Insertion(S, c, n) ==
    \/ c = 0 /\ n = 0
    \/ c = LastLine /\ n = 1
    \/ \E e \in Inserting(S) : c = At(e) /\ n = e.op.len

\* A place in a text is behind the first k characters of an insertion; k is 0 only
\* behind the initial head.
Place(S, c, k) ==
    /\ k \in Nat
    /\ k = 0 => c = 0
    /\ \E n : Insertion(S, c, n) /\ k <= n

\* The place a position names, the place an insertion was made at, and the places the
\* changes have cut the text at.
Offset(pos) == pos.offset + pos.rel
Anchor(S, c, a, k) ==
    \/ c = LastLine /\ a = 0 /\ k = 0
    \/ \E e \in Inserting(S) : c = At(e) /\ a = e.op.from.createdAt /\ k = Offset(e.op.from)
Cuts(S) ==
    {<<e.op.from.createdAt, Offset(e.op.from)>> : e \in S}
    \cup {<<e.op.to.createdAt, Offset(e.op.to)>> : e \in S}

\* Every change is about places that were there before it.
Founded(S) ==
    /\ \A e \in S :
        /\ At(e) \in Nat /\ LastLine < At(e)
        /\ e.op \in RichTextOperation
        /\ \A pos \in {e.op.from, e.op.to} :
              Place(S, pos.createdAt, Offset(pos)) /\ pos.createdAt < At(e)
        /\ (e.op.type = "style" => \A c \in e.op.seen : \E n : Insertion(S, c, n))
    /\ \A e, f \in S : At(e) = At(f) => e = f

\* A block has the characters of its insertion from Start to End.
Of(q, i) == q[i].createdAt
Start(q, i) == q[i].offset
End(q, i) == q[i].offset + q[i].len

Attrs(q, i) == q[i].attrs
RemovedAt(q, i) == q[i].removedAt
CharsAt(q, i) == Chars(q[i])

\* The block has the character before a place.
Covers(q, i, c, k) ==
    /\ Of(q, i) = c
    /\ k <= End(q, i)
    /\ Start(q, i) < k \/ c = 0

\* A block goes from a cut or the start of its insertion to the next cut or the end.
Fits(q, i, S, K) ==
    /\ Of(q, i) # 0
    /\ Start(q, i) < End(q, i)
    /\ Start(q, i) = 0 \/ <<Of(q, i), Start(q, i)>> \in K
    /\ \E m : /\ Insertion(S, Of(q, i), m)
              /\ End(q, i) <= m
              /\ End(q, i) = m \/ <<Of(q, i), End(q, i)>> \in K

\* The initial head comes first and is the only block without characters.
Headed(q) == Len(q) >= 1 /\ Of(q, 1) = 0 /\ Start(q, 1) = 0 /\ End(q, 1) = 0

\* All characters of all insertions are there, cut into blocks at all the cuts.
Blocked(q, S, K) ==
    /\ \A i \in 2 .. Len(q) : Fits(q, i, S, K)
    /\ \A i \in 1 .. Len(q) : \A c : \A k \in Nat :
          Covers(q, i, c, k) /\ <<c, k>> \in K => k = End(q, i)
    /\ \A c, k : Place(S, c, k) => \E i \in 1 .. Len(q) : Covers(q, i, c, k)

\* The characters of an insertion are in their order, with only newer ones between
\* them.
InOrder(q) ==
    /\ \A i, j \in 1 .. Len(q) : i < j /\ Of(q, i) = Of(q, j) => End(q, i) <= Start(q, j)
    /\ \A i, j, m \in 1 .. Len(q) :
          i < m /\ m < j /\ Of(q, i) = Of(q, j) => Of(q, m) >= Of(q, i)

\* An insertion is behind the place it was made at, with only newer ones between.
Behind(q, i, a, k) ==
    \E j \in 1 .. Len(q) :
        /\ j < i
        /\ Covers(q, j, a, k) /\ k = End(q, j)
        /\ \A m \in 1 .. Len(q) : j < m /\ m < i => Of(q, m) > Of(q, i)
Anchored(q, S) ==
    \A i \in 2 .. Len(q) : \A a, k :
        Start(q, i) = 0 /\ Anchor(S, Of(q, i), a, k) => Behind(q, i, a, k)

Structure(q, S, K) ==
    /\ q \in Seq(Block)
    /\ Headed(q) /\ Blocked(q, S, K) /\ InOrder(q) /\ Anchored(q, S)

\* What is removed was seen to disappear.
Dropped(S) == UNION {e.op.deleted : e \in {f \in S : f.op.type = "edit"}}
Struck(q, S) ==
    \A i \in 1 .. Len(q) : RemovedAt(q, i) # Nil =>
        RemovedAt(q, i) > InitialTicket /\ CharsAt(q, i) \subseteq Dropped(S)

\* The latest of its setters tells how a character is shown, if all authors knew it.
Known(S, c) == \A e \in S : e.op.type = "style" => c \in e.op.seen
Latest(attrs, setters) ==
    attrs \in {InitialTicket} \cup setters /\ \A y \in {InitialTicket} \cup setters : y <= attrs
Dressed(q, S) ==
    \A i \in 1 .. Len(q) : Known(S, Of(q, i)) =>
        \A x \in CharsAt(q, i) : Latest(Attrs(q, i), Setters(S, x))

TextValue(t, S) ==
    /\ t \in Text
    /\ Founded(S)
    /\ Structure(t.nodes, S, Cuts(S))
    /\ Struck(t.nodes, S)
    /\ Dressed(t.nodes, S)

\* An operation is one its author may do, who had executed all its older changes.
TextGround(e, S) ==
    \E R, t :
        /\ Complete(R, S)
        /\ TextValue(t, R)
        /\ \A f \in R : At(f) < At(e)
        /\ e.op \in RichTextOperations(t, At(e))

TextValues ==
    {r \in Text \X SUBSET Change : TextValue(r[1], r[2])}
TextGrounds ==
    {r \in Change \X SUBSET Change : TextGround(r[1], r[2])}

-----------------------------------------------------------------------------
(***************************************************************************)
(* Insertions and places                                                   *)
(***************************************************************************)

LEMMA LastLineIs == LastLine = 1
BY NAssumption DEF LastLine, TicketOf

\* An insertion has one length, and only the initial head is without characters.
LEMMA InsertionFacts ==
    ASSUME NEW S, Founded(S), NEW c, NEW n, Insertion(S, c, n)
    PROVE  /\ c \in Nat /\ n \in Nat /\ (c = 0 <=> n = 0)
           /\ \A m : Insertion(S, c, m) => m = n
<1>1. \A e \in Inserting(S) : At(e) \in Nat /\ At(e) > 1 /\ e.op.len \in Nat /\ e.op.len > 0
    BY LastLineIs DEF Inserting, Founded, RichTextOperation
<1>2. \A e, f \in Inserting(S) : At(e) = At(f) => e = f
    BY DEF Inserting, Founded
<1> QED BY <1>1, <1>2, LastLineIs DEF Insertion

\* An insertion was made at one place, which was there before it.
LEMMA AnchorFacts ==
    ASSUME NEW S, Founded(S), NEW c, NEW a, NEW k, Anchor(S, c, a, k)
    PROVE  /\ Place(S, a, k) /\ a \in Nat /\ c \in Nat /\ a < c
           /\ \A b, l : Anchor(S, c, b, l) => b = a /\ l = k
<1>1. \A e \in Inserting(S) :
        /\ At(e) \in Nat /\ At(e) > 1
        /\ Place(S, e.op.from.createdAt, Offset(e.op.from)) /\ e.op.from.createdAt < At(e)
    BY LastLineIs DEF Inserting, Founded
<1>2. \A e, f \in Inserting(S) : At(e) = At(f) => e = f
    BY DEF Inserting, Founded
<1>3. Place(S, 0, 0)
    BY DEF Place, Insertion
<1>4. Place(S, a, k) /\ c \in Nat /\ a < c
    BY <1>1, <1>3, LastLineIs DEF Anchor
<1>5. a \in Nat
    BY <1>4, InsertionFacts DEF Place
<1> QED BY <1>1, <1>2, <1>4, <1>5, LastLineIs DEF Anchor

\* Every insertion but the initial head was made somewhere.
LEMMA AnchorExists ==
    ASSUME NEW S, NEW c, NEW n, Insertion(S, c, n), c # 0
    PROVE  \E a, k : Anchor(S, c, a, k)
BY DEF Insertion, Anchor

-----------------------------------------------------------------------------
(***************************************************************************)
(* Blocks and the lookup of places                                         *)
(***************************************************************************)

\* The numbers of a block.
LEMMA BlockType ==
    ASSUME NEW q \in Seq(Block)
    PROVE  /\ Len(q) \in Nat /\ DOMAIN q = 1 .. Len(q)
           /\ \A i \in 1 .. Len(q) :
                /\ q[i] \in Block
                /\ Of(q, i) \in Nat /\ Start(q, i) \in Nat /\ End(q, i) \in Nat
                /\ Start(q, i) <= End(q, i)
<1>1. Len(q) \in Nat /\ DOMAIN q = 1 .. Len(q) /\ \A i \in 1 .. Len(q) : q[i] \in Block
    OBVIOUS
<1>2. ASSUME NEW n \in Block
      PROVE  /\ n.createdAt \in Nat /\ n.offset \in Nat /\ n.offset + n.len \in Nat
             /\ n.offset <= n.offset + n.len
    <2> DEFINE o == n.offset
               l == n.len
    <2>1. o \in Nat /\ l \in Nat /\ n.createdAt \in Nat
        BY DEF Block
    <2> HIDE DEF o, l
    <2>2. o + l \in Nat /\ o <= o + l
        BY <2>1
    <2> QED BY <2>1, <2>2 DEF o, l
<1> QED BY <1>1, <1>2 DEF Of, Start, End

\* The blocks of a structure.
LEMMA BlockFacts ==
    ASSUME NEW S, Founded(S), NEW K, NEW q, Structure(q, S, K)
    PROVE  /\ Len(q) \in Nat /\ Len(q) >= 1 /\ DOMAIN q = 1 .. Len(q)
           /\ \A i \in 1 .. Len(q) :
                /\ Of(q, i) \in Nat /\ Start(q, i) \in Nat /\ End(q, i) \in Nat
                /\ Start(q, i) <= End(q, i)
                /\ (Of(q, i) = 0 <=> i = 1)
                /\ (i = 1 => Start(q, i) = 0 /\ End(q, i) = 0)
                /\ (i # 1 => Start(q, i) < End(q, i))
                /\ Covers(q, i, Of(q, i), End(q, i))
                /\ Place(S, Of(q, i), End(q, i))
<1>1. q \in Seq(Block) /\ Headed(q)
    BY DEF Structure
<1>2. /\ Len(q) \in Nat /\ Len(q) >= 1 /\ DOMAIN q = 1 .. Len(q)
      /\ Of(q, 1) = 0 /\ Start(q, 1) = 0 /\ End(q, 1) = 0
    BY <1>1, BlockType DEF Headed
<1>3. \A i \in 2 .. Len(q) : Fits(q, i, S, K)
    BY DEF Structure, Blocked
<1>4. ASSUME NEW i \in 1 .. Len(q)
      PROVE  /\ Of(q, i) \in Nat /\ Start(q, i) \in Nat /\ End(q, i) \in Nat
             /\ Start(q, i) <= End(q, i)
             /\ (Of(q, i) = 0 <=> i = 1)
             /\ (i = 1 => Start(q, i) = 0 /\ End(q, i) = 0)
             /\ (i # 1 => Start(q, i) < End(q, i))
             /\ Covers(q, i, Of(q, i), End(q, i))
             /\ Place(S, Of(q, i), End(q, i))
    <2>1. Of(q, i) \in Nat /\ Start(q, i) \in Nat /\ End(q, i) \in Nat /\ Start(q, i) <= End(q, i)
        BY <1>1, BlockType
    <2>2. CASE i = 1
        <3>1. Insertion(S, 0, 0)
            BY DEF Insertion
        <3> QED BY <1>2, <2>1, <2>2, <3>1 DEF Covers, Place
    <2>3. CASE i # 1
        <3>1. i \in 2 .. Len(q)
            BY <1>2, <2>3
        <3>2. /\ Of(q, i) # 0 /\ Start(q, i) < End(q, i)
              /\ \E m : Insertion(S, Of(q, i), m) /\ End(q, i) <= m
            BY <1>3, <3>1 DEF Fits
        <3>3. End(q, i) # 0
            BY <2>1, <3>2
        <3>4. Place(S, Of(q, i), End(q, i))
            BY <2>1, <3>2, <3>3 DEF Place
        <3>5. Covers(q, i, Of(q, i), End(q, i))
            BY <2>1, <3>2 DEF Covers
        <3> QED BY <2>1, <2>3, <3>2, <3>4, <3>5
    <2> QED BY <2>2, <2>3
<1> QED BY <1>2, <1>4

\* What place a block can cover.
LEMMA CoverFacts ==
    ASSUME NEW S, Founded(S), NEW K, NEW q, Structure(q, S, K),
           NEW i \in 1 .. Len(q), NEW c, NEW k \in Nat, Covers(q, i, c, k)
    PROVE  /\ c = Of(q, i) /\ c \in Nat /\ (c = 0 <=> i = 1) /\ (k = 0 <=> i = 1)
           /\ Start(q, i) <= k /\ k <= End(q, i)
           /\ (i # 1 => Start(q, i) < k)
           /\ Place(S, c, k)
<1>1. /\ Of(q, i) \in Nat /\ Start(q, i) \in Nat /\ End(q, i) \in Nat
      /\ (Of(q, i) = 0 <=> i = 1)
      /\ (i = 1 => Start(q, i) = 0 /\ End(q, i) = 0)
      /\ Place(S, Of(q, i), End(q, i))
    BY BlockFacts
<1>2. c = Of(q, i) /\ k <= End(q, i) /\ (Start(q, i) < k \/ c = 0)
    BY DEF Covers
<1>3. (k = 0 <=> i = 1) /\ Start(q, i) <= k /\ (i # 1 => Start(q, i) < k)
    BY <1>1, <1>2
<1>4. PICK m : Insertion(S, c, m) /\ End(q, i) <= m
    BY <1>1, <1>2 DEF Place
<1>5. m \in Nat
    BY <1>4, InsertionFacts
<1>6. k <= m
    BY <1>1, <1>2, <1>4, <1>5
<1>7. Place(S, c, k)
    BY <1>1, <1>2, <1>3, <1>4, <1>6 DEF Place
<1> QED BY <1>1, <1>2, <1>3, <1>7

\* Of two blocks of an insertion the first ends before the second begins.
LEMMA BlocksApart ==
    ASSUME NEW S, Founded(S), NEW K, NEW q, Structure(q, S, K),
           NEW i \in 1 .. Len(q), NEW j \in 1 .. Len(q), Of(q, i) = Of(q, j)
    PROVE  /\ (i < j => End(q, i) <= Start(q, j))
           /\ (i < j => Start(q, i) < Start(q, j))
           /\ (Start(q, i) = Start(q, j) => i = j)
<1>1. i < j => End(q, i) <= Start(q, j)
    BY DEF Structure, InOrder
<1>2. j < i => End(q, j) <= Start(q, i)
    BY DEF Structure, InOrder
<1>3. /\ \A h \in 1 .. Len(q) : Start(q, h) \in Nat /\ End(q, h) \in Nat
      /\ \A h \in 1 .. Len(q) : (Of(q, h) = 0 <=> h = 1) /\ (h # 1 => Start(q, h) < End(q, h))
    BY BlockFacts
<1>4. i # j => i # 1 /\ j # 1
    BY <1>3
<1> QED BY <1>1, <1>2, <1>3, <1>4

\* Places of an insertion are in the order of their offsets, and one block has the
\* character before a place.
LEMMA CoverOrder ==
    ASSUME NEW S, Founded(S), NEW K, NEW q, Structure(q, S, K),
           NEW i \in 1 .. Len(q), NEW j \in 1 .. Len(q), NEW c, NEW k \in Nat, NEW l \in Nat,
           Covers(q, i, c, k), Covers(q, j, c, l)
    PROVE  (k <= l => i <= j) /\ (i < j => k < l) /\ (k = l => i = j)
<1>1. /\ c = Of(q, i) /\ (c = 0 <=> i = 1) /\ k <= End(q, i)
      /\ (i # 1 => Start(q, i) < k)
    BY CoverFacts
<1>2. /\ c = Of(q, j) /\ (c = 0 <=> j = 1) /\ l <= End(q, j)
      /\ (j # 1 => Start(q, j) < l)
    BY CoverFacts
<1>3. (i < j => End(q, i) <= Start(q, j)) /\ (j < i => End(q, j) <= Start(q, i))
    BY <1>1, <1>2, BlocksApart
<1>4. Start(q, i) \in Nat /\ End(q, i) \in Nat /\ Start(q, j) \in Nat /\ End(q, j) \in Nat
    BY BlockFacts
<1>5. i # j => i # 1 /\ j # 1
    BY <1>1, <1>2
<1> QED BY <1>1, <1>2, <1>3, <1>4, <1>5

\* The block that has the character before a place.
Spot(q, c, k) == CHOOSE i \in 1 .. Len(q) : Covers(q, i, c, k)

LEMMA SpotFacts ==
    ASSUME NEW S, Founded(S), NEW K, NEW q, Structure(q, S, K), NEW c, NEW k, Place(S, c, k)
    PROVE  /\ Spot(q, c, k) \in 1 .. Len(q) /\ Covers(q, Spot(q, c, k), c, k)
           /\ Of(q, Spot(q, c, k)) = c /\ c \in Nat /\ k \in Nat /\ (c = 0 <=> k = 0)
<1>1. \E i \in 1 .. Len(q) : Covers(q, i, c, k)
    BY DEF Structure, Blocked
<1>2. Spot(q, c, k) \in 1 .. Len(q) /\ Covers(q, Spot(q, c, k), c, k)
    BY <1>1 DEF Spot
<1>3. k \in Nat
    BY DEF Place
<1>4. Of(q, Spot(q, c, k)) = c /\ c \in Nat /\ (c = 0 <=> k = 0)
    BY <1>2, <1>3, CoverFacts
<1> QED BY <1>2, <1>3, <1>4

\* It is the only one, and ends there if the text is cut there.
LEMMA SpotIs ==
    ASSUME NEW S, Founded(S), NEW K, NEW q, Structure(q, S, K), NEW c, NEW k \in Nat,
           NEW i \in 1 .. Len(q), Covers(q, i, c, k)
    PROVE  i = Spot(q, c, k)
<1>1. Spot(q, c, k) \in 1 .. Len(q) /\ Covers(q, Spot(q, c, k), c, k)
    BY DEF Spot
<1> QED BY <1>1, CoverOrder

LEMMA SpotEnds ==
    ASSUME NEW S, Founded(S), NEW K, NEW q, Structure(q, S, K), NEW c, NEW k, Place(S, c, k),
           <<c, k>> \in K
    PROVE  End(q, Spot(q, c, k)) = k
<1>1. Spot(q, c, k) \in 1 .. Len(q) /\ Covers(q, Spot(q, c, k), c, k) /\ k \in Nat
    BY SpotFacts
<1> QED BY <1>1 DEF Structure, Blocked

\* The blocks of a text.
Nodes(t) == t.nodes

\* findFloorNode: the block that begins last of those up to an offset.
LEMMA FloorFacts ==
    ASSUME NEW t, NEW S, Founded(S), NEW K, Structure(Nodes(t), S, K), NEW c, NEW o
    PROVE  /\ \A i : i \in BlocksUpTo(t, c, o) <=>
                        i \in 1 .. Len(Nodes(t)) /\ Of(Nodes(t), i) = c /\ Start(Nodes(t), i) <= o
           /\ \A p \in BlocksUpTo(t, c, o) :
                (\A i \in BlocksUpTo(t, c, o) : Start(Nodes(t), i) <= Start(Nodes(t), p))
                => Floor(t, c, o) = p
<1> DEFINE q == Nodes(t)
<1>1. DOMAIN q = 1 .. Len(q)
    BY BlockFacts
<1>2. \A i : i \in BlocksUpTo(t, c, o) <=> i \in 1 .. Len(q) /\ Of(q, i) = c /\ Start(q, i) <= o
    BY <1>1 DEF BlocksUpTo, Of, Start, Nodes
<1>3. Floor(t, c, o) = CHOOSE i \in BlocksUpTo(t, c, o) :
                          \A j \in BlocksUpTo(t, c, o) : Start(q, j) <= Start(q, i)
    BY DEF Floor, Start, Nodes
<1> HIDE DEF q
<1>4. ASSUME NEW p \in BlocksUpTo(t, c, o),
             \A i \in BlocksUpTo(t, c, o) : Start(q, i) <= Start(q, p)
      PROVE  Floor(t, c, o) = p
    <2> DEFINE f == Floor(t, c, o)
    <2>1. f \in BlocksUpTo(t, c, o) /\ \A j \in BlocksUpTo(t, c, o) : Start(q, j) <= Start(q, f)
        BY <1>3, <1>4
    <2> HIDE DEF f
    <2>2. Start(q, f) <= Start(q, p) /\ Start(q, p) <= Start(q, f)
        BY <1>4, <2>1
    <2>3. /\ f \in 1 .. Len(q) /\ p \in 1 .. Len(q) /\ Of(q, f) = c /\ Of(q, p) = c
        BY <1>2, <2>1
    <2>4. Start(q, f) \in Nat /\ Start(q, p) \in Nat
        BY <2>3, BlockFacts DEF q
    <2>5. Start(q, f) = Start(q, p)
        BY <2>2, <2>4
    <2>6. f = p
        BY <2>3, <2>5, BlocksApart DEF q
    <2> QED BY <2>6 DEF f
<1> QED BY <1>2, <1>4 DEF q

\* findFloorNodePreferToLeft finds the block that has the character before the place.
LEMMA FindsBlock ==
    ASSUME NEW t, NEW S, Founded(S), NEW K, Structure(Nodes(t), S, K), NEW c, NEW k,
           Place(S, c, k)
    PROVE  FloorPreferToLeft(t, c, k) = Spot(Nodes(t), c, k)
<1> DEFINE q == Nodes(t)
           p == Spot(q, c, k)
<1>1. /\ p \in 1 .. Len(q) /\ Covers(q, p, c, k) /\ c \in Nat /\ k \in Nat /\ (c = 0 <=> k = 0)
    BY SpotFacts
<1> HIDE DEF p
<1>2. /\ c = Of(q, p) /\ (k = 0 <=> p = 1) /\ Start(q, p) <= k /\ k <= End(q, p)
      /\ (p # 1 => Start(q, p) < k)
    BY <1>1, CoverFacts
<1>3. \A i \in 1 .. Len(q) : Start(q, i) \in Nat /\ End(q, i) \in Nat /\ (Of(q, i) = 0 <=> i = 1)
    BY BlockFacts
<1>4. \A i \in 1 .. Len(q) : Of(q, i) = c => /\ (i < p => Start(q, i) < Start(q, p))
                                            /\ (p < i => End(q, p) <= Start(q, i))
    BY <1>1, <1>2, BlocksApart
<1>5. \A o : /\ \A i : i \in BlocksUpTo(t, c, o) <=>
                          i \in 1 .. Len(q) /\ Of(q, i) = c /\ Start(q, i) <= o
             /\ \A m \in BlocksUpTo(t, c, o) :
                  (\A i \in BlocksUpTo(t, c, o) : Start(q, i) <= Start(q, m))
                  => Floor(t, c, o) = m
    BY FloorFacts
<1>6. FloorPreferToLeft(t, c, k) =
        IF k > 0 /\ Start(q, Floor(t, c, k)) = k /\ BlocksUpTo(t, c, k - 1) # {}
        THEN Floor(t, c, k - 1) ELSE Floor(t, c, k)
    BY DEF FloorPreferToLeft, Start, Nodes
<1> HIDE DEF q
<1>7. CASE k = 0
    <2>1. p = 1 /\ c = 0 /\ Start(q, p) <= k
        BY <1>1, <1>2, <1>7
    <2>2. p \in BlocksUpTo(t, c, k) /\ \A i \in BlocksUpTo(t, c, k) : i = p
        BY <1>1, <1>2, <1>3, <1>5, <2>1
    <2>3. Start(q, p) <= Start(q, p)
        BY <1>1, <1>3
    <2>4. Floor(t, c, k) = p
        BY <1>5, <2>2, <2>3
    <2> QED BY <1>6, <1>7, <2>4 DEF p, q
<1>8. CASE k # 0
    <2>1. p # 1 /\ Start(q, p) < k /\ Start(q, p) <= k - 1 /\ k > 0 /\ k - 1 \in Nat
        BY <1>1, <1>2, <1>3, <1>8
    <2>2. ASSUME NEW i \in 1 .. Len(q), Of(q, i) = c, Start(q, i) < k
          PROVE  Start(q, i) <= Start(q, p)
        <3>1. ~(p < i)
            BY <1>1, <1>2, <1>3, <1>4, <2>2
        <3>2. i = p \/ i < p
            BY <1>1, <3>1
        <3> QED BY <1>1, <1>3, <1>4, <2>2, <3>2
    <2>3. p \in BlocksUpTo(t, c, k - 1)
        BY <1>1, <1>2, <1>5, <2>1
    <2>4. \A i \in BlocksUpTo(t, c, k - 1) : i \in 1 .. Len(q) /\ Of(q, i) = c /\ Start(q, i) < k
        <3>1. \A x \in Nat : x <= k - 1 => x < k
            BY <1>1
        <3>2. \A i \in BlocksUpTo(t, c, k - 1) :
                i \in 1 .. Len(q) /\ Of(q, i) = c /\ Start(q, i) <= k - 1
            BY <1>5
        <3> QED BY <1>3, <3>1, <3>2
    <2>5. Floor(t, c, k - 1) = p
        BY <1>5, <2>2, <2>3, <2>4
    <2>6. CASE \E r \in 1 .. Len(q) : Of(q, r) = c /\ Start(q, r) = k
        <3>1. PICK r \in 1 .. Len(q) : Of(q, r) = c /\ Start(q, r) = k
            BY <2>6
        <3>2. k <= k
            BY <1>1
        <3>3. r \in BlocksUpTo(t, c, k) /\ \A i \in BlocksUpTo(t, c, k) : Start(q, i) <= Start(q, r)
            BY <1>5, <3>1, <3>2
        <3>4. Floor(t, c, k) = r
            BY <1>5, <3>3
        <3> QED BY <1>6, <2>1, <2>3, <2>5, <3>1, <3>4 DEF p, q
    <2>7. CASE ~\E r \in 1 .. Len(q) : Of(q, r) = c /\ Start(q, r) = k
        <3>1. p \in BlocksUpTo(t, c, k)
            BY <1>1, <1>2, <1>5
        <3>2. \A i \in BlocksUpTo(t, c, k) : i \in 1 .. Len(q) /\ Of(q, i) = c /\ Start(q, i) < k
            BY <1>1, <1>3, <1>5, <2>7
        <3>3. Floor(t, c, k) = p
            BY <1>5, <2>2, <3>1, <3>2
        <3>4. Start(q, p) # k
            BY <1>1, <1>2, <2>7
        <3> QED BY <1>6, <3>3, <3>4 DEF p, q
    <2> QED BY <2>6, <2>7
<1> QED BY <1>7, <1>8

\* So no lookup of a place fails.
LEMMA LookupFinds ==
    ASSUME NEW t, NEW S, Founded(S), NEW K, Structure(Nodes(t), S, K), NEW pos,
           Place(S, pos.createdAt, Offset(pos))
    PROVE  ~LookupFails(t, pos)
<1> DEFINE q == Nodes(t)
           c == pos.createdAt
           k == Offset(pos)
           p == Spot(q, c, k)
<1>1. p \in 1 .. Len(q) /\ Covers(q, p, c, k) /\ k \in Nat
    BY SpotFacts
<1>2. FloorPreferToLeft(t, c, k) = p
    BY FindsBlock
<1>3. c = Of(q, p) /\ Start(q, p) <= k /\ k <= End(q, p)
    BY <1>1, CoverFacts
<1>4. p \in BlocksUpTo(t, c, k)
    BY <1>1, <1>3, FloorFacts
<1>5. ~(k - q[p].offset > q[p].len)
    <2> DEFINE o == q[p].offset
               l == q[p].len
    <2>1. q \in Seq(Block)
        BY DEF Structure
    <2>2. o \in Nat /\ l \in Nat
        <3> HIDE DEF q, p
        <3>1. q[p] \in Block
            BY <1>1, <2>1
        <3> QED BY <3>1 DEF Block
    <2>3. k <= o + l
        BY <1>3 DEF End
    <2> HIDE DEF o, l, k
    <2>4. ~(k - o > l)
        BY <1>1, <2>2, <2>3
    <2> QED BY <2>4 DEF o, l
<1>6. LookupFails(t, pos) <=> BlocksUpTo(t, c, k) = {} \/
                              k - q[FloorPreferToLeft(t, c, k)].offset >
                              q[FloorPreferToLeft(t, c, k)].len
    BY DEF LookupFails, Offset, Nodes
<1> QED BY <1>2, <1>4, <1>5, <1>6

-----------------------------------------------------------------------------
(***************************************************************************)
(* Splitting a block                                                       *)
(***************************************************************************)

\* A slice of a sequence, and two sequences joined.
LEMMA Slice ==
    ASSUME NEW D, NEW s \in Seq(D), NEW i \in Nat, NEW j \in Nat, i <= j, j <= Len(s)
    PROVE  /\ SubSeq(s, i + 1, j) \in Seq(D)
           /\ Len(SubSeq(s, i + 1, j)) = j - i
           /\ \A m \in 1 .. (j - i) : SubSeq(s, i + 1, j)[m] = s[i + m]
<1>1. SubSeq(s, i + 1, j) \in Seq(D)
    OBVIOUS
<1>2. Len(SubSeq(s, i + 1, j)) = j - i
    OBVIOUS
<1>3. \A m \in 1 .. (j - i) : SubSeq(s, i + 1, j)[m] = s[i + m]
    OBVIOUS
<1> QED BY <1>1, <1>2, <1>3

LEMMA Pair ==
    ASSUME NEW D, NEW a \in D, NEW b \in D
    PROVE  \E s \in Seq(D) : s = <<a, b>> /\ Len(s) = 2 /\ s[1] = a /\ s[2] = b
<1>1. /\ <<a, b>> \in Seq(D) /\ Len(<<a, b>>) = 2 /\ <<a, b>>[1] = a /\ <<a, b>>[2] = b
    OBVIOUS
<1> DEFINE t == <<a, b>>
<1> HIDE DEF t
<1>2. t \in Seq(D) /\ Len(t) = 2 /\ t[1] = a /\ t[2] = b
    BY <1>1 DEF t
<1> QED BY <1>2 DEF t

LEMMA Join ==
    ASSUME NEW D, NEW u \in Seq(D), NEW v \in Seq(D)
    PROVE  /\ u \o v \in Seq(D)
           /\ Len(u \o v) = Len(u) + Len(v)
           /\ \A m \in 1 .. Len(u) : (u \o v)[m] = u[m]
           /\ \A m \in 1 .. Len(v) : (u \o v)[Len(u) + m] = v[m]
OBVIOUS

\* A part of a sequence replaced by another.
Spliced(s, r, i, new, j) ==
    /\ Len(r) = i + Len(new) + (Len(s) - j)
    /\ \A m \in 1 .. i : r[m] = s[m]
    /\ \A m \in 1 .. Len(new) : r[i + m] = new[m]
    /\ \A m \in 1 .. (Len(s) - j) : r[i + Len(new) + m] = s[j + m]

LEMMA Splice ==
    ASSUME NEW D, NEW s \in Seq(D), NEW new \in Seq(D), NEW i \in Nat, NEW j \in Nat,
           i <= j, j <= Len(s)
    PROVE  LET r == SubSeq(s, 1, i) \o new \o SubSeq(s, j + 1, Len(s))
           IN  r \in Seq(D) /\ Spliced(s, r, i, new, j)
<1>1. PICK n \in Nat : n = Len(s)
    OBVIOUS
<1>2. PICK l \in Nat : l = Len(new)
    OBVIOUS
<1>3. PICK u \in Seq(D) : u = SubSeq(s, 1, i) /\ Len(u) = i /\ \A m \in 1 .. i : u[m] = s[m]
    <2>1. 0 <= i /\ i <= Len(s) /\ 0 \in Nat /\ i - 0 = i /\ 0 + 1 = 1 /\ \A m \in 1 .. i : 0 + m = m
        BY <1>1
    <2>2. /\ SubSeq(s, 0 + 1, i) \in Seq(D) /\ Len(SubSeq(s, 0 + 1, i)) = i - 0
          /\ \A m \in 1 .. (i - 0) : SubSeq(s, 0 + 1, i)[m] = s[0 + m]
        BY <2>1, Slice
    <2>3. /\ SubSeq(s, 1, i) \in Seq(D) /\ Len(SubSeq(s, 1, i)) = i
          /\ \A m \in 1 .. i : SubSeq(s, 1, i)[m] = s[0 + m]
        BY <2>1, <2>2
    <2>4. \A m \in 1 .. i : s[0 + m] = s[m]
        BY <2>1
    <2> QED BY <2>3, <2>4
<1>4. PICK v \in Seq(D) : /\ v = SubSeq(s, j + 1, Len(s)) /\ Len(v) = n - j
                          /\ \A m \in 1 .. (n - j) : v[m] = s[j + m]
    <2>1. j <= n
        BY <1>1
    <2>2. /\ SubSeq(s, j + 1, n) \in Seq(D) /\ Len(SubSeq(s, j + 1, n)) = n - j
          /\ \A m \in 1 .. (n - j) : SubSeq(s, j + 1, n)[m] = s[j + m]
        BY <1>1, <2>1, Slice
    <2> QED BY <1>1, <2>2
<1>5. PICK w \in Seq(D) : /\ w = u \o new /\ Len(w) = i + l
                          /\ \A m \in 1 .. i : w[m] = u[m]
                          /\ \A m \in 1 .. l : w[i + m] = new[m]
    <2>1. /\ u \o new \in Seq(D) /\ Len(u \o new) = Len(u) + Len(new)
          /\ \A m \in 1 .. Len(u) : (u \o new)[m] = u[m]
          /\ \A m \in 1 .. Len(new) : (u \o new)[Len(u) + m] = new[m]
        BY Join
    <2>2. Len(u) = i
        BY <1>3
    <2> DEFINE x == u \o new
    <2> HIDE DEF x
    <2>3. /\ x \in Seq(D) /\ Len(x) = i + l
          /\ \A m \in 1 .. i : x[m] = u[m]
          /\ \A m \in 1 .. l : x[i + m] = new[m]
        BY <1>2, <2>1, <2>2 DEF x
    <2> QED BY <2>3 DEF x
<1>6. PICK r \in Seq(D) : /\ r = w \o v /\ Len(r) = i + l + (n - j)
                          /\ \A m \in 1 .. (i + l) : r[m] = w[m]
                          /\ \A m \in 1 .. (n - j) : r[i + l + m] = v[m]
    <2>1. /\ w \o v \in Seq(D) /\ Len(w \o v) = Len(w) + Len(v)
          /\ \A m \in 1 .. Len(w) : (w \o v)[m] = w[m]
          /\ \A m \in 1 .. Len(v) : (w \o v)[Len(w) + m] = v[m]
        BY Join
    <2>2. Len(w) = i + l /\ Len(v) = n - j
        BY <1>4, <1>5
    <2> DEFINE x == w \o v
    <2> HIDE DEF x
    <2>3. /\ x \in Seq(D) /\ Len(x) = i + l + (n - j)
          /\ \A m \in 1 .. (i + l) : x[m] = w[m]
          /\ \A m \in 1 .. (n - j) : x[i + l + m] = v[m]
        BY <2>1, <2>2 DEF x
    <2> QED BY <2>3 DEF x
<1>7. r = SubSeq(s, 1, i) \o new \o SubSeq(s, j + 1, Len(s))
    BY <1>3, <1>4, <1>5, <1>6
<1>8. /\ \A m \in 1 .. i : m \in 1 .. (i + l)
      /\ \A m \in 1 .. l : i + m \in 1 .. (i + l)
    OBVIOUS
<1>9. \A m \in 1 .. i : r[m] = s[m]
    BY <1>3, <1>5, <1>6, <1>8
<1>10. \A m \in 1 .. l : r[i + m] = new[m]
    BY <1>5, <1>6, <1>8
<1>11. \A m \in 1 .. (n - j) : r[i + l + m] = s[j + m]
    BY <1>4, <1>6
<1>12. Spliced(s, r, i, new, j)
    BY <1>1, <1>2, <1>6, <1>9, <1>10, <1>11 DEF Spliced
<1> QED BY <1>7, <1>12

\* The block at p is cut in two at the place k, the second of which is not removed.
Whole(p, i) == IF i <= p THEN i ELSE i - 1
CutAt(q, r, p, k) ==
    /\ r \in Seq(Block) /\ Len(r) = Len(q) + 1
    /\ \A i \in 1 .. Len(r) :
          /\ Of(r, i) = Of(q, Whole(p, i))
          /\ Start(r, i) = IF i = p + 1 THEN k ELSE Start(q, Whole(p, i))
          /\ End(r, i) = IF i = p THEN k ELSE End(q, Whole(p, i))
          /\ Attrs(r, i) = Attrs(q, Whole(p, i))
          /\ RemovedAt(r, i) \in {Nil, RemovedAt(q, Whole(p, i))}

\* The two halves.
LEMMA HalfFacts ==
    ASSUME NEW n \in Block, NEW k \in Nat, n.offset < k, k < n.offset + n.len
    PROVE  LET a == [n EXCEPT !.len = k - n.offset]
               b == RightPart(n, k - n.offset)
           IN  /\ a \in Block /\ a.createdAt = n.createdAt /\ a.offset = n.offset
               /\ a.offset + a.len = k /\ a.attrs = n.attrs /\ a.removedAt = n.removedAt
               /\ b \in Block /\ b.createdAt = n.createdAt /\ b.offset = k
               /\ b.offset + b.len = n.offset + n.len /\ b.attrs = n.attrs /\ b.removedAt = Nil
<1>1. PICK o \in Nat : o = n.offset
    BY DEF Block
<1>2. PICK l \in Nat : l = n.len
    BY DEF Block
<1>3. PICK at \in Nat : at = k - o /\ o + at = k /\ l - at \in Nat /\ k + (l - at) = o + l
    BY <1>1, <1>2
<1>4. /\ n.createdAt \in Nat /\ n.attrs \in Nat /\ n.removedAt \in Nat \cup {Nil}
    BY DEF Block
<1> DEFINE a == [n EXCEPT !.len = at]
           b == [n EXCEPT !.offset = o + at, !.len = l - at, !.removedAt = Nil]
<1>5. /\ a \in Block /\ a.createdAt = n.createdAt /\ a.offset = o /\ a.len = at
      /\ a.attrs = n.attrs /\ a.removedAt = n.removedAt
    BY <1>1, <1>3, <1>4 DEF Block
<1>6. /\ b \in Block /\ b.createdAt = n.createdAt /\ b.offset = k /\ b.len = l - at
      /\ b.attrs = n.attrs /\ b.removedAt = Nil
    BY <1>1, <1>3, <1>4 DEF Block
<1>7. a = [n EXCEPT !.len = k - n.offset] /\ b = RightPart(n, k - n.offset)
    BY <1>1, <1>2, <1>3 DEF RightPart
<1> HIDE DEF a, b
<1> QED BY <1>1, <1>2, <1>3, <1>5, <1>6, <1>7

\* splitNode.
LEMMA SplitCuts ==
    ASSUME NEW q \in Seq(Block), NEW p \in 1 .. Len(q), NEW k \in Nat,
           Start(q, p) < k, k < End(q, p)
    PROVE  LET at == k - q[p].offset
           IN  CutAt(q, SubSeq(q, 1, p - 1) \o <<[q[p] EXCEPT !.len = at], RightPart(q[p], at)>>
                        \o SubSeq(q, p + 1, Len(q)), p, k)
<1>1. PICK n \in Block : n = q[p]
    OBVIOUS
<1>2. n.offset < k /\ k < n.offset + n.len
    BY <1>1 DEF Start, End
<1>3. PICK a \in Block :
        /\ a = [n EXCEPT !.len = k - n.offset] /\ a.createdAt = n.createdAt
        /\ a.offset = n.offset /\ a.offset + a.len = k /\ a.attrs = n.attrs
        /\ a.removedAt = n.removedAt
    BY <1>2, HalfFacts
<1>4. PICK b \in Block :
        /\ b = RightPart(n, k - n.offset) /\ b.createdAt = n.createdAt /\ b.offset = k
        /\ b.offset + b.len = n.offset + n.len /\ b.attrs = n.attrs /\ b.removedAt = Nil
    BY <1>2, HalfFacts
<1>5. PICK len \in Nat : len = Len(q)
    OBVIOUS
<1>6. PICK i \in Nat : i = p - 1 /\ i + 1 = p /\ i <= p /\ p \in Nat /\ p <= len
    BY <1>5
<1>7. PICK new \in Seq(Block) : new = <<a, b>> /\ Len(new) = 2 /\ new[1] = a /\ new[2] = b
    BY Pair
<1> DEFINE x == SubSeq(q, 1, i) \o new \o SubSeq(q, p + 1, Len(q))
<1>8. x \in Seq(Block) /\ Spliced(q, x, i, new, p)
    BY <1>5, <1>6, Splice
<1>9. x = SubSeq(q, 1, p - 1) \o <<[q[p] EXCEPT !.len = k - q[p].offset],
                                  RightPart(q[p], k - q[p].offset)>>
              \o SubSeq(q, p + 1, Len(q))
    BY <1>1, <1>3, <1>4, <1>6, <1>7
<1> HIDE DEF x
<1>10. PICK r \in Seq(Block) : r = x
    BY <1>8
<1>11. /\ Len(r) = len + 1
       /\ \A m \in 1 .. i : r[m] = q[m]
       /\ r[p] = a /\ r[p + 1] = b
       /\ \A m \in 1 .. (len - p) : r[p + 1 + m] = q[p + m]
    <2>1. /\ Len(r) = i + 2 + (len - p)
          /\ \A m \in 1 .. i : r[m] = q[m]
          /\ \A m \in 1 .. 2 : r[i + m] = new[m]
          /\ \A m \in 1 .. (len - p) : r[i + 2 + m] = q[p + m]
        BY <1>5, <1>7, <1>8, <1>10 DEF Spliced
    <2>2. i + 1 = p /\ i + 2 = p + 1 /\ i + 2 + (len - p) = len + 1
        BY <1>6
    <2>3. r[i + 1] = new[1] /\ r[i + 2] = new[2]
        BY <2>1
    <2> QED BY <1>7, <2>1, <2>2, <2>3
<1>12. ASSUME NEW m \in 1 .. (len + 1)
       PROVE  /\ (m = p => Whole(p, m) = p /\ m # p + 1)
              /\ (m = p + 1 => Whole(p, m) = p /\ m # p)
              /\ (m # p /\ m # p + 1 => Whole(p, m) \in 1 .. len /\ r[m] = q[Whole(p, m)])
    <2>1. CASE m = p
        BY <1>6, <2>1 DEF Whole
    <2>2. CASE m = p + 1
        BY <1>6, <2>2 DEF Whole
    <2>3. CASE m \in 1 .. i
        BY <1>6, <1>11, <2>3 DEF Whole
    <2>4. CASE m # p /\ m # p + 1 /\ m \notin 1 .. i
        <3>1. PICK j \in 1 .. (len - p) : m = p + 1 + j /\ p + j = m - 1 /\ ~(m <= p) /\ m - 1 \in 1 .. len
            <4>1. m - (p + 1) \in 1 .. (len - p) /\ m = p + 1 + (m - (p + 1))
                  /\ p + (m - (p + 1)) = m - 1 /\ ~(m <= p) /\ m - 1 \in 1 .. len
                BY <1>6, <2>4
            <4> QED BY <4>1
        <3>2. Whole(p, m) = m - 1
            BY <3>1 DEF Whole
        <3> QED BY <1>11, <2>4, <3>1, <3>2
    <2> QED BY <2>1, <2>2, <2>3, <2>4
<1>13. ASSUME NEW m \in 1 .. (len + 1)
       PROVE  /\ Of(r, m) = Of(q, Whole(p, m))
              /\ Start(r, m) = IF m = p + 1 THEN k ELSE Start(q, Whole(p, m))
              /\ End(r, m) = IF m = p THEN k ELSE End(q, Whole(p, m))
              /\ Attrs(r, m) = Attrs(q, Whole(p, m))
              /\ RemovedAt(r, m) \in {Nil, RemovedAt(q, Whole(p, m))}
    <2>1. CASE m = p
        BY <1>1, <1>3, <1>11, <1>12, <2>1 DEF Of, Start, End, Attrs, RemovedAt
    <2>2. CASE m = p + 1
        BY <1>1, <1>4, <1>11, <1>12, <2>2 DEF Of, Start, End, Attrs, RemovedAt
    <2>3. CASE m # p /\ m # p + 1
        BY <1>12, <2>3 DEF Of, Start, End, Attrs, RemovedAt
    <2> QED BY <2>1, <2>2, <2>3
<1>14. CutAt(q, r, p, k)
    BY <1>5, <1>11, <1>13 DEF CutAt
<1> QED BY <1>9, <1>10, <1>14

\* The blocks before and after a cut.
LEMMA CutFacts ==
    ASSUME NEW q \in Seq(Block), NEW r, NEW p \in 1 .. Len(q), NEW k \in Nat,
           CutAt(q, r, p, k), Start(q, p) < k, k < End(q, p)
    PROVE  /\ \A i \in 1 .. Len(r) :
                /\ Whole(p, i) \in 1 .. Len(q)
                /\ Start(q, Whole(p, i)) <= Start(r, i)
                /\ End(r, i) <= End(q, Whole(p, i))
           /\ \A i, j \in 1 .. Len(r) : i < j =>
                /\ Whole(p, i) <= Whole(p, j)
                /\ (Whole(p, i) = Whole(p, j) => i = p /\ j = p + 1)
           /\ \A h \in 1 .. Len(q) : \E i \in 1 .. Len(r) :
                /\ Whole(p, i) = h /\ (h < p => i = h) /\ (h >= p => i = h + 1)
                /\ End(r, i) = End(q, h)
                /\ (h # p => Start(r, i) = Start(q, h))
<1>1. PICK n \in Nat : n = Len(q)
    OBVIOUS
<1>2. p \in 1 .. n /\ Len(r) = n + 1
    BY <1>1 DEF CutAt
<1>3. \A i \in 1 .. (n + 1) : Whole(p, i) \in 1 .. n
    BY <1>2 DEF Whole
<1>4. \A i, j \in 1 .. (n + 1) : i < j =>
                /\ Whole(p, i) <= Whole(p, j)
                /\ (Whole(p, i) = Whole(p, j) => i = p /\ j = p + 1)
    BY <1>2 DEF Whole
<1>5. /\ \A h \in 1 .. n : Start(q, h) \in Nat /\ End(q, h) \in Nat
      /\ \A i \in 1 .. (n + 1) :
          /\ Start(r, i) = IF i = p + 1 THEN k ELSE Start(q, Whole(p, i))
          /\ End(r, i) = IF i = p THEN k ELSE End(q, Whole(p, i))
    BY <1>1, <1>2, BlockType DEF CutAt
<1>6. Whole(p, p) = p /\ Whole(p, p + 1) = p
    BY <1>2 DEF Whole
<1>7. ASSUME NEW i \in 1 .. (n + 1)
      PROVE  Start(q, Whole(p, i)) <= Start(r, i) /\ End(r, i) <= End(q, Whole(p, i))
    <2>1. Start(q, Whole(p, i)) \in Nat /\ End(q, Whole(p, i)) \in Nat
        BY <1>3, <1>5
    <2>2. Start(q, Whole(p, i)) <= Start(r, i)
        BY <1>5, <1>6, <2>1
    <2>3. End(r, i) <= End(q, Whole(p, i))
        BY <1>5, <1>6, <2>1
    <2> QED BY <2>2, <2>3
<1>8. ASSUME NEW h \in 1 .. n
      PROVE  \E i \in 1 .. (n + 1) :
                /\ Whole(p, i) = h /\ (h < p => i = h) /\ (h >= p => i = h + 1)
                /\ End(r, i) = End(q, h)
                /\ (h # p => Start(r, i) = Start(q, h))
    <2>1. CASE h < p
        <3>1. h \in 1 .. (n + 1) /\ Whole(p, h) = h /\ h # p /\ h # p + 1 /\ ~(h >= p)
            BY <1>2, <2>1 DEF Whole
        <3> QED BY <1>5, <2>1, <3>1
    <2>2. CASE ~(h < p)
        <3>1. h + 1 \in 1 .. (n + 1) /\ Whole(p, h + 1) = h /\ h + 1 # p /\ (h # p => h + 1 # p + 1)
            BY <1>2, <2>2 DEF Whole
        <3> QED BY <1>5, <2>2, <3>1
    <2> QED BY <2>1, <2>2
<1> QED BY <1>1, <1>2, <1>3, <1>4, <1>7, <1>8

\* A cut keeps the structure.
LEMMA CutKeeps ==
    ASSUME NEW S, Founded(S), NEW K, NEW q, Structure(q, S, K), NEW r,
           NEW p \in 1 .. Len(q), NEW c, NEW k \in Nat, Covers(q, p, c, k), k # End(q, p),
           CutAt(q, r, p, k)
    PROVE  Structure(r, S, K \cup {<<c, k>>})
<1> DEFINE M == K \cup {<<c, k>>}
<1>1. PICK n \in Nat : n = Len(q) /\ p \in 1 .. n
    BY BlockFacts
<1>2. \A i \in 1 .. n : /\ Of(q, i) \in Nat /\ Start(q, i) \in Nat /\ End(q, i) \in Nat
                        /\ (Of(q, i) = 0 <=> i = 1) /\ (i = 1 => Start(q, i) = 0 /\ End(q, i) = 0)
                        /\ (i # 1 => Start(q, i) < End(q, i))
    BY <1>1, BlockFacts
<1>3. /\ p # 1 /\ c = Of(q, p) /\ c # 0 /\ k # 0 /\ Start(q, p) < k /\ k < End(q, p)
    <2>1. c = Of(q, p) /\ (k = 0 <=> p = 1) /\ k <= End(q, p) /\ (p # 1 => Start(q, p) < k)
        BY CoverFacts
    <2> QED BY <1>1, <1>2, <2>1
<1>4. q \in Seq(Block) /\ r \in Seq(Block) /\ Len(r) = n + 1
    BY <1>1 DEF Structure, CutAt
<1>5. \A i \in 1 .. (n + 1) :
          /\ Whole(p, i) \in 1 .. n
          /\ Of(r, i) = Of(q, Whole(p, i))
          /\ Start(r, i) = IF i = p + 1 THEN k ELSE Start(q, Whole(p, i))
          /\ End(r, i) = IF i = p THEN k ELSE End(q, Whole(p, i))
          /\ Start(q, Whole(p, i)) <= Start(r, i)
          /\ End(r, i) <= End(q, Whole(p, i))
    BY <1>1, <1>3, <1>4, CutFacts DEF CutAt
<1>6. \A i, j \in 1 .. (n + 1) : i < j =>
          /\ Whole(p, i) <= Whole(p, j)
          /\ (Whole(p, i) = Whole(p, j) => i = p /\ j = p + 1)
    BY <1>1, <1>3, <1>4, CutFacts
<1>7. \A h \in 1 .. n : \E i \in 1 .. (n + 1) :
                /\ Whole(p, i) = h /\ (h < p => i = h) /\ (h >= p => i = h + 1)
                /\ End(r, i) = End(q, h)
                /\ (h # p => Start(r, i) = Start(q, h))
    BY <1>1, <1>3, <1>4, CutFacts
<1>8. /\ p \in 1 .. (n + 1) /\ p + 1 \in 1 .. (n + 1) /\ p # p + 1
      /\ Whole(p, p) = p /\ Whole(p, p + 1) = p /\ 1 \in 1 .. (n + 1) /\ Whole(p, 1) = 1
      /\ p # 1 /\ 1 # p + 1
    BY <1>1, <1>3 DEF Whole
<1>9. \A i \in 1 .. (n + 1) : Of(r, i) \in Nat /\ Start(r, i) \in Nat /\ End(r, i) \in Nat
    BY <1>4, BlockType
<1>10. Headed(r)
    BY <1>2, <1>4, <1>5, <1>8 DEF Headed
<1>11. ASSUME NEW i \in 2 .. (n + 1)
       PROVE  Fits(r, i, S, M)
    <2>1. i \in 1 .. (n + 1) /\ i # 1
        BY <1>1
    <2>2. PICK h \in 1 .. n : h = Whole(p, i)
        BY <1>5, <2>1
    <2>3. h # 1
        <3>1. h = 1 => i = 1 \/ (i = p + 1 /\ p = 1)
            BY <1>1, <2>1, <2>2 DEF Whole
        <3> QED BY <1>8, <2>1, <3>1
    <2>4. PICK m : /\ Of(q, h) # 0 /\ Start(q, h) < End(q, h)
                   /\ Start(q, h) = 0 \/ <<Of(q, h), Start(q, h)>> \in K
                   /\ Insertion(S, Of(q, h), m)
                   /\ End(q, h) <= m /\ (End(q, h) = m \/ <<Of(q, h), End(q, h)>> \in K)
        <3>1. h \in 2 .. Len(q)
            BY <1>1, <2>3
        <3>2. Fits(q, h, S, K)
            BY <3>1 DEF Structure, Blocked
        <3> QED BY <3>2 DEF Fits
    <2>5. m \in Nat
        BY <2>4, InsertionFacts
    <2>6. /\ Of(r, i) = Of(q, h)
          /\ Start(r, i) = (IF i = p + 1 THEN k ELSE Start(q, h))
          /\ End(r, i) = (IF i = p THEN k ELSE End(q, h))
          /\ (i = p \/ i = p + 1 => h = p)
        BY <1>5, <1>8, <2>1, <2>2
    <2>7. Start(r, i) < End(r, i) /\ End(r, i) <= m
        BY <1>1, <1>2, <1>3, <1>8, <2>4, <2>5, <2>6
    <2>8. Start(r, i) = 0 \/ <<Of(r, i), Start(r, i)>> \in M
        BY <1>3, <2>4, <2>6
    <2>9. End(r, i) = m \/ <<Of(r, i), End(r, i)>> \in M
        BY <1>3, <2>4, <2>6
    <2> HIDE DEF M
    <2> QED BY <2>4, <2>6, <2>7, <2>8, <2>9 DEF Fits
<1>12. ASSUME NEW i \in 1 .. (n + 1), NEW d, NEW l, Covers(r, i, d, l), l \in Nat
       PROVE  Covers(q, Whole(p, i), d, l)
    <2>1. PICK h \in 1 .. n : h = Whole(p, i)
        BY <1>5
    <2>2. /\ Of(r, i) = Of(q, h) /\ Start(q, h) <= Start(r, i) /\ End(r, i) <= End(q, h)
          /\ Start(q, h) \in Nat /\ Start(r, i) \in Nat /\ End(r, i) \in Nat /\ End(q, h) \in Nat
        BY <1>2, <1>5, <1>9, <2>1
    <2>3. l <= End(q, h) /\ (Start(r, i) < l => Start(q, h) < l)
        BY <1>12, <2>2 DEF Covers
    <2> QED BY <1>12, <2>1, <2>2, <2>3 DEF Covers
<1>13. ASSUME NEW i \in 1 .. (n + 1), NEW d, NEW l, Covers(r, i, d, l), <<d, l>> \in M, l \in Nat
       PROVE  l = End(r, i)
    <2>1. PICK h \in 1 .. n : h = Whole(p, i) /\ Covers(q, h, d, l)
        BY <1>5, <1>12, <1>13
    <2>2. CASE <<d, l>> = <<c, k>>
        <3>1. d = c /\ l = k
            BY <2>2
        <3>2. h = p
            BY <1>1, <2>1, <3>1, CoverOrder
        <3>3. i = p \/ i = p + 1
            BY <1>1, <2>1, <3>2 DEF Whole
        <3>4. i # p + 1
            <4>1. Start(r, p + 1) = k
                BY <1>5, <1>8
            <4>2. ~(k < k)
                OBVIOUS
            <4> QED BY <1>3, <1>13, <3>1, <4>1, <4>2 DEF Covers
        <3> QED BY <1>5, <3>1, <3>3, <3>4
    <2>3. CASE <<d, l>> \in K
        <3>1. l = End(q, h)
            BY <1>1, <1>13, <2>1, <2>3 DEF Structure, Blocked
        <3>2. i # p
            <4>1. i = p => End(r, i) = k /\ h = p
                BY <1>5, <1>8, <2>1
            <4>2. l <= End(r, i)
                BY <1>13 DEF Covers
            <4> QED BY <1>2, <1>3, <2>1, <3>1, <4>1, <4>2
        <3> QED BY <1>5, <2>1, <3>1, <3>2
    <2> QED BY <1>13, <2>2, <2>3
<1>14. ASSUME NEW d, NEW l, Place(S, d, l)
       PROVE  \E i \in 1 .. (n + 1) : Covers(r, i, d, l)
    <2>1. PICK h \in 1 .. n : Covers(q, h, d, l)
        BY <1>1, <1>14 DEF Structure, Blocked
    <2>2. l \in Nat
        BY <1>14 DEF Place
    <2>3. CASE h # p
        <3>1. PICK i \in 1 .. (n + 1) : Whole(p, i) = h /\ Start(r, i) = Start(q, h)
                                        /\ End(r, i) = End(q, h)
            BY <1>7, <2>3
        <3>2. Of(r, i) = Of(q, h)
            BY <1>5, <3>1
        <3>3. Covers(r, i, d, l)
            BY <2>1, <3>1, <3>2 DEF Covers
        <3> QED BY <3>3
    <2>4. CASE h = p /\ l <= k
        <3>1. Of(r, p) = Of(q, p) /\ Start(r, p) = Start(q, p) /\ End(r, p) = k
            BY <1>5, <1>8
        <3>2. Covers(r, p, d, l)
            BY <2>1, <2>4, <3>1 DEF Covers
        <3> QED BY <1>8, <3>2
    <2>5. CASE h = p /\ ~(l <= k)
        <3>1. Of(r, p + 1) = Of(q, p) /\ Start(r, p + 1) = k /\ End(r, p + 1) = End(q, p)
            BY <1>5, <1>8
        <3>2. k < l
            BY <2>2, <2>5
        <3>3. Covers(r, p + 1, d, l)
            BY <2>1, <2>5, <3>1, <3>2 DEF Covers
        <3> QED BY <1>8, <3>3
    <2> QED BY <2>3, <2>4, <2>5
<1>15. Blocked(r, S, M)
    BY <1>4, <1>11, <1>13, <1>14 DEF Blocked
<1>16. InOrder(r)
    <2>1. ASSUME NEW i \in 1 .. (n + 1), NEW j \in 1 .. (n + 1), i < j, Of(r, i) = Of(r, j)
          PROVE  End(r, i) <= Start(r, j)
        <3>1. CASE Whole(p, i) = Whole(p, j)
            <4>1. i = p /\ j = p + 1
                BY <1>6, <2>1, <3>1
            <4>2. End(r, i) = k /\ Start(r, j) = k
                BY <1>5, <4>1
            <4> QED BY <4>2
        <3>2. CASE Whole(p, i) # Whole(p, j)
            <4>1. PICK g \in 1 .. n : g = Whole(p, i)
                BY <1>5
            <4>2. PICK h \in 1 .. n : h = Whole(p, j)
                BY <1>5
            <4>3. g < h
                BY <1>6, <2>1, <3>2, <4>1, <4>2
            <4>4. Of(q, g) = Of(q, h)
                BY <1>5, <2>1, <4>1, <4>2
            <4>5. End(q, g) <= Start(q, h)
                BY <1>1, <4>3, <4>4, BlocksApart
            <4>6. End(r, i) <= End(q, g) /\ Start(q, h) <= Start(r, j)
                BY <1>5, <4>1, <4>2
            <4>7. /\ End(r, i) \in Nat /\ End(q, g) \in Nat /\ Start(q, h) \in Nat
                  /\ Start(r, j) \in Nat
                BY <1>2, <1>9
            <4> QED BY <4>5, <4>6, <4>7
        <3> QED BY <3>1, <3>2
    <2>2. ASSUME NEW i \in 1 .. (n + 1), NEW j \in 1 .. (n + 1), NEW m \in 1 .. (n + 1),
                 i < m, m < j, Of(r, i) = Of(r, j)
          PROVE  Of(r, m) >= Of(r, i)
        <3>1. PICK f \in 1 .. n : f = Whole(p, i) /\ Of(r, i) = Of(q, f)
            BY <1>5
        <3>2. PICK g \in 1 .. n : g = Whole(p, m) /\ Of(r, m) = Of(q, g)
            BY <1>5
        <3>3. PICK h \in 1 .. n : h = Whole(p, j) /\ Of(r, j) = Of(q, h)
            BY <1>5
        <3>4. f <= g /\ g <= h
            BY <1>6, <2>2, <3>1, <3>2, <3>3
        <3>5. CASE f = g \/ g = h
            <4>1. Of(q, f) \in Nat /\ Of(r, m) = Of(q, f) /\ Of(r, i) = Of(q, f)
                BY <1>2, <2>2, <3>1, <3>2, <3>3, <3>5
            <4> QED BY <4>1
        <3>6. CASE f # g /\ g # h
            <4>1. f < g /\ g < h
                BY <3>4, <3>6
            <4>2. f \in 1 .. Len(q) /\ g \in 1 .. Len(q) /\ h \in 1 .. Len(q)
                BY <1>1
            <4>3. Of(q, g) >= Of(q, f)
                BY <2>2, <3>1, <3>3, <4>1, <4>2 DEF Structure, InOrder
            <4> QED BY <3>1, <3>2, <4>3
        <3> QED BY <3>5, <3>6
    <2> QED BY <1>4, <2>1, <2>2 DEF InOrder
<1>17. Anchored(r, S)
    <2> SUFFICES ASSUME NEW i \in 2 .. (n + 1), NEW a, NEW l,
                        Start(r, i) = 0, Anchor(S, Of(r, i), a, l)
                 PROVE  Behind(r, i, a, l)
        BY <1>4 DEF Anchored
    <2>1. i \in 1 .. (n + 1) /\ i # p + 1
        BY <1>1, <1>3, <1>5, <1>8
    <2>2. PICK h \in 1 .. n : h = Whole(p, i) /\ Of(r, i) = Of(q, h) /\ Start(q, h) = 0
        BY <1>5, <2>1
    <2>3. h # 1
        BY <1>1, <1>3, <2>1, <2>2 DEF Whole
    <2>4. PICK j \in 1 .. n : /\ j < h /\ Covers(q, j, a, l) /\ l = End(q, j)
                              /\ \A m \in 1 .. n : j < m /\ m < h => Of(q, m) > Of(q, h)
        <3>1. h \in 2 .. Len(q) /\ Anchor(S, Of(q, h), a, l)
            BY <1>1, <2>2, <2>3
        <3>2. Behind(q, h, a, l)
            BY <2>2, <3>1 DEF Structure, Anchored
        <3> QED BY <1>1, <3>2 DEF Behind
    <2>5. l \in Nat
        BY <1>2, <2>4
    <2>6. PICK g \in 1 .. (n + 1) : Whole(p, g) = j /\ End(r, g) = End(q, j)
                                    /\ (j < p => g = j) /\ (j >= p => g = j + 1)
                                    /\ (j # p => Start(r, g) = Start(q, j))
        BY <1>7
    <2>7. g < i
        <3>1. ~(i < g)
            BY <1>6, <2>1, <2>2, <2>4, <2>6
        <3>2. i # g
            BY <2>2, <2>4, <2>6
        <3> QED BY <2>1, <3>1, <3>2
    <2>8. Covers(r, g, a, l)
        <3>1. Of(r, g) = Of(q, j) /\ Start(q, j) \in Nat /\ End(q, j) \in Nat
            BY <1>2, <1>5, <2>6
        <3>2. CASE j # p
            BY <2>4, <2>6, <3>1, <3>2 DEF Covers
        <3>3. CASE j = p
            <4>1. g = p + 1 /\ Start(r, g) = k
                BY <1>1, <1>5, <1>8, <2>6, <3>3
            <4> QED BY <1>3, <2>4, <2>6, <3>1, <3>3, <4>1 DEF Covers
        <3> QED BY <3>2, <3>3
    <2>9. ASSUME NEW m \in 1 .. (n + 1), g < m, m < i
          PROVE  Of(r, m) > Of(r, i)
        <3>1. PICK f \in 1 .. n : f = Whole(p, m) /\ Of(r, m) = Of(q, f)
            BY <1>5
        <3>2. j <= f /\ f <= h
            BY <1>6, <2>1, <2>2, <2>6, <2>9, <3>1
        <3>3. j # f
            <4>1. j = f => g = p /\ m = p + 1
                BY <1>6, <2>6, <2>9, <3>1
            <4>2. j = f => j >= p
                BY <1>1, <1>8, <2>6, <4>1
            <4> QED BY <1>1, <2>6, <4>1, <4>2
        <3>4. f # h
            <4>1. f = h => m = p /\ i = p + 1
                BY <1>6, <2>1, <2>2, <2>9, <3>1
            <4> QED BY <2>1, <4>1
        <3>5. j < f /\ f < h
            BY <3>2, <3>3, <3>4
        <3> QED BY <2>2, <2>4, <3>1, <3>5
    <2>10. l = End(r, g)
        BY <2>4, <2>6
    <2> QED BY <1>4, <2>7, <2>8, <2>9, <2>10 DEF Behind
<1> QED BY <1>4, <1>10, <1>15, <1>16, <1>17 DEF Structure

\* Where the text is cut already there is nothing to do.
LEMMA CutThere ==
    ASSUME NEW S, Founded(S), NEW K, NEW q, Structure(q, S, K),
           NEW p \in 1 .. Len(q), NEW c, NEW k \in Nat, Covers(q, p, c, k), k = End(q, p)
    PROVE  Structure(q, S, K \cup {<<c, k>>})
<1> DEFINE M == K \cup {<<c, k>>}
<1>1. K \subseteq M /\ \A x \in M : x \in K \/ x = <<c, k>>
    OBVIOUS
<1> HIDE DEF M
<1>2. \A i \in 2 .. Len(q) : Fits(q, i, S, M)
    <2>1. \A i \in 2 .. Len(q) : Fits(q, i, S, K)
        BY DEF Structure, Blocked
    <2> QED BY <1>1, <2>1 DEF Fits
<1>3. ASSUME NEW i \in 1 .. Len(q), NEW d, NEW l \in Nat, Covers(q, i, d, l), <<d, l>> \in M
      PROVE  l = End(q, i)
    <2>1. CASE <<d, l>> \in K
        BY <1>3, <2>1 DEF Structure, Blocked
    <2>2. CASE <<d, l>> = <<c, k>>
        <3>1. d = c /\ l = k
            BY <2>2
        <3>2. i = p
            BY <1>3, <3>1, CoverOrder
        <3> QED BY <3>1, <3>2
    <2> QED BY <1>1, <1>3, <2>1, <2>2
<1>4. Blocked(q, S, M)
    BY <1>2, <1>3 DEF Structure, Blocked
<1> QED BY <1>4 DEF Structure, M

\* The blocks of r are parts of those of q.
Parts(q, r) ==
    \A i \in 1 .. Len(r) : \E h \in 1 .. Len(q) :
        /\ Of(r, i) = Of(q, h) /\ Start(q, h) <= Start(r, i) /\ End(r, i) <= End(q, h)
        /\ Attrs(r, i) = Attrs(q, h)
        /\ RemovedAt(r, i) \in {Nil, RemovedAt(q, h)}

LEMMA PartsOfParts ==
    ASSUME NEW q \in Seq(Block), NEW r \in Seq(Block), NEW s \in Seq(Block),
           Parts(q, r), Parts(r, s)
    PROVE  Parts(q, s)
<1> SUFFICES ASSUME NEW i \in 1 .. Len(s)
             PROVE  \E h \in 1 .. Len(q) :
                        /\ Of(s, i) = Of(q, h) /\ Start(q, h) <= Start(s, i)
                        /\ End(s, i) <= End(q, h)
                        /\ Attrs(s, i) = Attrs(q, h)
                        /\ RemovedAt(s, i) \in {Nil, RemovedAt(q, h)}
    BY DEF Parts
<1>1. PICK j \in 1 .. Len(r) :
        /\ Of(s, i) = Of(r, j) /\ Start(r, j) <= Start(s, i) /\ End(s, i) <= End(r, j)
        /\ Attrs(s, i) = Attrs(r, j) /\ RemovedAt(s, i) \in {Nil, RemovedAt(r, j)}
    BY DEF Parts
<1>2. PICK h \in 1 .. Len(q) :
        /\ Of(r, j) = Of(q, h) /\ Start(q, h) <= Start(r, j) /\ End(r, j) <= End(q, h)
        /\ Attrs(r, j) = Attrs(q, h) /\ RemovedAt(r, j) \in {Nil, RemovedAt(q, h)}
    BY DEF Parts
<1>3. /\ Start(q, h) \in Nat /\ Start(r, j) \in Nat /\ Start(s, i) \in Nat
      /\ End(q, h) \in Nat /\ End(r, j) \in Nat /\ End(s, i) \in Nat
    BY BlockType
<1>4. Start(q, h) <= Start(s, i) /\ End(s, i) <= End(q, h)
    BY <1>1, <1>2, <1>3
<1> QED BY <1>1, <1>2, <1>4

\* The text is cut at a position, if it was not before.
LEMMA SplitKeeps ==
    ASSUME NEW t \in Text, NEW S, Founded(S), NEW K, Structure(Nodes(t), S, K),
           NEW pos \in Position, Place(S, pos.createdAt, Offset(pos))
    PROVE  LET s == SplitAt(t, pos)
           IN  /\ s \in Text /\ s.removed = t.removed /\ s.registered = t.registered
               /\ Structure(Nodes(s), S, K \cup {<<pos.createdAt, Offset(pos)>>})
               /\ Parts(Nodes(t), Nodes(s))
<1> DEFINE q == Nodes(t)
           c == pos.createdAt
           k == Offset(pos)
           p == Spot(q, c, k)
           s == SplitAt(t, pos)
           o == q[p].offset
           l == q[p].len
<1>1. /\ p \in 1 .. Len(q) /\ Covers(q, p, c, k) /\ k \in Nat
    BY SpotFacts
<1>2. FloorPreferToLeft(t, c, k) = p
    BY FindsBlock
<1>3. s = Split(t, p, k - o)
    <2> DEFINE f == FloorPreferToLeft(t, c, k)
    <2>1. s = Split(t, f, k - q[f].offset)
        <3> DEFINE g == q[f].offset
        <3>1. s = Split(t, f, pos.offset + (pos.rel - g))
            BY DEF SplitAt, Offset, Nodes
        <3>2. g \in Nat /\ pos.offset \in Nat /\ pos.rel \in Nat
            <4>1. f \in 1 .. Len(q) /\ q \in Seq(Block)
                BY <1>1, <1>2 DEF Structure
            <4> HIDE DEF q, f
            <4>2. q[f] \in Block
                BY <4>1
            <4> QED BY <4>2 DEF Block, Position
        <3> HIDE DEF g, f, q
        <3>3. pos.offset + (pos.rel - g) = k - g
            BY <3>2 DEF Offset
        <3> QED BY <3>1, <3>3 DEF g
    <2>2. f = p
        BY <1>2
    <2> HIDE DEF f, p, s, k
    <2> QED BY <2>1, <2>2
<1>4. s = IF k - o \in {0, l}
          THEN t
          ELSE [t EXCEPT !.nodes = SubSeq(q, 1, p - 1)
                                   \o <<[q[p] EXCEPT !.len = k - o], RightPart(q[p], k - o)>>
                                   \o SubSeq(q, p + 1, Len(q))]
    BY <1>3 DEF Split, Nodes
<1>5. q \in Seq(Block) /\ o = Start(q, p) /\ o + l = End(q, p)
    BY DEF Structure, Start, End
<1>6. o \in Nat /\ l \in Nat
    <2> HIDE DEF q, p
    <2>1. q[p] \in Block
        BY <1>1, <1>5
    <2> QED BY <2>1 DEF Block
<1>7. o <= k /\ k <= o + l /\ (p # 1 => o < k) /\ (p = 1 => o = 0 /\ o + l = 0)
    BY <1>1, <1>5, CoverFacts, BlockFacts
<1> HIDE DEF q, o, l, p, s, k
<1>8. CASE k = o + l
    <2>1. k - o = l
        BY <1>1, <1>6, <1>8
    <2>2. s = t
        BY <1>4, <2>1
    <2>3. Structure(q, S, K \cup {<<c, k>>})
        BY <1>1, <1>5, <1>8, CutThere DEF q
    <2>4. Parts(q, q)
        <3>1. \A i \in 1 .. Len(q) : Start(q, i) \in Nat /\ End(q, i) \in Nat
            BY <1>5, BlockType
        <3> QED BY <3>1 DEF Parts
    <2> QED BY <2>2, <2>3, <2>4 DEF q, s, k
<1>9. CASE k # o + l
    <2>1. p # 1 /\ o < k /\ k < o + l /\ k - o \notin {0, l}
        BY <1>1, <1>6, <1>7, <1>9
    <2> DEFINE x == SubSeq(q, 1, p - 1)
                    \o <<[q[p] EXCEPT !.len = k - o], RightPart(q[p], k - o)>>
                    \o SubSeq(q, p + 1, Len(q))
    <2>2. CutAt(q, x, p, k)
        <3>1. Start(q, p) < k /\ k < End(q, p)
            BY <1>5, <2>1
        <3> QED BY <1>1, <1>5, <3>1, SplitCuts DEF o
    <2>3. s = [t EXCEPT !.nodes = x]
        BY <1>4, <2>1
    <2> HIDE DEF x
    <2>4. x \in Seq(Block)
        BY <2>2 DEF CutAt
    <2>5. s \in Text /\ s.removed = t.removed /\ s.registered = t.registered /\ Nodes(s) = x
        BY <2>3, <2>4 DEF Text, Nodes
    <2>6. Structure(x, S, K \cup {<<c, k>>})
        BY <1>1, <1>5, <1>9, <2>2, CutKeeps DEF q
    <2>7. Parts(q, x)
        <3>1. \A i \in 1 .. Len(x) :
                /\ Whole(p, i) \in 1 .. Len(q)
                /\ Start(q, Whole(p, i)) <= Start(x, i)
                /\ End(x, i) <= End(q, Whole(p, i))
            BY <1>1, <1>5, <2>1, <2>2, CutFacts
        <3>2. \A i \in 1 .. Len(x) :
                /\ Of(x, i) = Of(q, Whole(p, i))
                /\ Attrs(x, i) = Attrs(q, Whole(p, i))
                /\ RemovedAt(x, i) \in {Nil, RemovedAt(q, Whole(p, i))}
            BY <2>2 DEF CutAt
        <3> QED BY <3>1, <3>2 DEF Parts
    <2> QED BY <2>5, <2>6, <2>7 DEF q, s, k
<1> QED BY <1>8, <1>9

\* edit and SetStyle cut the text at both ends of the range.
LEMMA SplitForEditKeeps ==
    ASSUME NEW t \in Text, NEW S, Founded(S), NEW K, Structure(Nodes(t), S, K),
           NEW from \in Position, NEW to \in Position,
           Place(S, from.createdAt, Offset(from)), Place(S, to.createdAt, Offset(to))
    PROVE  LET s == SplitForEdit(t, from, to)
           IN  /\ s \in Text /\ s.removed = t.removed /\ s.registered = t.registered
               /\ Structure(Nodes(s), S, K \cup {<<from.createdAt, Offset(from)>>,
                                                 <<to.createdAt, Offset(to)>>})
               /\ Parts(Nodes(t), Nodes(s))
<1> DEFINE u == SplitAt(t, to)
           s == SplitAt(u, from)
           M == K \cup {<<to.createdAt, Offset(to)>>}
<1>1. /\ u \in Text /\ u.removed = t.removed /\ u.registered = t.registered
      /\ Structure(Nodes(u), S, M) /\ Parts(Nodes(t), Nodes(u))
    BY SplitKeeps
<1> HIDE DEF u, M
<1>2. /\ s \in Text /\ s.removed = u.removed /\ s.registered = u.registered
      /\ Structure(Nodes(s), S, M \cup {<<from.createdAt, Offset(from)>>})
      /\ Parts(Nodes(u), Nodes(s))
    BY <1>1, SplitKeeps
<1> HIDE DEF s
<1>3. Parts(Nodes(t), Nodes(s))
    <2>1. Nodes(t) \in Seq(Block) /\ Nodes(u) \in Seq(Block) /\ Nodes(s) \in Seq(Block)
        BY <1>1, <1>2 DEF Structure
    <2> QED BY <1>1, <1>2, <2>1, PartsOfParts
<1>4. M \cup {<<from.createdAt, Offset(from)>>} =
        K \cup {<<from.createdAt, Offset(from)>>, <<to.createdAt, Offset(to)>>}
    BY DEF M
<1>5. s = SplitForEdit(t, from, to)
    BY DEF SplitForEdit, s, u
<1> QED BY <1>1, <1>2, <1>3, <1>4, <1>5

\* What is removed and how it is styled is so for the parts of a block as well.
LEMMA PartChars ==
    ASSUME NEW q \in Seq(Block), NEW r \in Seq(Block),
           NEW i \in 1 .. Len(r), NEW h \in 1 .. Len(q),
           Of(r, i) = Of(q, h), Start(q, h) <= Start(r, i), End(r, i) <= End(q, h)
    PROVE  CharsAt(r, i) \subseteq CharsAt(q, h)
<1>1. PICK a \in Block : a = r[i]
    OBVIOUS
<1>2. PICK b \in Block : b = q[h]
    OBVIOUS
<1>3. a.createdAt = b.createdAt /\ b.offset <= a.offset /\ a.offset + a.len <= b.offset + b.len
    BY <1>1, <1>2 DEF Of, Start, End
<1> DEFINE ao == a.offset
           al == a.len
           bo == b.offset
           bl == b.len
<1>4. ao \in Nat /\ al \in Nat /\ bo \in Nat /\ bl \in Nat
    BY DEF Block
<1>5. CharsAt(r, i) = {b.createdAt} \X (ao .. (ao + al - 1))
      /\ CharsAt(q, h) = {b.createdAt} \X (bo .. (bo + bl - 1))
    BY <1>1, <1>2, <1>3 DEF CharsAt, Chars
<1>6. bo <= ao /\ ao + al <= bo + bl
    BY <1>3
<1> HIDE DEF ao, al, bo, bl
<1>7. ao .. (ao + al - 1) \subseteq bo .. (bo + bl - 1)
    BY <1>4, <1>6
<1> QED BY <1>5, <1>7

LEMMA PartsKeep ==
    ASSUME NEW q \in Seq(Block), NEW r \in Seq(Block), Parts(q, r), NEW S
    PROVE  (Struck(q, S) => Struck(r, S)) /\ (Dressed(q, S) => Dressed(r, S))
<1>1. ASSUME NEW i \in 1 .. Len(r)
      PROVE  \E h \in 1 .. Len(q) :
                /\ Of(r, i) = Of(q, h) /\ Attrs(r, i) = Attrs(q, h)
                /\ RemovedAt(r, i) \in {Nil, RemovedAt(q, h)}
                /\ CharsAt(r, i) \subseteq CharsAt(q, h)
    BY PartChars DEF Parts
<1>2. Struck(q, S) => Struck(r, S)
    BY <1>1 DEF Struck
<1>3. Dressed(q, S) => Dressed(r, S)
    <2> SUFFICES ASSUME Dressed(q, S), NEW i \in 1 .. Len(r), Known(S, Of(r, i)),
                        NEW x \in CharsAt(r, i)
                 PROVE  Latest(Attrs(r, i), Setters(S, x))
        BY DEF Dressed
    <2>1. PICK h \in 1 .. Len(q) : /\ Of(r, i) = Of(q, h) /\ Attrs(r, i) = Attrs(q, h)
                                   /\ CharsAt(r, i) \subseteq CharsAt(q, h)
        BY <1>1
    <2>2. Known(S, Of(q, h)) /\ x \in CharsAt(q, h)
        BY <2>1
    <2>3. Latest(Attrs(q, h), Setters(S, x))
        BY <2>2 DEF Dressed
    <2> QED BY <2>1, <2>3
<1> QED BY <1>2, <1>3

-----------------------------------------------------------------------------
(***************************************************************************)
(* The left of a position, and what is between two                         *)
(***************************************************************************)

\* The left of a place for a ticket: the block at the place or the last of the newer
\* ones that follow it.
IsLeft(q, p, at, i) ==
    /\ i \in p .. Len(q)
    /\ i < Len(q) => Of(q, i + 1) <= at
    /\ \A j \in (p + 1) .. i : Of(q, j) > at

\* findNodeWithSplit finds it.
LEMMA LeftFacts ==
    ASSUME NEW t, NEW S, Founded(S), NEW K, Structure(Nodes(t), S, K), NEW pos, NEW at \in Nat,
           Place(S, pos.createdAt, Offset(pos))
    PROVE  IsLeft(Nodes(t), Spot(Nodes(t), pos.createdAt, Offset(pos)), at, LeftOf(t, pos, at))
<1> DEFINE q == Nodes(t)
           p == Spot(q, pos.createdAt, Offset(pos))
           B == {i \in p .. Len(q) : i = Len(q) \/ Of(q, i + 1) <= at}
<1>1. p \in 1 .. Len(q)
    BY SpotFacts
<1>2. FloorPreferToLeft(t, pos.createdAt, pos.offset + pos.rel) = p
    BY FindsBlock DEF Offset
<1>3. LeftOf(t, pos, at) =
        CHOOSE i \in p .. Len(q) : /\ i < Len(q) => Of(q, i + 1) <= at
                                   /\ \A j \in (p + 1) .. i : Of(q, j) > at
    BY <1>2 DEF LeftOf, Nodes, Of
<1>4. PICK n \in Nat : n = Len(q) /\ p \in 1 .. n /\ \A i \in 1 .. n : Of(q, i) \in Nat
    BY <1>1, BlockFacts
<1> HIDE DEF q, p
<1>5. B \subseteq Nat /\ n \in B
    BY <1>4
<1>6. PICK m \in B : \A i \in B : m <= i
    BY <1>5, LeastNatural
<1>7. m \in p .. n /\ (m < n => Of(q, m + 1) <= at)
    BY <1>4, <1>6
<1>8. ASSUME NEW j \in (p + 1) .. m
      PROVE  Of(q, j) > at
    <2>1. j - 1 \in p .. n /\ j - 1 # n /\ ~(m <= j - 1) /\ (j - 1) + 1 = j /\ j \in 1 .. n
        BY <1>4, <1>7
    <2>2. j - 1 \notin B
        BY <1>6, <2>1
    <2>3. ~(Of(q, j) <= at)
        BY <1>4, <2>1, <2>2
    <2>4. Of(q, j) \in Nat
        BY <1>4, <2>1
    <2> QED BY <2>3, <2>4
<1>9. IsLeft(q, p, at, m)
    BY <1>4, <1>7, <1>8 DEF IsLeft
<1>10. LeftOf(t, pos, at) = CHOOSE i \in p .. Len(q) : IsLeft(q, p, at, i)
    <2>1. \A i \in p .. Len(q) : IsLeft(q, p, at, i) <=>
                                    /\ i < Len(q) => Of(q, i + 1) <= at
                                    /\ \A j \in (p + 1) .. i : Of(q, j) > at
        BY DEF IsLeft
    <2> QED BY <1>3, <2>1
<1>11. m \in p .. Len(q)
    BY <1>4, <1>7
<1>12. IsLeft(q, p, at, LeftOf(t, pos, at))
    BY <1>9, <1>10, <1>11
<1> QED BY <1>12 DEF q, p

LEMMA LeftUnique ==
    ASSUME NEW q \in Seq(Block), NEW p \in Nat, NEW at \in Nat, NEW i, NEW j,
           IsLeft(q, p, at, i), IsLeft(q, p, at, j)
    PROVE  i = j
<1>1. PICK n \in Nat : n = Len(q)
    OBVIOUS
<1>2. i \in p .. n /\ j \in p .. n
    BY <1>1 DEF IsLeft
<1>3. ASSUME NEW a \in p .. n, NEW b \in p .. n, a < b, IsLeft(q, p, at, a), IsLeft(q, p, at, b)
      PROVE  FALSE
    <2>1. a + 1 \in (p + 1) .. b /\ a < n
        BY <1>3
    <2>2. Of(q, a + 1) <= at /\ Of(q, a + 1) > at
        BY <1>1, <1>3, <2>1 DEF IsLeft
    <2>3. Of(q, a + 1) \in Nat
        <3>1. a + 1 \in 1 .. Len(q)
            BY <1>1, <1>3
        <3> QED BY <3>1, BlockType
    <2> QED BY <2>2, <2>3
<1> QED BY <1>2, <1>3

\* The blocks between two positions come behind the initial head.
LEMMA BetweenType ==
    ASSUME NEW t, NEW S, Founded(S), NEW K, Structure(Nodes(t), S, K),
           NEW from, NEW to, NEW at \in Nat,
           Place(S, from.createdAt, Offset(from)), Place(S, to.createdAt, Offset(to))
    PROVE  Between(t, from, to, at) \subseteq 2 .. Len(Nodes(t))
<1> DEFINE q == Nodes(t)
           f == LeftOf(t, from, at)
           g == LeftOf(t, to, at)
           a == Spot(q, from.createdAt, Offset(from))
           b == Spot(q, to.createdAt, Offset(to))
<1>1. a \in 1 .. Len(q) /\ b \in 1 .. Len(q)
    BY SpotFacts
<1>2. IsLeft(q, a, at, f) /\ IsLeft(q, b, at, g)
    BY LeftFacts
<1>3. Between(t, from, to, at) = IF g + 1 < f + 1 THEN (f + 1) .. Len(q) ELSE (f + 1) .. ((g + 1) - 1)
    BY DEF Between, Nodes
<1>4. PICK n \in Nat : n = Len(q)
    BY BlockFacts
<1> HIDE DEF q, f, g, a, b
<1>5. f \in 1 .. n /\ g \in 1 .. n
    BY <1>1, <1>2, <1>4 DEF IsLeft
<1> QED BY <1>3, <1>4, <1>5 DEF q

\* Of the blocks older than the ticket those are between two positions that are.
LEMMA BetweenOlder ==
    ASSUME NEW t, NEW S, Founded(S), NEW K, Structure(Nodes(t), S, K),
           NEW from, NEW to, NEW at \in Nat,
           Place(S, from.createdAt, Offset(from)), Place(S, to.createdAt, Offset(to)),
           from.createdAt < at, to.createdAt < at,
           Spot(Nodes(t), from.createdAt, Offset(from)) <= Spot(Nodes(t), to.createdAt, Offset(to)),
           NEW y \in 1 .. Len(Nodes(t)), Of(Nodes(t), y) < at
    PROVE  y \in Between(t, from, to, at) <=>
              /\ Spot(Nodes(t), from.createdAt, Offset(from)) < y
              /\ y <= Spot(Nodes(t), to.createdAt, Offset(to))
<1> DEFINE q == Nodes(t)
           f == LeftOf(t, from, at)
           g == LeftOf(t, to, at)
           a == Spot(q, from.createdAt, Offset(from))
           b == Spot(q, to.createdAt, Offset(to))
<1>1. a \in 1 .. Len(q) /\ b \in 1 .. Len(q) /\ Of(q, b) = to.createdAt
    <2>1. a \in 1 .. Len(q)
        BY SpotFacts
    <2>2. b \in 1 .. Len(q) /\ Of(q, b) = to.createdAt
        BY SpotFacts
    <2> QED BY <2>1, <2>2
<1>2. IsLeft(q, a, at, f) /\ IsLeft(q, b, at, g)
    BY LeftFacts
<1>3. Between(t, from, to, at) = IF g + 1 < f + 1 THEN (f + 1) .. Len(q) ELSE (f + 1) .. ((g + 1) - 1)
    BY DEF Between, Nodes
<1>4. PICK n \in Nat : n = Len(q) /\ \A i \in 1 .. n : Of(q, i) \in Nat
    BY BlockFacts
<1>5. a <= b /\ y \in 1 .. n /\ Of(q, y) < at /\ Of(q, b) < at
    BY <1>1, <1>4
<1>6. q \in Seq(Block)
    BY DEF Structure
<1> HIDE DEF q, f, g, a, b
<1>7. /\ f \in a .. n /\ g \in b .. n /\ a \in 1 .. n /\ b \in 1 .. n
      /\ \A j \in (a + 1) .. f : Of(q, j) > at
      /\ \A j \in (b + 1) .. g : Of(q, j) > at
    BY <1>1, <1>2, <1>4 DEF IsLeft
<1>8. Of(q, y) \in Nat /\ Of(q, b) \in Nat
    BY <1>4, <1>5, <1>7
<1>9. y \notin (a + 1) .. f /\ y \notin (b + 1) .. g /\ b \notin (a + 1) .. f
    BY <1>5, <1>7, <1>8
<1>10. a = b => f = g
    BY <1>2, <1>6, <1>7, LeftUnique
<1>11. y \in Between(t, from, to, at) <=> a < y /\ y <= b
    <2>1. CASE a = b
        <3>1. f = g /\ ~(g + 1 < f + 1) /\ (f + 1) .. ((g + 1) - 1) = {}
            BY <1>7, <1>10, <2>1
        <3> QED BY <1>3, <1>5, <1>7, <2>1, <3>1
    <2>2. CASE a # b
        <3>1. f < b
            BY <1>5, <1>7, <1>9, <2>2
        <3>2. ~(g + 1 < f + 1) /\ (g + 1) - 1 = g
            BY <1>7, <3>1
        <3>3. Between(t, from, to, at) = (f + 1) .. g
            BY <1>3, <3>2
        <3> QED BY <1>5, <1>7, <1>9, <3>1, <3>3
    <2> QED BY <2>1, <2>2
<1> QED BY <1>11 DEF a, b, q

-----------------------------------------------------------------------------
(***************************************************************************)
(* The order of the places                                                 *)
(***************************************************************************)

\* A place comes before another.
Ahead(q, c, k, d, l) == IF c = d THEN k < l ELSE Spot(q, c, k) < Spot(q, d, l)

\* Behind a place where the text is cut come the blocks whose places do.
LEMMA AheadBlock ==
    ASSUME NEW S, Founded(S), NEW K, NEW q, Structure(q, S, K), NEW c, NEW k, Place(S, c, k),
           End(q, Spot(q, c, k)) = k,
           NEW y \in 1 .. Len(q), NEW d, NEW l \in Nat, Covers(q, y, d, l)
    PROVE  Spot(q, c, k) < y <=> Ahead(q, c, k, d, l)
<1> DEFINE p == Spot(q, c, k)
<1>1. p \in 1 .. Len(q) /\ Covers(q, p, c, k) /\ k \in Nat
    BY SpotFacts
<1>2. y = Spot(q, d, l)
    BY SpotIs
<1> HIDE DEF p
<1>3. CASE c # d
    BY <1>2, <1>3 DEF Ahead, p
<1>4. CASE c = d
    <2>1. p < y => k < l
        BY <1>1, <1>4, CoverOrder
    <2>2. k < l => p <= y
        BY <1>1, <1>4, CoverOrder
    <2>3. p = y => l <= k
        <3>1. End(q, p) = k
            BY DEF p
        <3> QED BY <3>1 DEF Covers
    <2>4. p \in Nat /\ y \in Nat
        BY <1>1, BlockFacts
    <2>5. p < y <=> k < l
        BY <1>1, <2>1, <2>2, <2>3, <2>4
    <2> QED BY <1>4, <2>5 DEF Ahead, p
<1> QED BY <1>3, <1>4

\* A place of an older insertion comes before a newer insertion if it does not come
\* behind the place that one was made at.
LEMMA AnchorOrder ==
    ASSUME NEW S, Founded(S), NEW K, NEW q, Structure(q, S, K),
           NEW c, NEW k, Place(S, c, k), NEW d, NEW l, Place(S, d, l), c < d,
           NEW a, NEW b, Anchor(S, d, a, b)
    PROVE  Ahead(q, c, k, d, l) <=> ~Ahead(q, a, b, c, k)
<1> DEFINE n == Len(q)
           x == Spot(q, c, k)
           y == Spot(q, d, l)
           z == Spot(q, d, 1)
<1>1. x \in 1 .. n /\ Covers(q, x, c, k) /\ Of(q, x) = c /\ c \in Nat /\ k \in Nat
    BY SpotFacts
<1>2. /\ y \in 1 .. n /\ Covers(q, y, d, l) /\ Of(q, y) = d
      /\ d \in Nat /\ l \in Nat /\ (d = 0 <=> l = 0)
    BY SpotFacts
<1>3. l >= 1 /\ d # 0 /\ d # c
    BY <1>1, <1>2
<1>4. Place(S, d, 1)
    <2>1. PICK m : Insertion(S, d, m) /\ l <= m
        BY DEF Place
    <2>2. m \in Nat
        BY <2>1, InsertionFacts
    <2>3. 1 <= m
        BY <1>2, <1>3, <2>1, <2>2
    <2> QED BY <2>1, <2>3 DEF Place
<1>5. z \in 1 .. n /\ Covers(q, z, d, 1) /\ Of(q, z) = d
    BY <1>4, SpotFacts
<1>6. n \in Nat /\ \A i \in 1 .. n : Of(q, i) \in Nat /\ Start(q, i) \in Nat /\ End(q, i) \in Nat
                                     /\ (Of(q, i) = 0 <=> i = 1)
    BY BlockFacts
<1> HIDE DEF x, y, z, n
<1>7. z <= y
    <2>1. 1 \in Nat /\ 1 <= l
        BY <1>3
    <2> QED BY <1>2, <1>5, <2>1, CoverOrder DEF n
<1>8. Start(q, z) = 0 /\ z \in 2 .. n
    <2>1. Start(q, z) < 1 /\ Start(q, z) \in Nat /\ z # 1
        BY <1>3, <1>5, <1>6 DEF Covers
    <2> QED BY <1>5, <2>1
<1>9. PICK j \in 1 .. n : /\ j < z /\ Covers(q, j, a, b) /\ b = End(q, j)
                          /\ \A m \in 1 .. n : j < m /\ m < z => Of(q, m) > Of(q, z)
    <2>1. Behind(q, z, a, b)
        BY <1>5, <1>8 DEF Structure, Anchored, n
    <2> QED BY <2>1 DEF Behind, n
<1>10. Place(S, a, b)
    BY AnchorFacts
<1>11. j = Spot(q, a, b)
    <2>1. b \in Nat
        BY <1>6, <1>9
    <2> QED BY <1>9, <2>1, SpotIs DEF n
<1>12. j < x <=> Ahead(q, a, b, c, k)
    BY <1>1, <1>9, <1>10, <1>11, AheadBlock DEF n
<1>13. ~(j < x /\ x < z)
    <2>1. j < x /\ x < z => c > d
        BY <1>1, <1>5, <1>9
    <2> QED BY <1>1, <1>2, <2>1
<1>14. ~(z <= x /\ x <= y)
    <2>1. \A m \in 1 .. n : z < m /\ m < y => Of(q, m) >= Of(q, z)
        BY <1>2, <1>5 DEF Structure, InOrder, n
    <2>2. x # z /\ x # y
        BY <1>1, <1>2, <1>3, <1>5
    <2>3. z < x /\ x < y => c >= d
        BY <1>1, <1>5, <2>1
    <2> QED BY <1>1, <1>2, <1>5, <2>2, <2>3
<1>15. x < y <=> x <= j
    BY <1>1, <1>2, <1>5, <1>6, <1>7, <1>9, <1>13, <1>14
<1>16. Ahead(q, c, k, d, l) <=> x < y
    BY <1>3 DEF Ahead, x, y
<1> QED BY <1>1, <1>9, <1>12, <1>15, <1>16

\* What is there stays there.
LEMMA PlacesStay ==
    ASSUME NEW S, NEW T, S \subseteq T
    PROVE  /\ \A c, n : Insertion(S, c, n) => Insertion(T, c, n)
           /\ \A c, k : Place(S, c, k) => Place(T, c, k)
           /\ \A c, a, k : Anchor(S, c, a, k) => Anchor(T, c, a, k)
<1>1. Inserting(S) \subseteq Inserting(T)
    BY DEF Inserting
<1>2. \A c, n : Insertion(S, c, n) => Insertion(T, c, n)
    BY <1>1 DEF Insertion
<1>3. \A c, k : Place(S, c, k) => Place(T, c, k)
    BY <1>2 DEF Place
<1>4. \A c, a, k : Anchor(S, c, a, k) => Anchor(T, c, a, k)
    BY <1>1 DEF Anchor
<1> QED BY <1>2, <1>3, <1>4

\* Of two places of two insertions one comes before the other.
LEMMA AheadTotal ==
    ASSUME NEW S, Founded(S), NEW K, NEW q, Structure(q, S, K),
           NEW c, NEW k, Place(S, c, k), NEW d, NEW l, Place(S, d, l), c # d
    PROVE  Ahead(q, c, k, d, l) <=> ~Ahead(q, d, l, c, k)
<1> DEFINE x == Spot(q, c, k)
           y == Spot(q, d, l)
<1>1. x \in 1 .. Len(q) /\ Of(q, x) = c
    BY SpotFacts
<1>2. y \in 1 .. Len(q) /\ Of(q, y) = d
    BY SpotFacts
<1>3. /\ Ahead(q, c, k, d, l) <=> x < y
      /\ Ahead(q, d, l, c, k) <=> y < x
    BY DEF Ahead
<1> HIDE DEF x, y
<1>4. x \in Nat /\ y \in Nat /\ x # y
    BY <1>1, <1>2, BlockFacts
<1> QED BY <1>3, <1>4

\* Two texts have the places of the changes both have executed in the same order.
Agreed(q, r, S, c, d) ==
    \A k, l : Place(S, c, k) /\ Place(S, d, l) =>
        (Ahead(q, c, k, d, l) <=> Ahead(r, c, k, d, l))

LEMMA OrderAgreed ==
    ASSUME NEW S, Founded(S), NEW K, NEW q, Structure(q, S, K),
           NEW T, Founded(T), NEW M, NEW r, Structure(r, T, M), S \subseteq T,
           NEW c \in Nat, NEW d \in Nat
    PROVE  Agreed(q, r, S, c, d)
<1> DEFINE I == {m \in Nat : \A x, y \in 0 .. m : Agreed(q, r, S, x, y)}
<1>1. ASSUME NEW x
      PROVE  Agreed(q, r, S, x, x)
    BY DEF Agreed, Ahead
<1>2. ASSUME NEW m \in Nat, NEW x \in 0 .. m, NEW y \in 0 .. m, x < y,
             m - 1 \in I
      PROVE  Agreed(q, r, S, x, y)
    <2> SUFFICES ASSUME NEW k, NEW l, Place(S, x, k), Place(S, y, l)
                 PROVE  Ahead(q, x, k, y, l) <=> Ahead(r, x, k, y, l)
        BY DEF Agreed
    <2>1. y # 0 /\ m - 1 \in Nat /\ x \in 0 .. (m - 1)
        BY <1>2
    <2>2. PICK n : Insertion(S, y, n)
        BY DEF Place
    <2>3. PICK a, b : Anchor(S, y, a, b)
        BY <2>1, <2>2, AnchorExists
    <2>4. Place(S, a, b) /\ a \in Nat /\ a < y
        BY <2>3, AnchorFacts
    <2>5. Anchor(T, y, a, b) /\ Place(T, x, k) /\ Place(T, y, l)
        BY <2>3, PlacesStay
    <2>6. Ahead(q, x, k, y, l) <=> ~Ahead(q, a, b, x, k)
        BY <1>2, <2>3, AnchorOrder
    <2>7. Ahead(r, x, k, y, l) <=> ~Ahead(r, a, b, x, k)
        BY <1>2, <2>5, AnchorOrder
    <2>8. a \in 0 .. (m - 1)
        BY <1>2, <2>4
    <2>9. Agreed(q, r, S, a, x)
        BY <1>2, <2>1, <2>8
    <2>10. Ahead(q, a, b, x, k) <=> Ahead(r, a, b, x, k)
        BY <2>4, <2>9 DEF Agreed
    <2> QED BY <2>6, <2>7, <2>10
<1>3. ASSUME NEW x, NEW y, x # y, Agreed(q, r, S, x, y)
      PROVE  Agreed(q, r, S, y, x)
    <2> SUFFICES ASSUME NEW k, NEW l, Place(S, y, k), Place(S, x, l)
                 PROVE  Ahead(q, y, k, x, l) <=> Ahead(r, y, k, x, l)
        BY DEF Agreed
    <2>1. Place(T, y, k) /\ Place(T, x, l)
        BY PlacesStay
    <2>2. Ahead(q, y, k, x, l) <=> ~Ahead(q, x, l, y, k)
        BY <1>3, AheadTotal
    <2>3. Ahead(r, y, k, x, l) <=> ~Ahead(r, x, l, y, k)
        BY <1>3, <2>1, AheadTotal
    <2>4. Ahead(q, x, l, y, k) <=> Ahead(r, x, l, y, k)
        BY <1>3 DEF Agreed
    <2> QED BY <2>2, <2>3, <2>4
<1>4. 0 \in I
    <2>1. \A x, y \in 0 .. 0 : x = y
        OBVIOUS
    <2> QED BY <1>1, <2>1
<1>5. ASSUME NEW m \in Nat, m - 1 \in I
      PROVE  m \in I
    <2> HIDE DEF I
    <2>1. ASSUME NEW x \in 0 .. m, NEW y \in 0 .. m
          PROVE  Agreed(q, r, S, x, y)
        <3>1. x = y \/ x < y \/ y < x
            OBVIOUS
        <3>2. CASE x = y
            BY <1>1, <3>2
        <3>3. CASE x < y
            BY <1>2, <1>5, <3>3
        <3>4. CASE y < x
            <4>1. Agreed(q, r, S, y, x)
                BY <1>2, <1>5, <3>4
            <4> QED BY <1>3, <3>4, <4>1
        <3> QED BY <3>1, <3>2, <3>3, <3>4
    <2> USE DEF I
    <2> QED BY <2>1
<1>6. PICK n \in Nat : c \in 0 .. n /\ d \in 0 .. n
    <2>1. c <= d \/ d <= c
        OBVIOUS
    <2>2. CASE c <= d
        BY <2>2
    <2>3. CASE d <= c
        BY <2>3
    <2> QED BY <2>1, <2>2, <2>3
<1>7. n \in I
    <2> HIDE DEF I
    <2>1. \A i \in 1 .. n : i - 1 \in I => i \in I
        BY <1>5
    <2>2. \A i \in 0 .. n : i \in I
        BY <1>4, <2>1, BoundedInduction
    <2> QED BY <2>2
<1> QED BY <1>6, <1>7

LEMMA OrderTransfer ==
    ASSUME NEW S, Founded(S), NEW K, NEW q, Structure(q, S, K),
           NEW T, Founded(T), NEW M, NEW r, Structure(r, T, M), S \subseteq T,
           NEW c, NEW k, Place(S, c, k), NEW d, NEW l, Place(S, d, l)
    PROVE  Ahead(q, c, k, d, l) <=> Ahead(r, c, k, d, l)
<1>1. c \in Nat
    BY SpotFacts
<1>2. d \in Nat
    BY SpotFacts
<1>3. Agreed(q, r, S, c, d)
    BY <1>1, <1>2, OrderAgreed
<1> QED BY <1>3 DEF Agreed

-----------------------------------------------------------------------------
(***************************************************************************)
(* One structure for one set of changes                                    *)
(***************************************************************************)

\* Two texts of the same changes and the same cuts have the same blocks.
LEMMA SameBlock ==
    ASSUME NEW S, Founded(S), NEW K, NEW q, Structure(q, S, K), NEW r, Structure(r, S, K),
           NEW y \in 1 .. Len(q)
    PROVE  LET i == Spot(r, Of(q, y), End(q, y))
           IN  /\ i \in 1 .. Len(r) /\ Of(r, i) = Of(q, y)
               /\ Start(r, i) = Start(q, y) /\ End(r, i) = End(q, y)
<1> DEFINE c == Of(q, y)
           a == Start(q, y)
           b == End(q, y)
           i == Spot(r, c, b)
<1>1. /\ c \in Nat /\ a \in Nat /\ b \in Nat /\ (c = 0 <=> y = 1)
      /\ (y = 1 => a = 0 /\ b = 0) /\ (y # 1 => a < b) /\ Place(S, c, b)
    BY BlockFacts
<1>2. i \in 1 .. Len(r) /\ Covers(r, i, c, b) /\ Of(r, i) = c
    BY <1>1, SpotFacts
<1> HIDE DEF c, a, b, i
<1>3. /\ Start(r, i) \in Nat /\ End(r, i) \in Nat /\ (c = 0 <=> i = 1)
      /\ (i = 1 => Start(r, i) = 0 /\ End(r, i) = 0) /\ (i # 1 => Start(r, i) < End(r, i))
    BY <1>2, BlockFacts
<1>4. CASE y = 1
    BY <1>1, <1>2, <1>3, <1>4 DEF a, b, c, i
<1>5. CASE y # 1
    <2>1. i # 1 /\ a < b /\ Start(r, i) < b /\ b <= End(r, i) /\ c # 0
        BY <1>1, <1>2, <1>3, <1>5 DEF Covers
    <2>2. PICK m : /\ Insertion(S, c, m) /\ b <= m /\ (b = m \/ <<c, b>> \in K)
                   /\ (a = 0 \/ <<c, a>> \in K)
        <3>1. y \in 2 .. Len(q)
            BY <1>5, BlockFacts
        <3>2. Fits(q, y, S, K)
            BY <3>1 DEF Structure, Blocked
        <3> QED BY <3>2 DEF Fits, a, b, c
    <2>3. PICK l : /\ Insertion(S, c, l) /\ End(r, i) <= l
                   /\ (Start(r, i) = 0 \/ <<c, Start(r, i)>> \in K)
        <3>1. i \in 2 .. Len(r)
            BY <1>2, <2>1, BlockFacts
        <3>2. Fits(r, i, S, K)
            BY <3>1 DEF Structure, Blocked
        <3> QED BY <1>2, <3>2 DEF Fits
    <2>4. l = m /\ m \in Nat
        BY <2>2, <2>3, InsertionFacts
    <2>5. End(r, i) = b
        <3>1. CASE b = m
            BY <1>1, <1>3, <2>1, <2>3, <2>4, <3>1
        <3>2. CASE <<c, b>> \in K
            BY <1>1, <1>2, <3>2 DEF Structure, Blocked
        <3> QED BY <2>2, <3>1, <3>2
    <2>6. ~(Start(r, i) < a)
        <3> SUFFICES ASSUME Start(r, i) < a PROVE FALSE
            OBVIOUS
        <3>1. <<c, a>> \in K
            BY <1>1, <1>3, <2>2
        <3>2. Covers(r, i, c, a)
            BY <1>1, <1>2, <2>1, <2>5 DEF Covers
        <3>3. a = End(r, i)
            BY <1>1, <1>2, <3>1, <3>2 DEF Structure, Blocked
        <3> QED BY <1>1, <2>1, <2>5, <3>3
    <2>7. ~(a < Start(r, i))
        <3> SUFFICES ASSUME a < Start(r, i) PROVE FALSE
            OBVIOUS
        <3>1. <<c, Start(r, i)>> \in K
            BY <1>1, <1>3, <2>3
        <3>2. Start(r, i) <= b
            BY <1>1, <1>3, <2>1
        <3>3. Covers(q, y, c, Start(r, i))
            BY <3>2 DEF Covers, a, b, c
        <3>4. Start(r, i) = b
            BY <1>3, <3>1, <3>3 DEF Structure, Blocked, b
        <3> QED BY <1>1, <1>3, <2>1, <3>4
    <2>8. Start(r, i) = a
        BY <1>1, <1>3, <2>6, <2>7
    <2> QED BY <1>2, <2>5, <2>8 DEF a, b, c, i
<1> QED BY <1>4, <1>5

\* In the same order.
LEMMA SameBlockOrder ==
    ASSUME NEW S, Founded(S), NEW K, NEW q, Structure(q, S, K), NEW r, Structure(r, S, K),
           NEW y \in 1 .. Len(q), NEW z \in 1 .. Len(q), y < z
    PROVE  Spot(r, Of(q, y), End(q, y)) < Spot(r, Of(q, z), End(q, z))
<1> DEFINE c == Of(q, y)
           k == End(q, y)
           d == Of(q, z)
           l == End(q, z)
           i == Spot(r, c, k)
           j == Spot(r, d, l)
<1>1. Place(S, c, k) /\ Covers(q, y, c, k) /\ c \in Nat /\ k \in Nat /\ (c = 0 <=> y = 1)
    BY BlockFacts
<1>2. Place(S, d, l) /\ Covers(q, z, d, l) /\ d \in Nat /\ l \in Nat /\ (d = 0 <=> z = 1)
    BY BlockFacts
<1>3. i \in 1 .. Len(r) /\ Of(r, i) = c /\ End(r, i) = k
    BY SameBlock
<1>4. j \in 1 .. Len(r) /\ Of(r, j) = d /\ End(r, j) = l
    BY SameBlock
<1>5. y = Spot(q, c, k)
    BY <1>1, SpotIs
<1> HIDE DEF i, j
<1>6. Spot(q, c, k) < z <=> Ahead(q, c, k, d, l)
    <2>1. End(q, Spot(q, c, k)) = k
        BY <1>5
    <2> HIDE DEF c, k, d, l
    <2> QED BY <1>1, <1>2, <2>1, AheadBlock
<1>7. Ahead(r, c, k, d, l)
    <2>1. Ahead(q, c, k, d, l)
        BY <1>5, <1>6
    <2> HIDE DEF c, k, d, l
    <2> QED BY <1>1, <1>2, <2>1, OrderTransfer
<1>8. i < j <=> Ahead(r, c, k, d, l)
    <2>1. Covers(r, j, d, l)
        BY <1>4, BlockFacts
    <2> HIDE DEF c, k, d, l
    <2>2. End(r, Spot(r, c, k)) = k
        BY <1>3 DEF i
    <2> QED BY <1>1, <1>2, <1>4, <2>1, <2>2, AheadBlock DEF i
<1> QED BY <1>7, <1>8 DEF i, j

\* What only grows from 1 is never less than its argument.
LEMMA GrowingFcn ==
    ASSUME NEW n \in Nat, NEW f, \A i \in 1 .. n : f[i] \in Nat \ {0},
           \A i, j \in 1 .. n : i < j => f[i] < f[j]
    PROVE  \A i \in 1 .. n : i <= f[i]
<1> DEFINE I == {i \in 0 .. n : i \in 1 .. n => i <= f[i]}
<1>1. 0 \in I
    OBVIOUS
<1>2. ASSUME NEW i \in 1 .. n, i - 1 \in I
      PROVE  i \in I
    <2>1. CASE i = 1
        <3>1. f[i] \in Nat \ {0}
            OBVIOUS
        <3> QED BY <2>1, <3>1
    <2>2. CASE i # 1
        <3>1. i - 1 \in 1 .. n /\ i - 1 < i
            BY <2>2
        <3>2. i - 1 <= f[i - 1] /\ f[i - 1] < f[i] /\ f[i - 1] \in Nat /\ f[i] \in Nat
            BY <1>2, <3>1
        <3>3. i <= f[i]
            BY <3>2
        <3> QED BY <3>3
    <2> QED BY <2>1, <2>2
<1> HIDE DEF I
<1>3. \A i \in 0 .. n : i \in I
    BY <1>1, <1>2, BoundedInduction
<1> QED BY <1>3 DEF I

LEMMA SpotNotBefore ==
    ASSUME NEW S, Founded(S), NEW K, NEW q, Structure(q, S, K), NEW r, Structure(r, S, K),
           NEW y \in 1 .. Len(q)
    PROVE  y <= Spot(r, Of(q, y), End(q, y))
<1> DEFINE f == [i \in 1 .. Len(q) |-> Spot(r, Of(q, i), End(q, i))]
<1>1. Len(q) \in Nat /\ Len(r) \in Nat
    BY BlockFacts
<1>2. \A i \in 1 .. Len(q) : f[i] = Spot(r, Of(q, i), End(q, i))
    OBVIOUS
<1> HIDE DEF f
<1>3. \A i \in 1 .. Len(q) : f[i] \in Nat \ {0}
    <2>1. \A i \in 1 .. Len(q) : f[i] \in 1 .. Len(r)
        BY <1>2, SameBlock
    <2> QED BY <1>1, <2>1
<1>4. \A i, j \in 1 .. Len(q) : i < j => f[i] < f[j]
    BY <1>2, SameBlockOrder
<1>5. \A i \in 1 .. Len(q) : i <= f[i]
    BY <1>1, <1>3, <1>4, GrowingFcn
<1> QED BY <1>2, <1>5

LEMMA SameStructure ==
    ASSUME NEW S, Founded(S), NEW K, NEW q, Structure(q, S, K), NEW r, Structure(r, S, K)
    PROVE  /\ Len(q) = Len(r)
           /\ \A i \in 1 .. Len(q) : Of(r, i) = Of(q, i) /\ Start(r, i) = Start(q, i)
<1>1. ASSUME NEW u, Structure(u, S, K), NEW v, Structure(v, S, K), NEW y \in 1 .. Len(u)
      PROVE  y \in 1 .. Len(v) /\ Of(v, y) = Of(u, y) /\ Start(v, y) = Start(u, y)
    <2> DEFINE i == Spot(v, Of(u, y), End(u, y))
    <2>1. /\ i \in 1 .. Len(v) /\ Of(v, i) = Of(u, y)
          /\ Start(v, i) = Start(u, y) /\ End(v, i) = End(u, y)
        BY <1>1, SameBlock
    <2>2. y <= i
        BY <1>1, SpotNotBefore
    <2>3. Covers(u, y, Of(u, y), End(u, y)) /\ End(u, y) \in Nat
        BY <1>1, BlockFacts
    <2>4. y = Spot(u, Of(u, y), End(u, y))
        BY <1>1, <2>3, SpotIs
    <2> HIDE DEF i
    <2>5. i <= Spot(u, Of(v, i), End(v, i))
        BY <1>1, <2>1, SpotNotBefore
    <2>6. i <= y
        BY <2>1, <2>4, <2>5
    <2>7. y \in Nat /\ i \in Nat
        BY <1>1, <2>1, BlockFacts
    <2>8. y = i
        BY <2>2, <2>6, <2>7
    <2> QED BY <2>1, <2>8
<1>2. Len(q) \in Nat /\ Len(q) >= 1
    BY BlockFacts
<1>3. Len(r) \in Nat /\ Len(r) >= 1
    BY BlockFacts
<1>4. Len(q) \in 1 .. Len(r) /\ Len(r) \in 1 .. Len(q)
    <2>1. Len(q) \in 1 .. Len(q) /\ Len(r) \in 1 .. Len(r)
        BY <1>2, <1>3
    <2> QED BY <1>1, <2>1
<1> QED BY <1>1, <1>2, <1>3, <1>4

-----------------------------------------------------------------------------
(***************************************************************************)
(* Inserting a block                                                       *)
(***************************************************************************)

\* A change that inserts nothing leaves the structure as it is.
LEMMA ShapeKeeps ==
    ASSUME NEW S, NEW T, Inserting(T) = Inserting(S), NEW K, NEW q, Structure(q, S, K),
           NEW r \in Seq(Block), Len(r) = Len(q),
           \A i \in 1 .. Len(q) :
              Of(r, i) = Of(q, i) /\ Start(r, i) = Start(q, i) /\ End(r, i) = End(q, i)
    PROVE  Structure(r, T, K)
<1>1. /\ \A c, n : Insertion(T, c, n) <=> Insertion(S, c, n)
      /\ \A c, k : Place(T, c, k) <=> Place(S, c, k)
      /\ \A c, a, k : Anchor(T, c, a, k) <=> Anchor(S, c, a, k)
    BY DEF Insertion, Place, Anchor
<1>2. PICK n \in Nat : n = Len(q) /\ n = Len(r) /\ n >= 1
    <2>1. q \in Seq(Block) /\ Len(q) >= 1
        BY DEF Structure, Headed
    <2> QED BY <2>1
<1>3. 1 \in 1 .. n /\ \A i \in 2 .. n : i \in 1 .. n
    BY <1>2
<1>4. Headed(r)
    BY <1>2, <1>3 DEF Structure, Headed
<1>5. \A i \in 1 .. n : \A c, k : Covers(r, i, c, k) <=> Covers(q, i, c, k)
    BY <1>2 DEF Covers
<1>6. \A i \in 1 .. n : Fits(r, i, T, K) <=> Fits(q, i, S, K)
    BY <1>1, <1>2 DEF Fits
<1>7. Blocked(r, T, K)
    BY <1>1, <1>2, <1>3, <1>5, <1>6 DEF Structure, Blocked
<1>8. InOrder(r)
    BY <1>2 DEF Structure, InOrder
<1>9. \A i \in 1 .. n : \A a, k : Behind(r, i, a, k) <=> Behind(q, i, a, k)
    BY <1>2, <1>5 DEF Behind
<1>10. Anchored(r, T)
    BY <1>1, <1>2, <1>3, <1>9 DEF Structure, Anchored
<1> QED BY <1>4, <1>7, <1>8, <1>10 DEF Structure

\* The insertion d of length len is a new block behind block i.
Grown(q, r, i, d, len) ==
    /\ r \in Seq(Block) /\ Len(r) = Len(q) + 1
    /\ Of(r, i + 1) = d /\ Start(r, i + 1) = 0 /\ End(r, i + 1) = len
    /\ \A m \in 1 .. Len(r) : m # i + 1 =>
          /\ Of(r, m) = Of(q, Whole(i, m))
          /\ Start(r, m) = Start(q, Whole(i, m)) /\ End(r, m) = End(q, Whole(i, m))

\* The blocks before and after the insertion.
LEMMA WholeFacts ==
    ASSUME NEW n \in Nat, NEW i \in 1 .. n
    PROVE  /\ \A m \in 1 .. (n + 1) : m # i + 1 =>
                /\ Whole(i, m) \in 1 .. n
                /\ (m < i + 1 => Whole(i, m) <= i) /\ (i + 1 < m => i + 1 <= Whole(i, m))
           /\ \A a, b \in 1 .. (n + 1) : a # i + 1 /\ b # i + 1 /\ a < b =>
                Whole(i, a) < Whole(i, b)
           /\ \A h \in 1 .. n : \E m \in 1 .. (n + 1) : m # i + 1 /\ Whole(i, m) = h
           /\ Whole(i, 1) = 1
<1>1. \A m \in 1 .. (n + 1) : m # i + 1 =>
                /\ Whole(i, m) \in 1 .. n
                /\ (m < i + 1 => Whole(i, m) <= i) /\ (i + 1 < m => i + 1 <= Whole(i, m))
    BY DEF Whole
<1>2. \A a, b \in 1 .. (n + 1) : a # i + 1 /\ b # i + 1 /\ a < b => Whole(i, a) < Whole(i, b)
    BY DEF Whole
<1>3. ASSUME NEW h \in 1 .. n
      PROVE  \E m \in 1 .. (n + 1) : m # i + 1 /\ Whole(i, m) = h
    <2>1. CASE h <= i
        <3>1. h \in 1 .. (n + 1) /\ h # i + 1 /\ Whole(i, h) = h
            BY <2>1 DEF Whole
        <3> QED BY <3>1
    <2>2. CASE ~(h <= i)
        <3>1. h + 1 \in 1 .. (n + 1) /\ h + 1 # i + 1 /\ Whole(i, h + 1) = h
            BY <2>2 DEF Whole
        <3> QED BY <3>1
    <2> QED BY <2>1, <2>2
<1>4. Whole(i, 1) = 1
    BY DEF Whole
<1> QED BY <1>1, <1>2, <1>3, <1>4

\* An edit inserts its block where the structure wants it.
LEMMA InsertKeeps ==
    ASSUME NEW S, Founded(S), NEW e, Founded(S \cup {e}), e \in Inserting(S \cup {e}),
           \A f \in S : At(f) # At(e),
           NEW K, NEW q, Structure(q, S, K), \A c, k : <<c, k>> \in K => c # At(e),
           NEW i, IsLeft(q, Spot(q, e.op.from.createdAt, Offset(e.op.from)), At(e), i),
           End(q, Spot(q, e.op.from.createdAt, Offset(e.op.from))) = Offset(e.op.from),
           Place(S, e.op.from.createdAt, Offset(e.op.from)),
           NEW r, Grown(q, r, i, At(e), e.op.len)
    PROVE  Structure(r, S \cup {e}, K)
<1> DEFINE T == S \cup {e}
           d == At(e)
           len == e.op.len
           fc == e.op.from.createdAt
           fk == Offset(e.op.from)
           p == Spot(q, fc, fk)
<1>1. d \in Nat /\ 1 < d /\ len \in Nat /\ 0 < len
    BY LastLineIs DEF Founded, Inserting, RichTextOperation
<1>2. /\ \A c, m : Insertion(T, c, m) <=> (Insertion(S, c, m) \/ (c = d /\ m = len))
      /\ \A c, a, k : Anchor(T, c, a, k) <=> (Anchor(S, c, a, k) \/ (c = d /\ a = fc /\ k = fk))
    <2>1. \A f : f \in Inserting(T) <=> (f \in Inserting(S) \/ f = e)
        BY DEF Inserting
    <2> QED BY <2>1 DEF Insertion, Anchor
<1>3. (\A m : ~Insertion(S, d, m)) /\ (\A a, k : ~Anchor(S, d, a, k))
    <2>1. \A f \in Inserting(S) : At(f) # d
        BY DEF Inserting
    <2> HIDE DEF d
    <2> QED BY <1>1, <2>1, LastLineIs DEF Insertion, Anchor
<1>4. p \in 1 .. Len(q) /\ Covers(q, p, fc, fk)
    BY SpotFacts
<1>5. PICK n \in Nat : n = Len(q)
    BY BlockFacts
<1>6. \A m \in 1 .. n : /\ Of(q, m) \in Nat /\ Start(q, m) \in Nat /\ End(q, m) \in Nat
                        /\ Of(q, m) # d /\ (Of(q, m) = 0 <=> m = 1)
    <2>1. \A m \in 1 .. n : /\ Of(q, m) \in Nat /\ Start(q, m) \in Nat /\ End(q, m) \in Nat
                            /\ Place(S, Of(q, m), End(q, m)) /\ (Of(q, m) = 0 <=> m = 1)
        BY <1>5, BlockFacts
    <2> HIDE DEF d
    <2> QED BY <1>3, <2>1 DEF Place
<1>7. /\ i \in p .. n /\ (i < n => Of(q, i + 1) <= d) /\ \A j \in (p + 1) .. i : Of(q, j) > d
      /\ \A c, k : <<c, k>> \in K => c # d
      /\ End(q, p) = fk
    BY <1>5 DEF IsLeft
<1>8. /\ r \in Seq(Block) /\ Len(r) = n + 1
      /\ Of(r, i + 1) = d /\ Start(r, i + 1) = 0 /\ End(r, i + 1) = len
      /\ \A m \in 1 .. (n + 1) : m # i + 1 =>
          /\ Of(r, m) = Of(q, Whole(i, m))
          /\ Start(r, m) = Start(q, Whole(i, m)) /\ End(r, m) = End(q, Whole(i, m))
    BY <1>5 DEF Grown
<1> HIDE DEF d, len, fc, fk, p, T
<1>9. i \in 1 .. n /\ p \in 1 .. n /\ p <= i
    BY <1>4, <1>5, <1>7
<1>10. /\ \A m \in 1 .. (n + 1) : m # i + 1 =>
                /\ Whole(i, m) \in 1 .. n
                /\ (m < i + 1 => Whole(i, m) <= i) /\ (i + 1 < m => i + 1 <= Whole(i, m))
       /\ \A a, b \in 1 .. (n + 1) : a # i + 1 /\ b # i + 1 /\ a < b => Whole(i, a) < Whole(i, b)
       /\ \A h \in 1 .. n : \E m \in 1 .. (n + 1) : m # i + 1 /\ Whole(i, m) = h
       /\ Whole(i, 1) = 1
    BY <1>9, WholeFacts
<1>11. \A m \in 1 .. (n + 1) : m # i + 1 =>
          \A c, k : Covers(r, m, c, k) <=> Covers(q, Whole(i, m), c, k)
    BY <1>8 DEF Covers
<1>12. i + 1 \in 1 .. (n + 1) /\ 1 \in 1 .. (n + 1) /\ 1 # i + 1
    BY <1>9
<1>13. Headed(r)
    <2>1. Of(q, 1) = 0 /\ Start(q, 1) = 0 /\ End(q, 1) = 0
        BY DEF Structure, Headed
    <2> QED BY <1>8, <1>10, <1>12, <2>1 DEF Headed
<1>14. ASSUME NEW m \in 2 .. (n + 1)
       PROVE  Fits(r, m, T, K)
    <2>1. CASE m = i + 1
        <3>1. Insertion(T, d, len) /\ len <= len /\ d # 0
            BY <1>1, <1>2
        <3> QED BY <1>1, <1>8, <2>1, <3>1 DEF Fits
    <2>2. CASE m # i + 1
        <3>1. m \in 1 .. (n + 1) /\ 1 < m
            OBVIOUS
        <3>2. Whole(i, m) \in 1 .. n /\ 1 < Whole(i, m)
            BY <1>10, <1>12, <2>2, <3>1
        <3>3. Whole(i, m) \in 2 .. Len(q)
            BY <1>5, <3>2
        <3>4. Fits(q, Whole(i, m), S, K)
            BY <3>3 DEF Structure, Blocked
        <3> QED BY <1>2, <1>8, <2>2, <3>1, <3>4 DEF Fits
    <2> QED BY <2>1, <2>2
<1>15. ASSUME NEW m \in 1 .. (n + 1), NEW c, NEW k \in Nat, Covers(r, m, c, k), <<c, k>> \in K
       PROVE  k = End(r, m)
    <2>1. c # d
        BY <1>7, <1>15
    <2>2. m # i + 1
        BY <1>8, <1>15, <2>1 DEF Covers
    <2>3. Whole(i, m) \in 1 .. n /\ Covers(q, Whole(i, m), c, k)
        BY <1>10, <1>11, <1>15, <2>2
    <2>4. k = End(q, Whole(i, m))
        BY <1>5, <1>15, <2>3 DEF Structure, Blocked
    <2> QED BY <1>8, <2>2, <2>4
<1>16. ASSUME NEW c, NEW k, Place(T, c, k)
       PROVE  \E m \in 1 .. (n + 1) : Covers(r, m, c, k)
    <2>1. PICK l : k \in Nat /\ (k = 0 => c = 0) /\ Insertion(T, c, l) /\ k <= l
        BY <1>16 DEF Place
    <2>2. CASE c = d
        <3>1. l = len /\ k # 0
            BY <1>1, <1>2, <1>3, <2>1, <2>2
        <3>2. Covers(r, i + 1, c, k)
            BY <1>1, <1>8, <2>1, <2>2, <3>1 DEF Covers
        <3> QED BY <1>12, <3>2
    <2>3. CASE c # d
        <3>1. Place(S, c, k)
            BY <1>2, <2>1, <2>3 DEF Place
        <3>2. PICK h \in 1 .. n : Covers(q, h, c, k)
            BY <1>5, <3>1 DEF Structure, Blocked
        <3>3. PICK m \in 1 .. (n + 1) : m # i + 1 /\ Whole(i, m) = h
            BY <1>10
        <3> QED BY <1>11, <3>2, <3>3
    <2> QED BY <2>2, <2>3
<1>17. Blocked(r, T, K)
    BY <1>8, <1>14, <1>15, <1>16 DEF Blocked
<1>18. InOrder(r)
    <2>1. ASSUME NEW a \in 1 .. (n + 1), NEW b \in 1 .. (n + 1), a < b, Of(r, a) = Of(r, b)
          PROVE  /\ a # i + 1 /\ b # i + 1
                 /\ Whole(i, a) \in 1 .. n /\ Whole(i, b) \in 1 .. n
                 /\ Whole(i, a) < Whole(i, b) /\ Of(q, Whole(i, a)) = Of(q, Whole(i, b))
        <3>1. \A m \in 1 .. (n + 1) : m # i + 1 => Of(r, m) # d
            BY <1>6, <1>8, <1>10
        <3>2. a # i + 1 /\ b # i + 1
            BY <1>8, <2>1, <3>1
        <3> QED BY <1>8, <1>10, <2>1, <3>2
    <2>2. ASSUME NEW a \in 1 .. (n + 1), NEW b \in 1 .. (n + 1), a < b, Of(r, a) = Of(r, b)
          PROVE  End(r, a) <= Start(r, b)
        <3>1. End(q, Whole(i, a)) <= Start(q, Whole(i, b))
            BY <1>5, <2>1, <2>2, BlocksApart
        <3> QED BY <1>8, <2>1, <2>2, <3>1
    <2>3. ASSUME NEW a \in 1 .. (n + 1), NEW b \in 1 .. (n + 1), NEW m \in 1 .. (n + 1),
                 a < m, m < b, Of(r, a) = Of(r, b)
          PROVE  Of(r, m) >= Of(r, a)
        <3>1. a < b
            BY <2>3
        <3>2. PICK f \in 1 .. n : f = Whole(i, a) /\ Of(r, a) = Of(q, f) /\ a # i + 1
            BY <1>8, <2>1, <2>3, <3>1
        <3>3. PICK h \in 1 .. n : h = Whole(i, b) /\ Of(q, h) = Of(q, f) /\ b # i + 1 /\ f < h
            BY <2>1, <2>3, <3>1, <3>2
        <3>4. \A g \in 1 .. n : f < g /\ g < h => Of(q, g) >= Of(q, f)
            BY <1>5, <3>3 DEF Structure, InOrder
        <3>5. CASE m # i + 1
            <4>1. Whole(i, m) \in 1 .. n /\ f < Whole(i, m) /\ Whole(i, m) < h
                BY <1>10, <2>3, <3>2, <3>3, <3>5
            <4> QED BY <1>8, <3>2, <3>4, <3>5, <4>1
        <3>6. CASE m = i + 1
            <4>1. f <= i /\ i + 1 <= h
                BY <1>10, <2>3, <3>2, <3>3, <3>6
            <4>2. i < n /\ i + 1 \in 1 .. n /\ f < i + 1
                BY <1>9, <4>1
            <4>3. Of(q, i + 1) <= d /\ Of(q, i + 1) \in Nat /\ Of(q, f) \in Nat
                BY <1>6, <1>7, <4>2
            <4>4. Of(q, i + 1) >= Of(q, f)
                BY <3>3, <3>4, <4>1, <4>2, <4>3
            <4>5. d >= Of(q, f)
                BY <1>1, <4>3, <4>4
            <4> QED BY <1>8, <3>2, <3>6, <4>5
        <3> QED BY <3>5, <3>6
    <2> QED BY <1>8, <2>2, <2>3 DEF InOrder
<1>19. Anchored(r, T)
    <2> SUFFICES ASSUME NEW m \in 2 .. (n + 1), NEW a, NEW k,
                        Start(r, m) = 0, Anchor(T, Of(r, m), a, k)
                 PROVE  Behind(r, m, a, k)
        BY <1>8 DEF Anchored
    <2>1. m \in 1 .. (n + 1) /\ 1 < m
        OBVIOUS
    <2>2. CASE m = i + 1
        <3>1. a = fc /\ k = fk
            BY <1>2, <1>3, <1>8, <2>2
        <3>2. p \in 1 .. (n + 1) /\ p # i + 1 /\ Whole(i, p) = p /\ p < m
            BY <1>9, <2>2 DEF Whole
        <3>3. Covers(r, p, a, k) /\ k = End(r, p)
            BY <1>4, <1>7, <1>8, <1>11, <3>1, <3>2
        <3>4. ASSUME NEW x \in 1 .. (n + 1), p < x, x < m
              PROVE  Of(r, x) > Of(r, m)
            <4>1. x # i + 1 /\ Whole(i, x) = x /\ x \in (p + 1) .. i
                BY <1>9, <2>2, <3>4 DEF Whole
            <4> QED BY <1>7, <1>8, <2>2, <4>1
        <3> QED BY <1>8, <3>2, <3>3, <3>4 DEF Behind
    <2>3. CASE m # i + 1
        <3>1. PICK h \in 1 .. n : h = Whole(i, m) /\ Of(r, m) = Of(q, h) /\ Start(q, h) = 0 /\ 1 < h
            BY <1>8, <1>10, <1>12, <2>1, <2>3
        <3>2. Of(q, h) # d /\ Of(q, h) \in Nat
            BY <1>6
        <3>3. Anchor(S, Of(q, h), a, k)
            BY <1>2, <3>1, <3>2
        <3>4. h \in 2 .. Len(q)
            BY <1>5, <3>1
        <3>5. Behind(q, h, a, k)
            BY <3>1, <3>3, <3>4 DEF Structure, Anchored
        <3>6. PICK j \in 1 .. n : /\ j < h /\ Covers(q, j, a, k) /\ k = End(q, j)
                                  /\ \A x \in 1 .. n : j < x /\ x < h => Of(q, x) > Of(q, h)
            BY <1>5, <3>5 DEF Behind
        <3>7. PICK g \in 1 .. (n + 1) : g # i + 1 /\ Whole(i, g) = j
            BY <1>10
        <3>8. g < m
            <4>1. ~(m < g) /\ m # g
                BY <1>10, <2>1, <2>3, <3>1, <3>6, <3>7
            <4> QED BY <2>1, <4>1
        <3>9. Covers(r, g, a, k) /\ k = End(r, g)
            BY <1>8, <1>11, <3>6, <3>7
        <3>10. ASSUME NEW x \in 1 .. (n + 1), g < x, x < m
               PROVE  Of(r, x) > Of(r, m)
            <4>1. CASE x # i + 1
                <5>1. Whole(i, x) \in 1 .. n /\ j < Whole(i, x) /\ Whole(i, x) < h
                    BY <1>10, <2>1, <2>3, <3>1, <3>7, <3>10, <4>1
                <5> QED BY <1>8, <3>1, <3>6, <4>1, <5>1
            <4>2. CASE x = i + 1
                <5>1. j <= i /\ i + 1 <= h
                    BY <1>10, <2>1, <2>3, <3>1, <3>7, <3>10, <4>2
                <5>2. i < n /\ i + 1 \in 1 .. n /\ j < i + 1
                    BY <1>9, <5>1
                <5>3. Of(q, i + 1) <= d /\ Of(q, i + 1) \in Nat
                    BY <1>6, <1>7, <5>2
                <5>4. Of(q, i + 1) >= Of(q, h)
                    <6>1. CASE i + 1 = h
                        BY <5>3, <6>1
                    <6>2. CASE i + 1 # h
                        <7>1. i + 1 < h
                            BY <1>9, <5>1, <6>2
                        <7>2. Of(q, i + 1) > Of(q, h)
                            BY <3>6, <5>2, <7>1
                        <7> QED BY <3>2, <5>3, <7>2
                    <6> QED BY <6>1, <6>2
                <5>5. d > Of(q, h)
                    BY <1>1, <3>2, <5>3, <5>4
                <5> QED BY <1>8, <3>1, <4>2, <5>5
            <4> QED BY <4>1, <4>2
        <3> QED BY <1>8, <3>8, <3>9, <3>10 DEF Behind
    <2> QED BY <2>2, <2>3
<1>20. Structure(r, T, K)
    BY <1>8, <1>13, <1>17, <1>18, <1>19 DEF Structure
<1> QED BY <1>20 DEF T

-----------------------------------------------------------------------------
(***************************************************************************)
(* Indexes and positions                                                   *)
(***************************************************************************)

\* The length of the visible characters is summed up block by block.
Shown(q, i) == VisibleLen(q[i])
Summed(f, q, n) ==
    f = [j \in 0 .. n |-> IF j = 0 THEN 0 ELSE f[j - 1] + Shown(q, j)]

LEMMA SummedFacts ==
    ASSUME NEW q, NEW n \in Nat, NEW f, Summed(f, q, n)
    PROVE  f[0] = 0 /\ \A j \in 1 .. n : f[j] = f[j - 1] + Shown(q, j)
<1>1. \A j \in 0 .. n : f[j] = IF j = 0 THEN 0 ELSE f[j - 1] + Shown(q, j)
    BY DEF Summed
<1> QED BY <1>1

LEMMA SummedExists ==
    ASSUME NEW q, NEW n \in Nat
    PROVE  \E f : Summed(f, q, n)
<1> DEFINE T == {m \in Nat : \E f : Summed(f, q, m)}
<1>1. 0 \in T
    <2> DEFINE g == [j \in 0 .. 0 |-> 0]
    <2>1. Summed(g, q, 0)
        BY DEF Summed
    <2> QED BY <2>1
<1>2. ASSUME NEW m \in 1 .. n, m - 1 \in T
      PROVE  m \in T
    <2>1. PICK f : Summed(f, q, m - 1)
        BY <1>2
    <2> DEFINE Step(x, j) == IF j = 0 THEN 0 ELSE x[j - 1] + Shown(q, j)
               g == [j \in 0 .. m |-> Step(f, j)]
    <2>2. \A j \in 0 .. (m - 1) : f[j] = Step(f, j) /\ g[j] = Step(f, j)
        <3>1. f = [j \in 0 .. (m - 1) |-> Step(f, j)]
            BY <2>1 DEF Summed
        <3> HIDE DEF Step
        <3> QED BY <1>2, <3>1
    <2>3. \A j \in 0 .. m : j # 0 => j - 1 \in 0 .. (m - 1)
        BY <1>2
    <2>4. \A j \in 0 .. m : Step(g, j) = Step(f, j)
        <3> HIDE DEF g
        <3> QED BY <2>2, <2>3
    <2>5. g = [j \in 0 .. m |-> Step(g, j)]
        <3> HIDE DEF Step
        <3> QED BY <2>4
    <2>6. Summed(g, q, m)
        <3> HIDE DEF g
        <3> QED BY <2>5 DEF Summed
    <2>7. m \in Nat
        BY <1>2
    <2> QED BY <2>6, <2>7
<1> HIDE DEF T
<1>3. \A i \in 0 .. n : i \in T
    BY <1>1, <1>2, BoundedInduction
<1>4. n \in T
    BY <1>3
<1> QED BY <1>4 DEF T

LEMMA SummedSame ==
    ASSUME NEW q, NEW n \in Nat, NEW m \in Nat, n <= m,
           NEW f, Summed(f, q, n), NEW g, Summed(g, q, m)
    PROVE  f[n] = g[n]
<1> DEFINE T == {i \in 0 .. n : f[i] = g[i]}
<1>1. f[0] = 0 /\ \A j \in 1 .. n : f[j] = f[j - 1] + Shown(q, j)
    BY SummedFacts
<1>2. g[0] = 0 /\ \A j \in 1 .. m : g[j] = g[j - 1] + Shown(q, j)
    BY SummedFacts
<1>3. 0 \in T
    BY <1>1, <1>2
<1>4. ASSUME NEW i \in 1 .. n, i - 1 \in T
      PROVE  i \in T
    <2>1. f[i - 1] = g[i - 1] /\ i \in 1 .. m
        BY <1>4
    <2> QED BY <1>1, <1>2, <2>1
<1> HIDE DEF T
<1>5. \A i \in 0 .. n : i \in T
    BY <1>3, <1>4, BoundedInduction
<1>6. n \in T
    BY <1>5
<1> QED BY <1>6 DEF T

LEMMA LengthIs ==
    ASSUME NEW t, NEW n \in Nat, NEW f, Summed(f, Nodes(t), n)
    PROVE  LengthUpTo(t, n) = f[n]
<1> DEFINE h == CHOOSE x : Summed(x, Nodes(t), n)
<1>1. Summed(h, Nodes(t), n)
    OBVIOUS
<1>2. LengthUpTo(t, n) = h[n]
    BY DEF LengthUpTo, Summed, Shown, Nodes
<1> HIDE DEF h
<1>3. h[n] = f[n]
    <2>1. n <= n
        OBVIOUS
    <2> QED BY <1>1, <2>1, SummedSame
<1> QED BY <1>2, <1>3

LEMMA LengthStep ==
    ASSUME NEW t, NEW n \in Nat
    PROVE  /\ LengthUpTo(t, 0) = 0
           /\ n # 0 => LengthUpTo(t, n) = LengthUpTo(t, n - 1) + Shown(Nodes(t), n)
<1>1. PICK z : Summed(z, Nodes(t), 0)
    BY SummedExists
<1>2. LengthUpTo(t, 0) = 0
    BY <1>1, LengthIs, SummedFacts
<1>3. ASSUME n # 0
      PROVE  LengthUpTo(t, n) = LengthUpTo(t, n - 1) + Shown(Nodes(t), n)
    <2>1. PICK f : Summed(f, Nodes(t), n)
        BY SummedExists
    <2>2. n - 1 \in Nat /\ n - 1 <= n /\ n \in 1 .. n
        BY <1>3
    <2>3. PICK g : Summed(g, Nodes(t), n - 1)
        BY <2>2, SummedExists
    <2>4. g[n - 1] = f[n - 1]
        BY <2>1, <2>2, <2>3, SummedSame
    <2>5. f[n] = f[n - 1] + Shown(Nodes(t), n)
        BY <2>1, <2>2, SummedFacts
    <2>6. LengthUpTo(t, n) = f[n]
        BY <2>1, LengthIs
    <2>7. LengthUpTo(t, n - 1) = g[n - 1]
        BY <2>2, <2>3, LengthIs
    <2> QED BY <2>4, <2>5, <2>6, <2>7
<1> QED BY <1>2, <1>3

\* A block has no more visible characters than characters.
LEMMA ShownFacts ==
    ASSUME NEW q \in Seq(Block), NEW i \in 1 .. Len(q)
    PROVE  Shown(q, i) \in Nat /\ Start(q, i) + Shown(q, i) <= End(q, i)
<1>1. PICK b \in Block : b = q[i]
    OBVIOUS
<1> DEFINE o == b.offset
           l == b.len
<1>2. o \in Nat /\ l \in Nat
    BY DEF Block
<1>3. Shown(q, i) \in {0, l} /\ Start(q, i) = o /\ End(q, i) = o + l
    BY <1>1 DEF Shown, VisibleLen, Start, End
<1> HIDE DEF o, l
<1> QED BY <1>2, <1>3

LEMMA LengthFacts ==
    ASSUME NEW t, Nodes(t) \in Seq(Block), NEW n \in 0 .. Len(Nodes(t))
    PROVE  /\ LengthUpTo(t, n) \in Nat
           /\ \A m \in 0 .. n : LengthUpTo(t, m) <= LengthUpTo(t, n)
<1> DEFINE q == Nodes(t)
           T == {i \in 0 .. n : \A m \in 0 .. i : /\ LengthUpTo(t, m) \in Nat
                                               /\ LengthUpTo(t, m) <= LengthUpTo(t, i)}
<1>1. PICK l \in Nat : l = Len(q) /\ n \in 0 .. l /\ n \in Nat
    OBVIOUS
<1>2. LengthUpTo(t, 0) = 0
    BY LengthStep
<1>3. 0 \in T
    <2>1. (\A m \in 0 .. 0 : m = 0) /\ 0 <= 0
        OBVIOUS
    <2> QED BY <1>1, <1>2, <2>1
<1> HIDE DEF q
<1>4. ASSUME NEW i \in 1 .. n, i - 1 \in T
      PROVE  i \in T
    <2>1. i \in Nat /\ i # 0 /\ i \in 1 .. Len(q) /\ i - 1 \in Nat
        BY <1>1
    <2> DEFINE a == LengthUpTo(t, i - 1)
               b == LengthUpTo(t, i)
    <2>2. b = a + Shown(q, i)
        BY <2>1, LengthStep DEF q
    <2>3. Shown(q, i) \in Nat
        BY <2>1, ShownFacts DEF q
    <2>4. \A m \in 0 .. (i - 1) : LengthUpTo(t, m) \in Nat /\ LengthUpTo(t, m) <= a
        BY <1>4
    <2>5. a \in Nat
        BY <2>1, <2>4
    <2> HIDE DEF a
    <2>6. b \in Nat /\ a <= b
        <3> HIDE DEF b
        <3> QED BY <2>2, <2>3, <2>5
    <2>7. ASSUME NEW m \in 0 .. i
          PROVE  LengthUpTo(t, m) \in Nat /\ LengthUpTo(t, m) <= b
        <3>1. CASE m = i
            <4> HIDE DEF b
            <4>1. b <= b
                BY <2>6
            <4> QED BY <2>6, <3>1, <4>1 DEF b
        <3>2. CASE m # i
            <4>1. m \in 0 .. (i - 1)
                BY <2>1, <3>2
            <4>2. LengthUpTo(t, m) \in Nat /\ LengthUpTo(t, m) <= a
                BY <2>4, <4>1
            <4> HIDE DEF b
            <4> QED BY <2>5, <2>6, <4>2
        <3> QED BY <3>1, <3>2
    <2> QED BY <2>7
<1> HIDE DEF T
<1>5. \A i \in 0 .. n : i \in T
    BY <1>1, <1>3, <1>4, BoundedInduction
<1>6. n \in T
    BY <1>1, <1>5
<1> QED BY <1>6 DEF T

\* findNodePos finds the first block that the index is in or at the end of.
Finds(t, index, i) ==
    /\ i \in 1 .. Len(Nodes(t)) /\ LengthUpTo(t, i) >= index
    /\ \A j \in 1 .. Len(Nodes(t)) : LengthUpTo(t, j) >= index => i <= j

LEMMA FindFacts ==
    ASSUME NEW t, NEW S, Founded(S), NEW K, Structure(Nodes(t), S, K),
           NEW index \in Nat, index <= Length(t)
    PROVE  \E i : /\ Finds(t, index, i)
                  /\ FindNodePos(t, index).createdAt = Of(Nodes(t), i)
                  /\ FindNodePos(t, index).offset = Start(Nodes(t), i)
                  /\ FindNodePos(t, index).rel = index - LengthUpTo(t, i - 1)
<1> DEFINE q == Nodes(t)
           B == {j \in 1 .. Len(q) : LengthUpTo(t, j) >= index}
           i == Min(B)
<1>1. PICK n \in Nat : n = Len(q) /\ n >= 1 /\ DOMAIN q = 1 .. n
    BY BlockFacts
<1>2. n \in B
    <2>1. LengthUpTo(t, n) = Length(t)
        BY <1>1 DEF Length, Nodes
    <2>2. n \in 0 .. Len(q) /\ q \in Seq(Block)
        BY <1>1 DEF Structure
    <2>3. LengthUpTo(t, n) \in Nat
        BY <2>2, LengthFacts
    <2>4. LengthUpTo(t, n) >= index
        BY <2>1, <2>3
    <2> QED BY <1>1, <2>4
<1>3. PICK m \in B : \A j \in B : m <= j
    <2>1. B \subseteq Nat /\ B # {}
        BY <1>1, <1>2
    <2> QED BY <2>1, LeastNatural
<1>4. i = CHOOSE x \in B : \A y \in B : x <= y
    BY DEF Min
<1> HIDE DEF B, i
<1>5. i \in B /\ \A j \in B : i <= j
    BY <1>3, <1>4
<1>6. Finds(t, index, i)
    BY <1>5 DEF Finds, B
<1>7. FindNodePos(t, index) = Pos(q[i], index - LengthUpTo(t, i - 1))
    BY <1>1 DEF FindNodePos, Nodes, B, i
<1>8. /\ FindNodePos(t, index).createdAt = Of(q, i)
      /\ FindNodePos(t, index).offset = Start(q, i)
      /\ FindNodePos(t, index).rel = index - LengthUpTo(t, i - 1)
    BY <1>7 DEF Pos, Of, Start
<1> QED BY <1>6, <1>8

\* So the position is a place of the text, in the block that was found.
LEMMA FindCovers ==
    ASSUME NEW t, NEW S, Founded(S), NEW K, Structure(Nodes(t), S, K),
           NEW index \in Nat, index <= Length(t), NEW i, Finds(t, index, i)
    PROVE  LET pos == FindNodePos(t, index)
           IN  /\ pos \in Position
               /\ Offset(pos) = Start(Nodes(t), i) + (index - LengthUpTo(t, i - 1))
               /\ Covers(Nodes(t), i, pos.createdAt, Offset(pos))
               /\ Place(S, pos.createdAt, Offset(pos))
<1> DEFINE q == Nodes(t)
           pos == FindNodePos(t, index)
           a == LengthUpTo(t, i - 1)
           b == LengthUpTo(t, i)
           o == Start(q, i)
           w == Shown(q, i)
<1>1. PICK j : /\ Finds(t, index, j) /\ pos.createdAt = Of(q, j) /\ pos.offset = Start(q, j)
               /\ pos.rel = index - LengthUpTo(t, j - 1)
    BY FindFacts
<1>2. i = j
    <2>1. i \in Nat /\ j \in Nat /\ i <= j /\ j <= i
        BY <1>1, BlockFacts DEF Finds
    <2> QED BY <2>1
<1>3. i \in 1 .. Len(q) /\ index <= b
    <2>1. i \in 1 .. Len(q) /\ b >= index
        BY DEF Finds
    <2>2. i \in 0 .. Len(q) /\ q \in Seq(Block)
        BY <2>1, BlockFacts DEF Structure
    <2>3. b \in Nat
        BY <2>2, LengthFacts
    <2> HIDE DEF b
    <2> QED BY <2>1, <2>3
<1>4. /\ o \in Nat /\ Of(q, i) \in Nat /\ End(q, i) \in Nat
      /\ (Of(q, i) = 0 <=> i = 1) /\ (i = 1 => o = 0 /\ End(q, i) = 0)
    BY <1>3, BlockFacts
<1>5. w \in Nat /\ o + w <= End(q, i)
    BY <1>3, ShownFacts DEF Structure
<1>6. b = a + w /\ a \in Nat
    <2>1. i \in Nat /\ i # 0 /\ i - 1 \in 0 .. Len(q) /\ q \in Seq(Block)
        BY <1>3, BlockFacts DEF Structure
    <2>2. a \in Nat
        BY <2>1, LengthFacts
    <2>3. b = a + w
        BY <2>1, LengthStep
    <2> QED BY <2>2, <2>3
<1>7. i = 1 => a = 0
    BY LengthStep
<1>8. i # 1 => a < index
    <2> SUFFICES ASSUME i # 1 PROVE a < index
        OBVIOUS
    <2>1. i - 1 \in 1 .. Len(q) /\ ~(i <= i - 1)
        BY <1>3, BlockFacts
    <2>2. ~(a >= index)
        BY <2>1 DEF Finds
    <2> HIDE DEF a
    <2> QED BY <1>6, <2>2
<1>9. pos.createdAt = Of(q, i) /\ pos.offset = o /\ pos.rel = index - a
    BY <1>1, <1>2
<1>10. pos = [createdAt |-> pos.createdAt, offset |-> pos.offset, rel |-> pos.rel]
    BY DEF FindNodePos, Pos
<1> HIDE DEF pos, a, b, o, w, q
<1>11. index - a \in Nat /\ o + (index - a) <= End(q, i) /\ (i # 1 => index - a > 0)
       /\ (i = 1 => index - a = 0)
    BY <1>3, <1>4, <1>5, <1>6, <1>7, <1>8
<1>12. pos \in Position
    BY <1>4, <1>9, <1>10, <1>11 DEF Position
<1>13. Offset(pos) = o + (index - a)
    BY <1>9 DEF Offset
<1>14. Covers(q, i, pos.createdAt, Offset(pos))
    <2>1. i # 1 => o < o + (index - a)
        BY <1>4, <1>11
    <2> QED BY <1>4, <1>9, <1>11, <1>13, <2>1 DEF Covers, o
<1>15. Offset(pos) \in Nat
    BY <1>4, <1>11, <1>13
<1>16. Place(S, pos.createdAt, Offset(pos))
    BY <1>3, <1>14, <1>15, CoverFacts DEF q
<1> QED BY <1>12, <1>13, <1>14, <1>16 DEF pos, a, o, q

\* The positions of two indexes are in their order.
LEMMA FindOrder ==
    ASSUME NEW t, NEW S, Founded(S), NEW K, Structure(Nodes(t), S, K),
           NEW x \in Nat, NEW y \in Nat, x <= y, y <= Length(t)
    PROVE  LET from == FindNodePos(t, x)
               to == FindNodePos(t, y)
           IN  ~Ahead(Nodes(t), to.createdAt, Offset(to), from.createdAt, Offset(from))
<1> DEFINE q == Nodes(t)
           from == FindNodePos(t, x)
           to == FindNodePos(t, y)
           c == from.createdAt
           k == Offset(from)
           d == to.createdAt
           l == Offset(to)
<1>1. Length(t) \in Nat
    <2>1. Len(q) \in 0 .. Len(q) /\ q \in Seq(Block)
        BY BlockFacts DEF Structure
    <2> QED BY <2>1, LengthFacts DEF Length, Nodes
<1>2. x <= Length(t)
    BY <1>1
<1>3. PICK i : Finds(t, x, i)
    BY <1>2, FindFacts
<1>4. PICK j : Finds(t, y, j)
    BY FindFacts
<1>5. /\ from \in Position /\ k = Start(q, i) + (x - LengthUpTo(t, i - 1))
      /\ Covers(q, i, c, k) /\ Place(S, c, k)
    BY <1>2, <1>3, FindCovers
<1>6. /\ to \in Position /\ l = Start(q, j) + (y - LengthUpTo(t, j - 1))
      /\ Covers(q, j, d, l) /\ Place(S, d, l)
    BY <1>4, FindCovers
<1>7. i \in 1 .. Len(q) /\ j \in 1 .. Len(q)
    BY <1>3, <1>4 DEF Finds
<1>8. LengthUpTo(t, j) \in Nat /\ LengthUpTo(t, i - 1) \in Nat
    <2>1. j \in 0 .. Len(q) /\ i - 1 \in 0 .. Len(q) /\ q \in Seq(Block)
        BY <1>7, BlockFacts DEF Structure
    <2>2. LengthUpTo(t, j) \in Nat
        BY <2>1, LengthFacts
    <2>3. LengthUpTo(t, i - 1) \in Nat
        BY <2>1, LengthFacts
    <2> QED BY <2>2, <2>3
<1>9. i <= j
    <2>1. LengthUpTo(t, j) >= x
        BY <1>4, <1>8 DEF Finds
    <2> QED BY <1>3, <1>7, <2>1 DEF Finds
<1>10. k \in Nat /\ l \in Nat
    BY <1>5, <1>6 DEF Place
<1>11. Start(q, i) \in Nat /\ i \in Nat /\ j \in Nat
    BY <1>7, BlockFacts
<1> HIDE DEF q, c, k, d, l
<1>12. i = Spot(q, c, k)
    BY <1>5, <1>7, <1>10, SpotIs DEF q
<1>13. j = Spot(q, d, l)
    BY <1>6, <1>7, <1>10, SpotIs DEF q
<1>14. CASE c # d
    BY <1>9, <1>11, <1>12, <1>13, <1>14 DEF Ahead, q, c, k, d, l
<1>15. CASE c = d
    <2>1. CASE i = j
        <3> DEFINE a == LengthUpTo(t, i - 1)
                   o == Start(q, i)
        <3>1. k = o + (x - a) /\ l = o + (y - a)
            BY <1>5, <1>6, <2>1
        <3>2. a \in Nat /\ o \in Nat
            BY <1>8, <1>11
        <3> HIDE DEF a, o
        <3>3. ~(l < k)
            BY <3>1, <3>2
        <3> QED BY <1>15, <3>3 DEF Ahead, q, c, k, d, l
    <2>2. CASE i # j
        <3>1. i < j
            BY <1>9, <1>11, <2>2
        <3>2. k < l
            BY <1>5, <1>6, <1>7, <1>10, <1>15, <3>1, CoverOrder DEF q
        <3>3. ~(l < k)
            BY <1>10, <3>2
        <3> QED BY <1>15, <3>3 DEF Ahead, q, c, k, d, l
    <2> QED BY <2>1, <2>2
<1> QED BY <1>14, <1>15

\* And so are the blocks of two places.
LEMMA NotAhead ==
    ASSUME NEW S, Founded(S), NEW K, NEW q, Structure(q, S, K),
           NEW c, NEW k, Place(S, c, k), NEW d, NEW l, Place(S, d, l), ~Ahead(q, d, l, c, k)
    PROVE  Spot(q, c, k) <= Spot(q, d, l)
<1> DEFINE x == Spot(q, c, k)
           y == Spot(q, d, l)
<1>1. x \in 1 .. Len(q) /\ Covers(q, x, c, k) /\ k \in Nat
    BY SpotFacts
<1>2. y \in 1 .. Len(q) /\ Covers(q, y, d, l) /\ l \in Nat
    BY SpotFacts
<1>3. x \in Nat /\ y \in Nat
    BY <1>1, <1>2, BlockFacts
<1>4. CASE c # d
    <2>1. ~(y < x)
        BY <1>4 DEF Ahead
    <2> HIDE DEF x, y
    <2>2. x <= y
        BY <1>3, <2>1
    <2> QED BY <2>2 DEF x, y
<1>5. CASE c = d
    <2>1. ~(l < k)
        BY <1>5 DEF Ahead
    <2>2. k <= l
        BY <1>1, <1>2, <2>1
    <2> HIDE DEF x, y
    <2>3. x <= y
        BY <1>1, <1>2, <1>5, <2>2, CoverOrder
    <2> QED BY <2>3 DEF x, y
<1> QED BY <1>4, <1>5

-----------------------------------------------------------------------------
(***************************************************************************)
(* What the author of a change saw                                         *)
(***************************************************************************)

\* A ticket tells its actor.

LEMMA ActorIs ==
    ASSUME NEW l \in Nat, NEW c \in Clients
    PROVE  ActorOf(TicketOf(l, c)) = c
<1>1. PICK m \in Nat : m = N + 1 /\ m > 0 /\ c \in Nat /\ c < m
    BY NAssumption DEF Clients
<1>2. PICK x \in Nat : x = l * m + c
    <2>1. l * m \in Nat
        BY <1>1
    <2>2. l * m + c \in Nat
        BY <1>1, <2>1
    <2> QED BY <2>2
<1>3. PICK r \in Nat : r = x % m /\ r < m
    BY <1>1, <1>2
<1>4. PICK b \in Int : b = x \div m
    BY <1>1, <1>2
<1>5. x = (b * m) + r
    <2>1. x = ((x \div m) * m) + (x % m)
        BY <1>1
    <2> QED BY <1>3, <1>4, <2>1
<1>6. ASSUME NEW i \in Int, NEW j \in Int, NEW u \in Nat, NEW v \in Nat, u < m, v < m, i < j
      PROVE  (i * m) + u # (j * m) + v
    <2> DEFINE d == j - i - 1
    <2>1. d \in Nat /\ j = i + 1 + d
        BY <1>6
    <2> HIDE DEF d
    <2>2. j * m = (i * m) + m + (d * m)
        BY <1>1, <2>1
    <2> DEFINE p == i * m
               s == d * m
    <2>3. p \in Int /\ s \in Nat
        BY <1>1, <2>1
    <2>4. j * m = p + m + s
        BY <2>2
    <2> HIDE DEF p, s
    <2>5. p + u # p + m + s + v
        BY <1>1, <1>6, <2>3
    <2> QED BY <2>4, <2>5 DEF p
<1>7. b = l
    <2>1. (b * m) + r = (l * m) + c
        BY <1>2, <1>5
    <2>2. ~(b < l)
        BY <1>1, <1>3, <1>6, <2>1
    <2>3. ~(l < b)
        BY <1>1, <1>3, <1>6, <2>1
    <2> QED BY <2>2, <2>3
<1>8. r = c
    <2> DEFINE p == l * m
    <2>1. p \in Int /\ p + r = p + c
        BY <1>1, <1>2, <1>5, <1>7
    <2> HIDE DEF p
    <2> QED BY <1>1, <2>1
<1> QED BY <1>1, <1>2, <1>3, <1>8 DEF ActorOf, TicketOf

\* A bounded set of naturals has a maximum.
LEMMA MaxFacts ==
    ASSUME NEW T, T \subseteq Nat, T # {}, NEW b \in Nat, \A n \in T : n <= b
    PROVE  Max(T) \in T /\ \A n \in T : n <= Max(T)
<1> DEFINE D == {b - n : n \in T}
<1>1. D \subseteq Nat /\ D # {}
    <2>1. \A n \in T : b - n \in Nat
        OBVIOUS
    <2>2. PICK n \in T : TRUE
        OBVIOUS
    <2> QED BY <2>1, <2>2
<1>2. PICK d \in D : \A m \in D : d <= m
    <2> HIDE DEF D
    <2> QED BY <1>1, LeastNatural
<1>3. PICK x \in T : d = b - x
    BY <1>2
<1>4. \A n \in T : x >= n
    <2> TAKE n \in T
    <2>1. b - x <= b - n
        BY <1>2, <1>3
    <2> QED BY <2>1
<1>5. Max(T) \in T /\ \A n \in T : Max(T) >= n
    BY <1>4 DEF Max
<1> QED BY <1>5

\* The characters of a block are before the places it covers.
LEMMA CharOf ==
    ASSUME NEW q \in Seq(Block), NEW y \in 1 .. Len(q), NEW x, x \in CharsAt(q, y)
    PROVE  \E o \in Nat : x = <<Of(q, y), o>> /\ Covers(q, y, Of(q, y), o + 1)
<1> DEFINE s == q[y].offset
           l == q[y].len
<1>1. s \in Nat /\ l \in Nat
    <2>1. q[y] \in Block
        OBVIOUS
    <2> QED BY <2>1 DEF Block
<1>2. x \in {q[y].createdAt} \X (s .. (s + l - 1))
    BY DEF CharsAt, Chars
<1> HIDE DEF s, l
<1>3. PICK o \in s .. (s + l - 1) : x = <<q[y].createdAt, o>>
    BY <1>2
<1>4. o \in Nat /\ s < o + 1 /\ o + 1 <= s + l
    BY <1>1, <1>3
<1>5. x = <<Of(q, y), o>>
    BY <1>3 DEF Of
<1>6. Covers(q, y, Of(q, y), o + 1)
    BY <1>4 DEF Covers, Start, End, s, l
<1> QED BY <1>4, <1>5, <1>6

LEMMA CharIn ==
    ASSUME NEW q \in Seq(Block), NEW y \in 1 .. Len(q), NEW c, NEW o \in Nat, c # 0,
           Covers(q, y, c, o + 1)
    PROVE  <<c, o>> \in CharsAt(q, y)
<1> DEFINE s == q[y].offset
           l == q[y].len
<1>1. s \in Nat /\ l \in Nat
    <2>1. q[y] \in Block
        OBVIOUS
    <2> QED BY <2>1 DEF Block
<1>2. q[y].createdAt = c /\ o + 1 <= s + l /\ s < o + 1
    BY DEF Covers, Of, Start, End
<1> HIDE DEF s, l
<1>3. o \in s .. (s + l - 1)
    BY <1>1, <1>2
<1>4. CharsAt(q, y) = {q[y].createdAt} \X (s .. (s + l - 1))
    BY DEF CharsAt, Chars, s, l
<1> QED BY <1>2, <1>3, <1>4

\* The blocks a selection is made of, and what that says of a place in one.
PlacesAt(op, S) ==
    \A pos \in {op.from, op.to} : Place(S, pos.createdAt, Offset(pos))
CutsAt(op) == {<<pos.createdAt, Offset(pos)>> : pos \in {op.from, op.to}}
Selects(q, op, y) ==
    /\ Spot(q, op.from.createdAt, Offset(op.from)) < y
    /\ y <= Spot(q, op.to.createdAt, Offset(op.to))

LEMMA SelectsPlace ==
    ASSUME NEW S, Founded(S), NEW K, NEW q, Structure(q, S, K),
           NEW op, PlacesAt(op, S), CutsAt(op) \subseteq K,
           NEW y \in 1 .. Len(q), NEW c, NEW k \in Nat, Covers(q, y, c, k)
    PROVE  Selects(q, op, y) <=>
              /\ Ahead(q, op.from.createdAt, Offset(op.from), c, k)
              /\ ~Ahead(q, op.to.createdAt, Offset(op.to), c, k)
<1>1. /\ Place(S, op.from.createdAt, Offset(op.from))
      /\ Place(S, op.to.createdAt, Offset(op.to))
    BY DEF PlacesAt
<1>2. /\ <<op.from.createdAt, Offset(op.from)>> \in K
      /\ <<op.to.createdAt, Offset(op.to)>> \in K
    BY DEF CutsAt
<1>3. End(q, Spot(q, op.from.createdAt, Offset(op.from))) = Offset(op.from)
    BY <1>1, <1>2, SpotEnds
<1>4. End(q, Spot(q, op.to.createdAt, Offset(op.to))) = Offset(op.to)
    BY <1>1, <1>2, SpotEnds
<1>5. Spot(q, op.from.createdAt, Offset(op.from)) < y
        <=> Ahead(q, op.from.createdAt, Offset(op.from), c, k)
    BY <1>1, <1>3, AheadBlock
<1>6. Spot(q, op.to.createdAt, Offset(op.to)) < y
        <=> Ahead(q, op.to.createdAt, Offset(op.to), c, k)
    BY <1>1, <1>4, AheadBlock
<1>7. Spot(q, op.to.createdAt, Offset(op.to)) \in 1 .. Len(q)
    BY <1>1, SpotFacts
<1>8. Len(q) \in Nat
    BY BlockFacts
<1> DEFINE t == Spot(q, op.to.createdAt, Offset(op.to))
<1>9. y <= t <=> ~(t < y)
    <2>1. t \in Nat /\ y \in Nat
        BY <1>7, <1>8
    <2> HIDE DEF t
    <2> QED BY <2>1
<1> HIDE DEF t
<1>10. Selects(q, op, y) <=> Spot(q, op.from.createdAt, Offset(op.from)) < y /\ ~(t < y)
    BY <1>9 DEF Selects, t
<1> QED BY <1>5, <1>6, <1>10 DEF t

\* What was selected by one who had fewer insertions is between the same blocks.
LEMMA SelectsSame ==
    ASSUME NEW S, Founded(S), NEW K, NEW q, Structure(q, S, K),
           NEW T, Founded(T), NEW M, NEW r, Structure(r, T, M), S \subseteq T,
           NEW op, PlacesAt(op, S), CutsAt(op) \subseteq K, CutsAt(op) \subseteq M,
           NEW y \in 1 .. Len(q), NEW z \in 1 .. Len(r), NEW c, NEW k \in Nat,
           Covers(q, y, c, k), Covers(r, z, c, k)
    PROVE  Selects(q, op, y) <=> Selects(r, op, z)
<1>1. Place(S, c, k)
    BY CoverFacts
<1>2. PlacesAt(op, T)
    BY PlacesStay DEF PlacesAt
<1>3. /\ Place(S, op.from.createdAt, Offset(op.from))
      /\ Place(S, op.to.createdAt, Offset(op.to))
    BY DEF PlacesAt
<1>4. Ahead(q, op.from.createdAt, Offset(op.from), c, k)
        <=> Ahead(r, op.from.createdAt, Offset(op.from), c, k)
    BY <1>1, <1>3, OrderTransfer
<1>5. Ahead(q, op.to.createdAt, Offset(op.to), c, k)
        <=> Ahead(r, op.to.createdAt, Offset(op.to), c, k)
    BY <1>1, <1>3, OrderTransfer
<1>6. Selects(q, op, y) <=>
              /\ Ahead(q, op.from.createdAt, Offset(op.from), c, k)
              /\ ~Ahead(q, op.to.createdAt, Offset(op.to), c, k)
    BY SelectsPlace
<1>7. Selects(r, op, z) <=>
              /\ Ahead(r, op.from.createdAt, Offset(op.from), c, k)
              /\ ~Ahead(r, op.to.createdAt, Offset(op.to), c, k)
    BY <1>2, SelectsPlace
<1> QED BY <1>4, <1>5, <1>6, <1>7

\* The end of a selection is not ahead of its beginning.
Older(op, at) == \A pos \in {op.from, op.to} : pos.createdAt < at
Forward(q, op) ==
    ~Ahead(q, op.to.createdAt, Offset(op.to), op.from.createdAt, Offset(op.from))

LEMMA SelectsBetween ==
    ASSUME NEW t, NEW S, Founded(S), NEW K, Structure(Nodes(t), S, K),
           NEW op, NEW at \in Nat, PlacesAt(op, S), Older(op, at), Forward(Nodes(t), op),
           NEW y \in 1 .. Len(Nodes(t)), Of(Nodes(t), y) < at
    PROVE  y \in Between(t, op.from, op.to, at) <=> Selects(Nodes(t), op, y)
<1>1. /\ Place(S, op.from.createdAt, Offset(op.from)) /\ op.from.createdAt < at
      /\ Place(S, op.to.createdAt, Offset(op.to)) /\ op.to.createdAt < at
    BY DEF PlacesAt, Older
<1>2. Spot(Nodes(t), op.from.createdAt, Offset(op.from))
        <= Spot(Nodes(t), op.to.createdAt, Offset(op.to))
    BY <1>1, NotAhead DEF Forward
<1> QED BY <1>1, <1>2, BetweenOlder DEF Selects

\* What is forward for the author is forward for all who have the places.
LEMMA ForwardSame ==
    ASSUME NEW S, Founded(S), NEW K, NEW q, Structure(q, S, K),
           NEW T, Founded(T), NEW M, NEW r, Structure(r, T, M), S \subseteq T,
           NEW op, PlacesAt(op, S), Forward(q, op)
    PROVE  Forward(r, op)
<1>1. /\ Place(S, op.from.createdAt, Offset(op.from))
      /\ Place(S, op.to.createdAt, Offset(op.to))
    BY DEF PlacesAt
<1> QED BY <1>1, OrderTransfer DEF Forward

\* What the author of a change saw: the blocks q of the changes R, cut at the ends of
\* the selection; which blocks an edit removes or a style sets.
Authored(e, R, q, K) ==
    /\ Founded(R) /\ Structure(q, R, K) /\ Struck(q, R)
    /\ e.op.from \in Position /\ e.op.to \in Position
    /\ At(e) \in Nat /\ LastLine < At(e) /\ \A f \in R : At(f) < At(e)
    /\ PlacesAt(e.op, R) /\ CutsAt(e.op) \subseteq K
    /\ Older(e.op, At(e)) /\ Forward(q, e.op)
SelectedDeleted(e, q) ==
    \A y \in 1 .. Len(q) :
        Selects(q, e.op, y) /\ Of(q, y) <= MaxTicket /\ RemovedAt(q, y) = Nil
        => CharsAt(q, y) \subseteq e.op.deleted
LatestSeen(e, q) ==
    \A c \in Clients :
        \/ e.op.latest[c] = 0
        \/ /\ e.op.latest[c] <= MaxTicket /\ ActorOf(e.op.latest[c]) = c
           /\ \E z \in 1 .. Len(q) : Of(q, z) = e.op.latest[c]
SelectedStyled(e, q) ==
    \A x : x \in e.op.styled <=>
        \E y \in 1 .. Len(q) : Selects(q, e.op, y) /\ x \in CharsAt(q, y)
SeenThere(e, R) == \A c \in e.op.seen : \E n : Insertion(R, c, n)

\* Everything an author had is older than the change.
LEMMA InsertionOlder ==
    ASSUME NEW S, NEW at \in Nat, LastLine < at, \A f \in S : At(f) < at,
           NEW c, NEW n, Insertion(S, c, n)
    PROVE  c < at
<1>1. 0 < at
    BY LastLineIs
<1> QED BY <1>1 DEF Insertion, Inserting

LEMMA BlockOlder ==
    ASSUME NEW S, Founded(S), NEW K, NEW q, Structure(q, S, K),
           NEW at \in Nat, LastLine < at, \A f \in S : At(f) < at, NEW y \in 1 .. Len(q)
    PROVE  Of(q, y) < at
<1>1. Place(S, Of(q, y), End(q, y))
    BY BlockFacts
<1> QED BY <1>1, InsertionOlder DEF Place

\* The positions an application finds for its indices, and the text cut at them.
LEMMA SelectionFacts ==
    ASSUME NEW t \in Text, NEW S, Founded(S), NEW K, Structure(Nodes(t), S, K),
           NEW x \in Nat, NEW y \in Nat, x <= y, y <= Length(t),
           NEW op, op.from = FindNodePos(t, x), op.to = FindNodePos(t, y)
    PROVE  /\ op.from \in Position /\ op.to \in Position /\ PlacesAt(op, S)
           /\ SplitForEdit(t, op.from, op.to) \in Text
           /\ Structure(Nodes(SplitForEdit(t, op.from, op.to)), S, K \cup CutsAt(op))
           /\ Parts(Nodes(t), Nodes(SplitForEdit(t, op.from, op.to)))
           /\ Forward(Nodes(SplitForEdit(t, op.from, op.to)), op)
<1>1. x <= Length(t)
    <2>1. Length(t) \in Nat
        <3>1. Nodes(t) \in Seq(Block) /\ Len(Nodes(t)) \in Nat
            BY BlockFacts DEF Structure
        <3>2. LengthUpTo(t, Len(Nodes(t))) \in Nat
            BY <3>1, LengthFacts
        <3> QED BY <3>2 DEF Length, Nodes
    <2> HIDE DEF Length
    <2> QED BY <2>1
<1>2. ASSUME NEW z \in Nat, z <= Length(t)
      PROVE  LET pos == FindNodePos(t, z)
             IN  pos \in Position /\ Place(S, pos.createdAt, Offset(pos))
    <2>1. PICK i : Finds(t, z, i)
        BY <1>2, FindFacts
    <2> QED BY <1>2, <2>1, FindCovers
<1>3. op.from \in Position /\ Place(S, op.from.createdAt, Offset(op.from))
    BY <1>1, <1>2
<1>4. op.to \in Position /\ Place(S, op.to.createdAt, Offset(op.to))
    BY <1>2
<1>5. PlacesAt(op, S)
    BY <1>3, <1>4 DEF PlacesAt
<1>6. CutsAt(op) = {<<op.from.createdAt, Offset(op.from)>>, <<op.to.createdAt, Offset(op.to)>>}
    BY DEF CutsAt
<1>7. /\ SplitForEdit(t, op.from, op.to) \in Text
      /\ Structure(Nodes(SplitForEdit(t, op.from, op.to)), S, K \cup CutsAt(op))
      /\ Parts(Nodes(t), Nodes(SplitForEdit(t, op.from, op.to)))
    BY <1>3, <1>4, <1>6, SplitForEditKeeps
<1>8. Forward(Nodes(t), op)
    BY FindOrder DEF Forward
<1>9. Forward(Nodes(SplitForEdit(t, op.from, op.to)), op)
    BY <1>5, <1>7, <1>8, ForwardSame
<1> QED BY <1>3, <1>4, <1>5, <1>7, <1>9

\* Every insertion but the initial head has an actor.
LEMMA InsertionActor ==
    ASSUME NEW S, S \subseteq Change, NEW c, NEW n, Insertion(S, c, n), c # 0
    PROVE  \E l \in Nat, a \in Clients : c = TicketOf(l, a) /\ ActorOf(c) = a
<1>1. CASE c = LastLine
    <2>1. 1 \in Clients
        BY NAssumption DEF Clients
    <2>2. ActorOf(TicketOf(0, 1)) = 1
        BY <2>1, ActorIs
    <2> QED BY <1>1, <2>1, <2>2 DEF LastLine
<1>2. ASSUME NEW e \in Inserting(S), c = At(e)
      PROVE  \E l \in Nat, a \in Clients : c = TicketOf(l, a) /\ ActorOf(c) = a
    <2>1. e \in Change
        BY DEF Inserting
    <2>2. e.lamport \in Nat /\ e.actor \in Clients
        BY <2>1 DEF Change
    <2>3. ActorOf(TicketOf(e.lamport, e.actor)) = e.actor
        BY <2>2, ActorIs
    <2> QED BY <1>2, <2>2, <2>3 DEF At
<1> QED BY <1>1, <1>2 DEF Insertion

\* The latest creation an edit removes, of an actor.
LEMMA LatestFacts ==
    ASSUME NEW t, NEW places, NEW b \in Nat,
           \A i \in places : Of(Nodes(t), i) \in Nat /\ Of(Nodes(t), i) <= b,
           NEW c \in Clients
    PROVE  LET l == LatestCreatedAt(t, places)[c]
           IN  /\ l \in Nat
               /\ l = 0 \/ /\ l <= b /\ ActorOf(l) = c
                           /\ \E z \in places : Of(Nodes(t), z) = l
<1> DEFINE T == {InitialTicket} \cup
                {t.nodes[i].createdAt : i \in {j \in places : ActorOf(t.nodes[j].createdAt) = c}}
<1>1. LatestCreatedAt(t, places)[c] = Max(T)
    BY DEF LatestCreatedAt
<1>2. \A i \in places : t.nodes[i].createdAt = Of(Nodes(t), i)
    BY DEF Of, Nodes
<1>3. \A l \in T :
        l = 0 \/ /\ l \in Nat /\ l <= b /\ ActorOf(l) = c
                 /\ \E z \in places : Of(Nodes(t), z) = l
    BY <1>2 DEF InitialTicket
<1>4. 0 \in T
    BY DEF InitialTicket
<1> HIDE DEF T
<1>5. T \subseteq Nat /\ T # {} /\ \A l \in T : l <= b
    BY <1>3, <1>4
<1>6. Max(T) \in T
    BY <1>5, MaxFacts
<1> QED BY <1>1, <1>3, <1>5, <1>6

\* The parts of an edit.
EditParts(op, t, at) ==
    LET s == SplitForEdit(t, op.from, op.to)
        places == Deleted(s, op.from, op.to, NoMap, at)
    IN  /\ op.latest = LatestCreatedAt(s, places)
        /\ op.deleted = UNION {Chars(s.nodes[i]) :
                                    i \in {j \in places : s.nodes[j].removedAt = Nil}}
Selection(op, t) ==
    \E x, y \in Nat : /\ x <= y /\ y <= Length(t)
                      /\ op.from = FindNodePos(t, x) /\ op.to = FindNodePos(t, y)

LEMMA RichEditFacts ==
    ASSUME NEW t, Length(t) \in Nat, NEW at, NEW op, op \in RichEdits(t, at)
    PROVE  /\ op = [type |-> "edit", from |-> op.from, to |-> op.to, len |-> op.len,
                    latest |-> op.latest, deleted |-> op.deleted, attributed |-> op.attributed]
           /\ op.len \in Nat /\ op.attributed \in BOOLEAN
           /\ Selection(op, t) /\ EditParts(op, t, at)
<1>1. PICK g \in TextEdits(t, at, Length(t) - 1), b \in Attributed :
        op = [type |-> "edit", from |-> g.from, to |-> g.to, len |-> g.len,
              latest |-> g.latest, deleted |-> g.deleted, attributed |-> b]
    BY DEF RichEdits
<1>2. PICK f \in (0 .. (Length(t) - 1)) \X (0 .. (Length(t) - 1)) \X Contents :
        /\ g = TextEdit(t, at, f[1], f[2], f[3])
        /\ f[1] < f[2] \/ f[1] = f[2]
    BY <1>1 DEF TextEdits
<1> DEFINE x == f[1]
           y == f[2]
           n == f[3]
           l == Length(t)
<1>3. x \in 0 .. (l - 1) /\ y \in 0 .. (l - 1) /\ n \in Contents /\ (x < y \/ x = y)
    BY <1>2
<1>4. g = TextEdit(t, at, x, y, n)
    BY <1>2
<1> HIDE DEF x, y, n
<1>5. /\ op.from = FindNodePos(t, x) /\ op.to = FindNodePos(t, y) /\ op.len = n
      /\ op.attributed = b /\ op.latest = g.latest /\ op.deleted = g.deleted
    BY <1>1, <1>4 DEF TextEdit
<1>6. x \in Nat /\ y \in Nat /\ x <= y /\ y <= l /\ l \in Nat
    <2> HIDE DEF l
    <2>1. l \in Nat
        BY DEF l
    <2> QED BY <1>3, <2>1
<1>7. Selection(op, t)
    BY <1>5, <1>6 DEF Selection
<1>8. EditParts(op, t, at)
    BY <1>4, <1>5 DEF EditParts, TextEdit
<1>9. op.len \in Nat /\ op.attributed \in BOOLEAN
    BY <1>1, <1>3, <1>5, ContentsAssumption, AttributedAssumption
<1>10. op = [type |-> "edit", from |-> op.from, to |-> op.to, len |-> op.len,
             latest |-> op.latest, deleted |-> op.deleted, attributed |-> op.attributed]
    BY <1>1
<1> QED BY <1>7, <1>8, <1>9, <1>10

\* The parts of a style.
StyleParts(op, t, at) ==
    LET s == SplitForEdit(t, op.from, op.to)
    IN  /\ op.styled = UNION {Chars(s.nodes[i]) : i \in Between(s, op.from, op.to, at)}
        /\ op.seen = {t.nodes[i].createdAt : i \in DOMAIN t.nodes}

LEMMA StyleFacts ==
    ASSUME NEW t, Length(t) \in Nat, NEW at, NEW op, op \in Styles(t, at)
    PROVE  /\ op = [type |-> "style", from |-> op.from, to |-> op.to,
                    styled |-> op.styled, seen |-> op.seen]
           /\ Selection(op, t) /\ StyleParts(op, t, at)
<1>1. PICK f \in (0 .. (Length(t) - 1)) \X (0 .. (Length(t) - 1)) :
        op = Style(t, at, f[1], f[2]) /\ f[1] < f[2]
    BY DEF Styles
<1> DEFINE x == f[1]
           y == f[2]
           l == Length(t)
<1>3. x \in 0 .. (l - 1) /\ y \in 0 .. (l - 1) /\ x < y
    BY <1>1
<1>4. op = Style(t, at, x, y)
    BY <1>1
<1> HIDE DEF x, y
<1>5. op.from = FindNodePos(t, x) /\ op.to = FindNodePos(t, y)
    BY <1>4 DEF Style
<1>6. x \in Nat /\ y \in Nat /\ x <= y /\ y <= l
    <2> HIDE DEF l
    <2>1. l \in Nat
        BY DEF l
    <2> QED BY <1>3, <2>1
<1>7. Selection(op, t)
    BY <1>5, <1>6 DEF Selection
<1>8. StyleParts(op, t, at)
    BY <1>4, <1>5 DEF StyleParts, Style
<1>9. op = [type |-> "style", from |-> op.from, to |-> op.to,
            styled |-> op.styled, seen |-> op.seen]
    BY <1>4 DEF Style
<1> QED BY <1>7, <1>8, <1>9

\* A selection is of places its author had.
LEMMA SelectionAuthored ==
    ASSUME NEW t \in Text, NEW S, Founded(S), NEW K, Structure(Nodes(t), S, K),
           Struck(Nodes(t), S), NEW e, At(e) \in Nat, LastLine < At(e), \A f \in S : At(f) < At(e),
           Selection(e.op, t)
    PROVE  /\ SplitForEdit(t, e.op.from, e.op.to) \in Text
           /\ Authored(e, S, Nodes(SplitForEdit(t, e.op.from, e.op.to)), K \cup CutsAt(e.op))
<1>1. PICK x \in Nat, y \in Nat :
        /\ x <= y /\ y <= Length(t)
        /\ e.op.from = FindNodePos(t, x) /\ e.op.to = FindNodePos(t, y)
    BY DEF Selection
<1> DEFINE s == SplitForEdit(t, e.op.from, e.op.to)
<1>2. /\ e.op.from \in Position /\ e.op.to \in Position /\ PlacesAt(e.op, S) /\ s \in Text
      /\ Structure(Nodes(s), S, K \cup CutsAt(e.op))
      /\ Parts(Nodes(t), Nodes(s)) /\ Forward(Nodes(s), e.op)
    BY <1>1, SelectionFacts
<1> HIDE DEF s
<1>3. Nodes(t) \in Seq(Block) /\ Nodes(s) \in Seq(Block)
    BY <1>2 DEF Structure
<1>4. Struck(Nodes(s), S)
    BY <1>2, <1>3, PartsKeep
<1>5. Older(e.op, At(e))
    BY <1>2, InsertionOlder DEF Older, PlacesAt, Place
<1> QED BY <1>2, <1>4, <1>5 DEF Authored, s

\* Only blocks with characters are between two places.
LEMMA BetweenBlocks ==
    ASSUME NEW t, NEW S, Founded(S), NEW K, Structure(Nodes(t), S, K), S \subseteq Change,
           NEW op, NEW at \in Nat, PlacesAt(op, S), NEW y \in Between(t, op.from, op.to, at)
    PROVE  /\ y \in 1 .. Len(Nodes(t)) /\ y # 1 /\ Of(Nodes(t), y) # 0
           /\ \E n : Insertion(S, Of(Nodes(t), y), n)
           /\ ActorOf(Of(Nodes(t), y)) \in Clients
<1>1. y \in 2 .. Len(Nodes(t))
    BY BetweenType DEF PlacesAt
<1>2. y \in 1 .. Len(Nodes(t)) /\ y # 1
    <2>1. Len(Nodes(t)) \in Nat
        BY BlockFacts
    <2> QED BY <1>1, <2>1
<1>3. Of(Nodes(t), y) # 0 /\ Place(S, Of(Nodes(t), y), End(Nodes(t), y))
    BY <1>2, BlockFacts
<1>4. PICK n : Insertion(S, Of(Nodes(t), y), n)
    BY <1>3 DEF Place
<1>5. ActorOf(Of(Nodes(t), y)) \in Clients
    BY <1>3, <1>4, InsertionActor
<1> QED BY <1>2, <1>3, <1>4, <1>5

\* What an author deletes locally.
LEMMA DeletedFacts ==
    ASSUME NEW t, NEW S, Founded(S), NEW K, Structure(Nodes(t), S, K), S \subseteq Change,
           NEW op, NEW at \in Nat, PlacesAt(op, S)
    PROVE  \A y : y \in Deleted(t, op.from, op.to, NoMap, at) <=>
                /\ y \in Between(t, op.from, op.to, at)
                /\ y \in 1 .. Len(Nodes(t)) /\ Of(Nodes(t), y) <= MaxTicket
                /\ RemovedAt(Nodes(t), y) = Nil \/ at > RemovedAt(Nodes(t), y)
<1> SUFFICES ASSUME NEW y
             PROVE  y \in Deleted(t, op.from, op.to, NoMap, at) <=>
                /\ y \in Between(t, op.from, op.to, at)
                /\ y \in 1 .. Len(Nodes(t)) /\ Of(Nodes(t), y) <= MaxTicket
                /\ RemovedAt(Nodes(t), y) = Nil \/ at > RemovedAt(Nodes(t), y)
    OBVIOUS
<1>1. y \in Deleted(t, op.from, op.to, NoMap, at) <=>
        y \in Between(t, op.from, op.to, at) /\ Removes(t.nodes[y], NoMap, at)
    BY DEF Deleted
<1>2. ASSUME y \in Between(t, op.from, op.to, at)
      PROVE  /\ y \in 1 .. Len(Nodes(t))
             /\ Removes(t.nodes[y], NoMap, at) <=>
                    /\ Of(Nodes(t), y) <= MaxTicket
                    /\ RemovedAt(Nodes(t), y) = Nil \/ at > RemovedAt(Nodes(t), y)
    <2>1. y \in 1 .. Len(Nodes(t)) /\ ActorOf(Of(Nodes(t), y)) \in Clients
        BY <1>2, BetweenBlocks
    <2>2. NoMap[ActorOf(Of(Nodes(t), y))] = MaxTicket
        BY <2>1 DEF NoMap
    <2> QED BY <2>1, <2>2 DEF Removes, Of, RemovedAt, Nodes
<1> QED BY <1>1, <1>2

\* An edit says what its author saw disappear.
LEMMA EditAuthored ==
    ASSUME NEW t \in Text, NEW S, S \subseteq Change, Founded(S), NEW K,
           Structure(Nodes(t), S, K), Struck(Nodes(t), S),
           NEW e, At(e) \in Nat, LastLine < At(e), \A f \in S : At(f) < At(e),
           e.op \in RichEdits(t, At(e))
    PROVE  LET q == Nodes(SplitForEdit(t, e.op.from, e.op.to))
           IN  /\ Authored(e, S, q, K \cup CutsAt(e.op))
               /\ e.op \in RichTextOperation /\ e.op.type = "edit"
               /\ SelectedDeleted(e, q) /\ LatestSeen(e, q)
<1> DEFINE s == SplitForEdit(t, e.op.from, e.op.to)
           q == Nodes(s)
           places == Deleted(s, e.op.from, e.op.to, NoMap, At(e))
           M == K \cup CutsAt(e.op)
<1>1. Length(t) \in Nat
    <2>1. Nodes(t) \in Seq(Block) /\ Len(Nodes(t)) \in Nat
        BY BlockFacts DEF Structure
    <2>2. LengthUpTo(t, Len(Nodes(t))) \in Nat
        BY <2>1, LengthFacts
    <2> QED BY <2>2 DEF Length, Nodes
<1>2. /\ e.op = [type |-> "edit", from |-> e.op.from, to |-> e.op.to, len |-> e.op.len,
                 latest |-> e.op.latest, deleted |-> e.op.deleted,
                 attributed |-> e.op.attributed]
      /\ e.op.len \in Nat /\ e.op.attributed \in BOOLEAN
      /\ Selection(e.op, t) /\ EditParts(e.op, t, At(e))
    BY <1>1, RichEditFacts
<1>3. s \in Text /\ Authored(e, S, q, M)
    BY <1>2, SelectionAuthored
<1>4. /\ e.op.latest = LatestCreatedAt(s, places)
      /\ e.op.deleted = UNION {CharsAt(q, i) : i \in {j \in places : RemovedAt(q, j) = Nil}}
    BY <1>2 DEF EditParts, CharsAt, RemovedAt, Nodes
<1> HIDE DEF s
<1>5. /\ Structure(q, S, M) /\ PlacesAt(e.op, S) /\ Older(e.op, At(e)) /\ Forward(q, e.op)
      /\ e.op.from \in Position /\ e.op.to \in Position
    BY <1>3 DEF Authored
<1>6. \A y : y \in places <=>
        /\ y \in Between(s, e.op.from, e.op.to, At(e))
        /\ y \in 1 .. Len(q) /\ Of(q, y) <= MaxTicket
        /\ RemovedAt(q, y) = Nil \/ At(e) > RemovedAt(q, y)
    BY <1>5, DeletedFacts
<1>7. \A y \in 1 .. Len(q) : Of(q, y) \in Nat /\ Of(q, y) < At(e)
    BY <1>5, BlockFacts, BlockOlder
<1> HIDE DEF places
<1>8. SelectedDeleted(e, q)
    <2> SUFFICES ASSUME NEW y \in 1 .. Len(q), Selects(q, e.op, y), Of(q, y) <= MaxTicket,
                        RemovedAt(q, y) = Nil
                 PROVE  CharsAt(q, y) \subseteq e.op.deleted
        BY DEF SelectedDeleted
    <2>1. y \in Between(s, e.op.from, e.op.to, At(e))
        BY <1>5, <1>7, SelectsBetween
    <2>2. y \in places
        BY <1>6, <2>1
    <2> QED BY <1>4, <2>2
<1>9. ASSUME NEW c \in Clients
      PROVE  /\ e.op.latest[c] \in Nat
             /\ \/ e.op.latest[c] = 0
                \/ /\ e.op.latest[c] <= MaxTicket /\ ActorOf(e.op.latest[c]) = c
                   /\ \E z \in 1 .. Len(q) : Of(q, z) = e.op.latest[c]
    <2>1. \A i \in places : Of(Nodes(s), i) \in Nat /\ Of(Nodes(s), i) <= MaxTicket
        BY <1>6, <1>7
    <2>2. LET l == LatestCreatedAt(s, places)[c]
          IN  /\ l \in Nat
              /\ l = 0 \/ /\ l <= MaxTicket /\ ActorOf(l) = c
                          /\ \E z \in places : Of(Nodes(s), z) = l
        BY <2>1, MaxTicketAssumption, LatestFacts
    <2>3. places \subseteq 1 .. Len(q)
        BY <1>6
    <2> QED BY <1>4, <2>2, <2>3
<1>10. LatestSeen(e, q)
    BY <1>9 DEF LatestSeen
<1>11. e.op \in RichTextOperation
    <2>1. e.op.latest \in [Clients -> Nat]
        <3>1. e.op.latest = [c \in Clients |-> e.op.latest[c]]
            BY <1>4 DEF LatestCreatedAt
        <3> QED BY <1>9, <3>1
    <2>2. e.op.deleted \subseteq Nat \X Nat
        <3> SUFFICES ASSUME NEW x, x \in e.op.deleted
                     PROVE  x \in Nat \X Nat
            OBVIOUS
        <3>1. PICK y \in places : x \in CharsAt(q, y)
            BY <1>4
        <3>2. y \in 1 .. Len(q) /\ q \in Seq(Block) /\ Of(q, y) \in Nat
            BY <1>5, <1>6, <1>7 DEF Structure
        <3>3. PICK o \in Nat : x = <<Of(q, y), o>>
            BY <3>1, <3>2, CharOf
        <3> QED BY <3>2, <3>3
    <2>3. e.op \in [type : {"edit"}, from : Position, to : Position, latest : [Clients -> Nat],
                    len : Nat, deleted : SUBSET (Nat \X Nat), attributed : BOOLEAN]
        BY <1>2, <1>5, <2>1, <2>2
    <2> QED BY <2>3 DEF RichTextOperation
<1>12. e.op.type = "edit"
    BY <1>2
<1> QED BY <1>3, <1>8, <1>10, <1>11, <1>12 DEF s

\* A style says what its author selected, and which insertions it had.
LEMMA StyleAuthored ==
    ASSUME NEW t \in Text, NEW S, S \subseteq Change, Founded(S), NEW K,
           Structure(Nodes(t), S, K), Struck(Nodes(t), S),
           NEW e, At(e) \in Nat, LastLine < At(e), \A f \in S : At(f) < At(e),
           e.op \in Styles(t, At(e))
    PROVE  LET q == Nodes(SplitForEdit(t, e.op.from, e.op.to))
           IN  /\ Authored(e, S, q, K \cup CutsAt(e.op))
               /\ e.op \in RichTextOperation /\ e.op.type = "style"
               /\ SelectedStyled(e, q) /\ SeenThere(e, S)
<1> DEFINE s == SplitForEdit(t, e.op.from, e.op.to)
           q == Nodes(s)
           M == K \cup CutsAt(e.op)
<1>1. Length(t) \in Nat
    <2>1. Nodes(t) \in Seq(Block) /\ Len(Nodes(t)) \in Nat
        BY BlockFacts DEF Structure
    <2>2. LengthUpTo(t, Len(Nodes(t))) \in Nat
        BY <2>1, LengthFacts
    <2> QED BY <2>2 DEF Length, Nodes
<1>2. /\ e.op = [type |-> "style", from |-> e.op.from, to |-> e.op.to,
                 styled |-> e.op.styled, seen |-> e.op.seen]
      /\ Selection(e.op, t) /\ StyleParts(e.op, t, At(e))
    BY <1>1, StyleFacts
<1>3. s \in Text /\ Authored(e, S, q, M)
    BY <1>2, SelectionAuthored
<1>4. /\ e.op.styled = UNION {CharsAt(q, i) : i \in Between(s, e.op.from, e.op.to, At(e))}
      /\ e.op.seen = {Of(Nodes(t), i) : i \in DOMAIN Nodes(t)}
    BY <1>2 DEF StyleParts, CharsAt, Of, Nodes
<1> HIDE DEF s
<1>5. /\ Structure(q, S, M) /\ PlacesAt(e.op, S) /\ Older(e.op, At(e)) /\ Forward(q, e.op)
      /\ e.op.from \in Position /\ e.op.to \in Position
    BY <1>3 DEF Authored
<1>6. \A y \in 1 .. Len(q) : Of(q, y) \in Nat /\ Of(q, y) < At(e)
    BY <1>5, BlockFacts, BlockOlder
<1>7. \A y \in 1 .. Len(q) :
        y \in Between(s, e.op.from, e.op.to, At(e)) <=> Selects(q, e.op, y)
    BY <1>5, <1>6, SelectsBetween
<1>8. \A y \in Between(s, e.op.from, e.op.to, At(e)) : y \in 1 .. Len(q)
    BY <1>5, BetweenBlocks
<1>9. SelectedStyled(e, q)
    BY <1>4, <1>7, <1>8 DEF SelectedStyled
<1>10. \A c \in e.op.seen : c \in Nat /\ \E n : Insertion(S, c, n)
    <2> SUFFICES ASSUME NEW i \in DOMAIN Nodes(t)
                 PROVE  Of(Nodes(t), i) \in Nat /\ \E n : Insertion(S, Of(Nodes(t), i), n)
        BY <1>4
    <2>1. i \in 1 .. Len(Nodes(t))
        BY BlockFacts
    <2> QED BY <2>1, BlockFacts DEF Place
<1>11. e.op \in RichTextOperation
    <2>1. e.op.styled \subseteq Nat \X Nat
        <3> SUFFICES ASSUME NEW x, x \in e.op.styled
                     PROVE  x \in Nat \X Nat
            OBVIOUS
        <3>1. PICK y \in Between(s, e.op.from, e.op.to, At(e)) : x \in CharsAt(q, y)
            BY <1>4
        <3>2. y \in 1 .. Len(q) /\ q \in Seq(Block) /\ Of(q, y) \in Nat
            BY <1>5, <1>6, <1>8 DEF Structure
        <3>3. PICK o \in Nat : x = <<Of(q, y), o>>
            BY <3>1, <3>2, CharOf
        <3> QED BY <3>2, <3>3
    <2>2. e.op \in [type : {"style"}, from : Position, to : Position,
                    styled : SUBSET (Nat \X Nat), seen : SUBSET Nat]
        BY <1>2, <1>5, <1>10, <2>1
    <2> QED BY <2>2 DEF RichTextOperation
<1>12. e.op.type = "style"
    BY <1>2
<1> QED BY <1>3, <1>9, <1>10, <1>11, <1>12 DEF s, SeenThere

\* The author of a change had its ground, and says what it saw.
Saw(e, R, q, K) ==
    /\ Authored(e, R, q, K) /\ e.op \in RichTextOperation
    /\ e.op.type = "edit" => SelectedDeleted(e, q) /\ LatestSeen(e, q)
    /\ e.op.type = "style" => SelectedStyled(e, q) /\ SeenThere(e, R)

LEMMA TextTicket ==
    ASSUME NEW e \in Change
    PROVE  At(e) \in Nat /\ LastLine < At(e)
<1>1. 0 < e.lamport /\ e.lamport \in Nat \ {0} /\ e.actor \in Clients /\ 1 \in Clients
    BY NAssumption DEF Change, Clients
<1> QED BY <1>1, TicketOrder, TicketType DEF At, LastLine

LEMMA OperationSaw ==
    ASSUME NEW t, NEW S, S \subseteq Change, TextValue(t, S),
           NEW e, At(e) \in Nat, LastLine < At(e), \A f \in S : At(f) < At(e),
           e.op \in RichTextOperations(t, At(e))
    PROVE  \E q, K : Saw(e, S, q, K)
<1>1. /\ t \in Text /\ Founded(S) /\ Structure(Nodes(t), S, Cuts(S)) /\ Struck(Nodes(t), S)
    BY DEF TextValue, Nodes
<1> DEFINE q == Nodes(SplitForEdit(t, e.op.from, e.op.to))
           K == Cuts(S) \cup CutsAt(e.op)
<1>2. CASE e.op \in RichEdits(t, At(e))
    <2>1. /\ Authored(e, S, q, K)
          /\ e.op \in RichTextOperation /\ e.op.type = "edit"
          /\ SelectedDeleted(e, q) /\ LatestSeen(e, q)
        BY <1>1, <1>2, EditAuthored
    <2>2. Saw(e, S, q, K)
        BY <2>1 DEF Saw
    <2> QED BY <2>2
<1>3. CASE e.op \in Styles(t, At(e))
    <2>1. /\ Authored(e, S, q, K)
          /\ e.op \in RichTextOperation /\ e.op.type = "style"
          /\ SelectedStyled(e, q) /\ SeenThere(e, S)
        BY <1>1, <1>3, StyleAuthored
    <2>2. Saw(e, S, q, K)
        BY <2>1 DEF Saw
    <2> QED BY <2>2
<1> QED BY <1>2, <1>3 DEF RichTextOperations

LEMMA GroundSaw ==
    ASSUME NEW S, S \subseteq Change, NEW e \in Change, TextGround(e, S)
    PROVE  \E R, q, K : Complete(R, S) /\ Saw(e, R, q, K)
<1>1. PICK R, t :
        /\ Complete(R, S) /\ TextValue(t, R) /\ \A f \in R : At(f) < At(e)
        /\ e.op \in RichTextOperations(t, At(e))
    BY DEF TextGround
<1>2. R \subseteq Change
    BY <1>1 DEF Complete
<1>3. \E q, K : Saw(e, R, q, K)
    BY <1>1, <1>2, TextTicket, OperationSaw
<1> QED BY <1>1, <1>3

-----------------------------------------------------------------------------
(***************************************************************************)
(* What a change does to the others                                        *)
(***************************************************************************)

\* The places a change is about are there on every replica that executes it.
LEMMA SawFounded ==
    ASSUME NEW S, Founded(S), NEW R, R \subseteq S, NEW e, \A f \in S : At(f) # At(e),
           NEW q, NEW K, Saw(e, R, q, K)
    PROVE  /\ Founded(S \cup {e}) /\ PlacesAt(e.op, S)
           /\ Cuts(S \cup {e}) = Cuts(S) \cup CutsAt(e.op)
<1>1. /\ At(e) \in Nat /\ LastLine < At(e) /\ PlacesAt(e.op, R) /\ Older(e.op, At(e))
      /\ e.op \in RichTextOperation /\ (e.op.type = "style" => SeenThere(e, R))
    BY DEF Saw, Authored
<1> DEFINE T == S \cup {e}
<1>2. S \subseteq T /\ R \subseteq T
    OBVIOUS
<1>3. PlacesAt(e.op, S) /\ PlacesAt(e.op, T)
    BY <1>1, <1>2, PlacesStay DEF PlacesAt
<1>4. ASSUME NEW f \in S
      PROVE  /\ At(f) \in Nat /\ LastLine < At(f)
             /\ f.op \in RichTextOperation
             /\ \A pos \in {f.op.from, f.op.to} :
                  Place(T, pos.createdAt, Offset(pos)) /\ pos.createdAt < At(f)
             /\ (f.op.type = "style" => \A c \in f.op.seen : \E n : Insertion(T, c, n))
    <2>1. /\ At(f) \in Nat /\ LastLine < At(f)
          /\ f.op \in RichTextOperation
          /\ \A pos \in {f.op.from, f.op.to} :
               Place(S, pos.createdAt, Offset(pos)) /\ pos.createdAt < At(f)
          /\ (f.op.type = "style" => \A c \in f.op.seen : \E n : Insertion(S, c, n))
        BY DEF Founded
    <2> HIDE DEF T
    <2> QED BY <1>2, <2>1, PlacesStay
<1>5. /\ \A pos \in {e.op.from, e.op.to} :
           Place(T, pos.createdAt, Offset(pos)) /\ pos.createdAt < At(e)
      /\ (e.op.type = "style" => \A c \in e.op.seen : \E n : Insertion(T, c, n))
    <2> HIDE DEF T
    <2> QED BY <1>1, <1>2, <1>3, PlacesStay DEF PlacesAt, Older, SeenThere
<1>6. \A f, g \in T : At(f) = At(g) => f = g
    BY DEF Founded
<1>7. Founded(T)
    <2>1. \A f \in T : f = e \/ f \in S
        OBVIOUS
    <2> HIDE DEF T
    <2> QED BY <1>1, <1>4, <1>5, <1>6, <2>1 DEF Founded
<1>8. Cuts(T) = Cuts(S) \cup CutsAt(e.op)
    BY DEF Cuts, CutsAt
<1> QED BY <1>3, <1>7, <1>8

\* Whoever had an insertion had those that its author had made before.
LEMMA OlderThere ==
    ASSUME NEW S, S \subseteq Change, Founded(S), NEW R, Complete(R, S),
           NEW l, NEW m, Insertion(R, l, m), NEW c, NEW n, Insertion(S, c, n),
           c # 0, c <= l, ActorOf(c) = ActorOf(l)
    PROVE  Insertion(R, c, n)
<1>1. CASE c = LastLine /\ n = 1
    BY <1>1 DEF Insertion
<1>2. ASSUME NEW f \in Inserting(S), c = At(f), n = f.op.len
      PROVE  Insertion(R, c, n)
    <2>1. f \in S /\ f \in Change /\ At(f) \in Nat /\ LastLine < At(f) /\ 0 < At(f)
        BY LastLineIs DEF Inserting, Founded
    <2>2. PICK g \in Inserting(R) : l = At(g)
        <3>1. LastLine \in Nat
            BY LastLineIs
        <3>2. l # 0 /\ l # LastLine
            BY <1>2, <2>1, <3>1
        <3> QED BY <3>2 DEF Insertion
    <2>3. g \in S /\ g \in Change /\ g \in R
        BY <2>2 DEF Inserting, Complete
    <2>4. /\ f.lamport \in Nat /\ f.actor \in Clients /\ g.lamport \in Nat /\ g.actor \in Clients
        BY <2>1, <2>3 DEF Change
    <2>5. f.actor = g.actor
        BY <1>2, <2>2, <2>4, ActorIs DEF At
    <2>6. f \in R
        <3>1. CASE f.lamport < g.lamport
            BY <2>1, <2>3, <2>5, <3>1 DEF Complete
        <3>2. CASE g.lamport < f.lamport
            <4>1. At(g) < At(f)
                BY <2>4, <3>2, TicketOrder DEF At
            <4>2. At(g) \in Nat
                BY <2>3 DEF Founded
            <4> QED BY <1>2, <2>1, <2>2, <4>1, <4>2
        <3>3. CASE f.lamport = g.lamport
            <4>1. At(f) = At(g)
                BY <2>5, <3>3 DEF At
            <4> QED BY <2>1, <2>3, <4>1 DEF Founded
        <3> QED BY <2>4, <3>1, <3>2, <3>3
    <2> QED BY <1>2, <2>6 DEF Insertion, Inserting
<1> QED BY <1>1, <1>2 DEF Insertion

\* Wherever a change is executed, it is about the blocks whose characters its author
\* selected.
LEMMA SawSelects ==
    ASSUME NEW t, NEW S, Founded(S), NEW M, Structure(Nodes(t), S, M),
           NEW R, R \subseteq S, NEW e, NEW p, NEW K, Authored(e, R, p, K),
           CutsAt(e.op) \subseteq M, NEW y \in 1 .. Len(Nodes(t)),
           NEW o \in Nat, Covers(Nodes(t), y, Of(Nodes(t), y), o + 1),
           NEW n, Insertion(R, Of(Nodes(t), y), n)
    PROVE  \E w \in 1 .. Len(p) :
              /\ Of(p, w) = Of(Nodes(t), y) /\ Covers(p, w, Of(Nodes(t), y), o + 1)
              /\ Selects(p, e.op, w)
                    <=> y \in Between(t, e.op.from, e.op.to, At(e))
<1> DEFINE c == Of(Nodes(t), y)
<1>1. /\ Founded(R) /\ Structure(p, R, K) /\ At(e) \in Nat /\ LastLine < At(e)
      /\ \A f \in R : At(f) < At(e)
      /\ PlacesAt(e.op, R) /\ CutsAt(e.op) \subseteq K
      /\ Older(e.op, At(e)) /\ Forward(p, e.op)
    BY DEF Authored
<1>2. o + 1 \in Nat /\ o + 1 # 0
    OBVIOUS
<1>3. Place(R, c, o + 1)
    <2>1. Place(S, c, o + 1)
        BY <1>2, CoverFacts
    <2>2. PICK m : Insertion(S, c, m) /\ o + 1 <= m
        BY <2>1 DEF Place
    <2>3. Insertion(S, c, n)
        BY PlacesStay
    <2>4. m = n
        BY <2>2, <2>3, InsertionFacts
    <2> HIDE DEF c
    <2>5. Insertion(R, c, n)
        BY DEF c
    <2> QED BY <1>2, <2>2, <2>4, <2>5 DEF Place
<1> DEFINE w == Spot(p, c, o + 1)
<1>4. w \in 1 .. Len(p) /\ Covers(p, w, c, o + 1) /\ Of(p, w) = c
    BY <1>1, <1>3, SpotFacts
<1> HIDE DEF w
<1>5. Selects(p, e.op, w) <=> Selects(Nodes(t), e.op, y)
    BY <1>1, <1>2, <1>4, SelectsSame
<1>6. PlacesAt(e.op, S) /\ Forward(Nodes(t), e.op) /\ c < At(e)
    <2>1. PlacesAt(e.op, S)
        BY <1>1, PlacesStay DEF PlacesAt
    <2>2. Forward(Nodes(t), e.op)
        BY <1>1, ForwardSame
    <2>3. c < At(e)
        BY <1>1, InsertionOlder
    <2> QED BY <2>1, <2>2, <2>3
<1>7. y \in Between(t, e.op.from, e.op.to, At(e)) <=> Selects(Nodes(t), e.op, y)
    BY <1>1, <1>6, SelectsBetween
<1> QED BY <1>4, <1>5, <1>7

\* An edit removes nothing but what its author saw disappear, or what one its author
\* had executed saw disappear.
LEMMA DeletedDropped ==
    ASSUME NEW t, NEW S, S \subseteq Change, Founded(S), NEW M, Structure(Nodes(t), S, M),
           NEW R, Complete(R, S), NEW e, NEW p, NEW K, Saw(e, R, p, K), e.op.type = "edit",
           CutsAt(e.op) \subseteq M,
           NEW y \in Deleted(t, e.op.from, e.op.to, e.op.latest, At(e))
    PROVE  /\ y \in 1 .. Len(Nodes(t)) /\ y # 1
           /\ CharsAt(Nodes(t), y) \subseteq Dropped(S \cup {e})
<1> DEFINE q == Nodes(t)
           c == Of(q, y)
           a == ActorOf(c)
           l == e.op.latest[a]
<1>1. /\ R \subseteq S /\ Authored(e, R, p, K) /\ Founded(R) /\ Structure(p, R, K) /\ Struck(p, R)
      /\ At(e) \in Nat /\ PlacesAt(e.op, R) /\ SelectedDeleted(e, p) /\ LatestSeen(e, p)
    BY DEF Saw, Authored, Complete
<1>2. y \in Between(t, e.op.from, e.op.to, At(e)) /\ c <= l
    BY DEF Deleted, Removes, Of, Nodes
<1>3. PlacesAt(e.op, S)
    BY <1>1, PlacesStay DEF PlacesAt
<1>4. /\ y \in 1 .. Len(q) /\ y # 1 /\ c # 0 /\ a \in Clients
      /\ \E n : Insertion(S, c, n)
    BY <1>1, <1>2, <1>3, BetweenBlocks
<1>5. PICK n : Insertion(S, c, n)
    BY <1>4
<1>6. c \in Nat
    BY <1>5, InsertionFacts
<1> HIDE DEF c, a, l
<1>7. PICK z \in 1 .. Len(p) : l <= MaxTicket /\ ActorOf(l) = a /\ Of(p, z) = l
    <2>1. \/ l = 0
          \/ l <= MaxTicket /\ ActorOf(l) = a /\ \E z \in 1 .. Len(p) : Of(p, z) = l
        BY <1>1, <1>4 DEF LatestSeen, l
    <2>2. l # 0
        BY <1>2, <1>4, <1>6
    <2> QED BY <2>1, <2>2
<1>8. l \in Nat /\ Place(R, l, End(p, z))
    BY <1>1, <1>7, BlockFacts
<1>9. PICK m : Insertion(R, l, m)
    BY <1>8 DEF Place
<1>10. Insertion(R, c, n)
    BY <1>2, <1>4, <1>5, <1>7, <1>9, OlderThere DEF a
<1>11. c <= MaxTicket
    BY <1>2, <1>6, <1>7, <1>8, MaxTicketAssumption
<1>12. q \in Seq(Block) /\ p \in Seq(Block)
    BY <1>1 DEF Structure
<1>13. ASSUME NEW x, x \in CharsAt(q, y)
       PROVE  x \in Dropped(S \cup {e})
    <2>1. PICK o \in Nat : x = <<Of(q, y), o>> /\ Covers(q, y, Of(q, y), o + 1)
        BY <1>4, <1>12, <1>13, CharOf
    <2>2. PICK w \in 1 .. Len(p) :
              /\ Of(p, w) = Of(q, y) /\ Covers(p, w, Of(q, y), o + 1)
              /\ Selects(p, e.op, w) <=> y \in Between(t, e.op.from, e.op.to, At(e))
        BY <1>1, <1>4, <1>10, <2>1, SawSelects DEF c
    <2>3. Selects(p, e.op, w) /\ x \in CharsAt(p, w)
        BY <1>2, <1>4, <1>12, <2>1, <2>2, CharIn DEF c
    <2>4. CASE RemovedAt(p, w) = Nil
        <3>1. x \in e.op.deleted
            BY <1>1, <1>11, <2>2, <2>3, <2>4 DEF SelectedDeleted, c
        <3> QED BY <3>1 DEF Dropped
    <2>5. CASE RemovedAt(p, w) # Nil
        <3>1. x \in Dropped(R)
            BY <1>1, <2>3, <2>5 DEF Struck
        <3> QED BY <1>1, <3>1 DEF Dropped
    <2> QED BY <2>4, <2>5
<1> QED BY <1>4, <1>13

\* A style sets the blocks with the characters its author selected, of the insertions
\* its author had.
LEMMA StyledSelected ==
    ASSUME NEW t, NEW S, Founded(S), NEW M, Structure(Nodes(t), S, M),
           NEW R, R \subseteq S, NEW e, NEW p, NEW K, Saw(e, R, p, K), e.op.type = "style",
           CutsAt(e.op) \subseteq M,
           NEW y \in 1 .. Len(Nodes(t)), Of(Nodes(t), y) \in e.op.seen,
           NEW x, x \in CharsAt(Nodes(t), y)
    PROVE  x \in e.op.styled <=> y \in Between(t, e.op.from, e.op.to, At(e))
<1> DEFINE q == Nodes(t)
           c == Of(q, y)
<1>1. /\ Authored(e, R, p, K) /\ Founded(R) /\ Structure(p, R, K)
      /\ SelectedStyled(e, p) /\ SeenThere(e, R)
    BY DEF Saw, Authored
<1>2. PICK n : Insertion(R, c, n)
    BY <1>1 DEF SeenThere
<1>3. q \in Seq(Block) /\ p \in Seq(Block)
    BY <1>1 DEF Structure
<1>4. PICK o \in Nat : x = <<c, o>> /\ Covers(q, y, c, o + 1)
    BY <1>3, CharOf
<1>5. c # 0
    <2>1. o + 1 \in Nat /\ o + 1 # 0
        OBVIOUS
    <2> QED BY <1>4, <2>1, CoverFacts
<1>6. PICK w \in 1 .. Len(p) :
          /\ Of(p, w) = c /\ Covers(p, w, c, o + 1)
          /\ Selects(p, e.op, w) <=> y \in Between(t, e.op.from, e.op.to, At(e))
    BY <1>1, <1>2, <1>4, SawSelects
<1> HIDE DEF c
<1>7. x \in CharsAt(p, w)
    BY <1>3, <1>4, <1>5, <1>6, CharIn
<1>8. ASSUME NEW v \in 1 .. Len(p), x \in CharsAt(p, v)
      PROVE  v = w
    <2>1. PICK u \in Nat : x = <<Of(p, v), u>> /\ Covers(p, v, Of(p, v), u + 1)
        BY <1>3, <1>8, CharOf
    <2>2. Of(p, v) = c /\ u = o
        BY <1>4, <2>1
    <2>3. Covers(p, v, c, o + 1) /\ o + 1 \in Nat
        BY <2>1, <2>2
    <2> QED BY <1>1, <1>6, <2>3, SpotIs
<1>9. x \in e.op.styled <=> Selects(p, e.op, w)
    BY <1>1, <1>7, <1>8 DEF SelectedStyled
<1> QED BY <1>6, <1>9

\* A block of which at most the mark has changed.
Marked(q, i, r, m, places, at) ==
    /\ Of(r, m) = Of(q, i) /\ Start(r, m) = Start(q, i) /\ End(r, m) = End(q, i)
    /\ Attrs(r, m) = Attrs(q, i)
    /\ RemovedAt(r, m) = IF i \in places THEN at ELSE RemovedAt(q, i)

LEMMA MarkedFacts ==
    ASSUME NEW q \in Seq(Block), NEW places, NEW at \in Nat
    PROVE  LET marked == [i \in DOMAIN q |->
                            IF i \in places THEN [q[i] EXCEPT !.removedAt = at] ELSE q[i]]
           IN  /\ marked \in Seq(Block) /\ Len(marked) = Len(q)
               /\ \A i \in 1 .. Len(q) : Marked(q, i, marked, i, places, at)
<1> DEFINE marked == [i \in DOMAIN q |->
                        IF i \in places THEN [q[i] EXCEPT !.removedAt = at] ELSE q[i]]
<1>1. Len(q) \in Nat /\ DOMAIN q = 1 .. Len(q) /\ \A i \in 1 .. Len(q) : q[i] \in Block
    OBVIOUS
<1>2. ASSUME NEW i \in 1 .. Len(q)
      PROVE  marked[i] \in Block /\ Marked(q, i, marked, i, places, at)
    <2>1. marked[i] = IF i \in places THEN [q[i] EXCEPT !.removedAt = at] ELSE q[i]
        BY <1>1
    <2> DEFINE n == marked[i]
               b == q[i]
    <2>2. b \in Block
        BY <1>1
    <2>3. n = IF i \in places THEN [b EXCEPT !.removedAt = at] ELSE b
        BY <2>1
    <2> HIDE DEF n, b
    <2>4. /\ n \in Block /\ n.createdAt = b.createdAt /\ n.offset = b.offset /\ n.len = b.len
          /\ n.attrs = b.attrs
          /\ n.removedAt = IF i \in places THEN at ELSE b.removedAt
        BY <2>2, <2>3 DEF Block
    <2>5. /\ marked[i].createdAt = q[i].createdAt /\ marked[i].offset = q[i].offset
          /\ marked[i].len = q[i].len /\ marked[i].attrs = q[i].attrs
          /\ marked[i].removedAt = IF i \in places THEN at ELSE q[i].removedAt
          /\ marked[i] \in Block
        BY <2>4 DEF n, b
    <2> HIDE DEF marked
    <2> QED BY <2>5 DEF Marked, Of, Start, End, Attrs, RemovedAt
<1>3. marked \in [1 .. Len(q) -> Block]
    <2>1. marked = [i \in 1 .. Len(q) |-> marked[i]]
        BY <1>1
    <2> HIDE DEF marked
    <2> QED BY <1>2, <2>1
<1> HIDE DEF marked
<1>4. marked \in Seq(Block) /\ Len(marked) = Len(q)
    BY <1>1, <1>3
<1> QED BY <1>2, <1>4 DEF marked

\* The blocks after an edit: those before it, marked, and the new one among them.
EditedNodes(q, places, at, i, block) ==
    LET marked == [j \in DOMAIN q |->
                    IF j \in places THEN [q[j] EXCEPT !.removedAt = at] ELSE q[j]]
        content == IF block.len > 0 THEN <<block>> ELSE <<>>
    IN  SubSeq(marked, 1, i) \o content \o SubSeq(marked, i + 1, Len(marked))

Edited(q, r, places, at, i, block) ==
    /\ r \in Seq(Block)
    /\ block.len > 0 =>
        /\ Len(r) = Len(q) + 1 /\ r[i + 1] = block
        /\ \A m \in 1 .. Len(r) : m # i + 1 =>
                Whole(i, m) \in 1 .. Len(q) /\ Marked(q, Whole(i, m), r, m, places, at)
    /\ ~(block.len > 0) =>
        Len(r) = Len(q) /\ \A m \in 1 .. Len(q) : Marked(q, m, r, m, places, at)

LEMMA EditNodes ==
    ASSUME NEW q \in Seq(Block), NEW places, NEW at \in Nat, NEW i \in 1 .. Len(q),
           NEW block \in Block, NEW r, r = EditedNodes(q, places, at, i, block)
    PROVE  Edited(q, r, places, at, i, block)
<1> DEFINE marked == [j \in DOMAIN q |->
                        IF j \in places THEN [q[j] EXCEPT !.removedAt = at] ELSE q[j]]
           content == IF block.len > 0 THEN <<block>> ELSE <<>>
<1>0. r = SubSeq(marked, 1, i) \o content \o SubSeq(marked, i + 1, Len(marked))
    BY DEF EditedNodes
<1>1. /\ marked \in Seq(Block) /\ Len(marked) = Len(q)
      /\ \A j \in 1 .. Len(q) : Marked(q, j, marked, j, places, at)
    BY MarkedFacts
<1> HIDE DEF marked
<1>2. PICK n \in Nat : n = Len(q) /\ i \in 1 .. n /\ i \in Nat /\ i <= n
    OBVIOUS
<1>3. /\ content \in Seq(Block)
      /\ block.len > 0 => Len(content) = 1 /\ content[1] = block
      /\ ~(block.len > 0) => Len(content) = 0
    OBVIOUS
<1> HIDE DEF content
<1>4. r \in Seq(Block) /\ Spliced(marked, r, i, content, i)
    <2>1. i <= Len(marked)
        BY <1>1, <1>2
    <2> QED BY <1>0, <1>1, <1>2, <1>3, <2>1, Splice
<1>5. /\ Len(r) = i + Len(content) + (n - i)
      /\ \A m \in 1 .. i : r[m] = marked[m]
      /\ \A m \in 1 .. Len(content) : r[i + m] = content[m]
      /\ \A m \in 1 .. (n - i) : r[i + Len(content) + m] = marked[i + m]
    BY <1>1, <1>2, <1>4 DEF Spliced
<1>6. ASSUME NEW m, NEW j \in 1 .. n, r[m] = marked[j]
      PROVE  Marked(q, j, r, m, places, at)
    <2>1. Marked(q, j, marked, j, places, at)
        BY <1>1, <1>2, <1>6
    <2> QED BY <1>6, <2>1 DEF Marked, Of, Start, End, Attrs, RemovedAt
<1>7. CASE block.len > 0
    <2>1. Len(content) = 1 /\ content[1] = block
        BY <1>3, <1>7
    <2>2. Len(r) = n + 1 /\ r[i + 1] = block
        BY <1>2, <1>5, <2>1
    <2>3. ASSUME NEW m \in 1 .. (n + 1), m # i + 1
          PROVE  Whole(i, m) \in 1 .. n /\ r[m] = marked[Whole(i, m)]
        <3>1. CASE m <= i
            BY <1>2, <1>5, <3>1 DEF Whole
        <3>2. CASE ~(m <= i)
            <4>1. m - (i + 1) \in 1 .. (n - i) /\ Whole(i, m) = m - 1 /\ m - 1 \in 1 .. n
                BY <1>2, <2>3, <3>2 DEF Whole
            <4>2. r[i + 1 + (m - (i + 1))] = marked[i + (m - (i + 1))]
                BY <1>5, <2>1, <4>1
            <4>3. i + 1 + (m - (i + 1)) = m /\ i + (m - (i + 1)) = m - 1
                BY <1>2
            <4> QED BY <4>1, <4>2, <4>3
        <3> QED BY <3>1, <3>2
    <2> QED BY <1>2, <1>4, <1>6, <1>7, <2>2, <2>3 DEF Edited
<1>8. CASE ~(block.len > 0)
    <2>1. Len(content) = 0
        BY <1>3, <1>8
    <2>2. Len(r) = n
        BY <1>2, <1>5, <2>1
    <2>3. ASSUME NEW m \in 1 .. n
          PROVE  r[m] = marked[m]
        <3>1. CASE m <= i
            BY <1>2, <1>5, <3>1
        <3>2. CASE ~(m <= i)
            <4>1. m - i \in 1 .. (n - i)
                BY <1>2, <2>3, <3>2
            <4>2. r[i + 0 + (m - i)] = marked[i + (m - i)]
                BY <1>5, <2>1, <4>1
            <4>3. i + 0 + (m - i) = m /\ i + (m - i) = m
                BY <1>2
            <4> QED BY <4>2, <4>3
        <3> QED BY <3>1, <3>2
    <2> QED BY <1>2, <1>4, <1>6, <1>8, <2>2, <2>3 DEF Edited
<1> QED BY <1>7, <1>8

\* The text a change is executed on, cut where the change is about.
LEMMA SawSplit ==
    ASSUME NEW v, NEW S, TextValue(v, S), NEW R, R \subseteq S,
           NEW e, \A f \in S : At(f) # At(e), NEW p, NEW K, Saw(e, R, p, K)
    PROVE  LET s == SplitForEdit(v, e.op.from, e.op.to)
           IN  /\ Founded(S) /\ Founded(S \cup {e}) /\ PlacesAt(e.op, S)
               /\ At(e) \in Nat /\ At(e) > 0 /\ e.op \in RichTextOperation
               /\ v \in Text /\ s \in Text
               /\ s.removed = v.removed /\ s.registered = v.registered
               /\ Structure(Nodes(s), S, Cuts(S \cup {e})) /\ CutsAt(e.op) \subseteq Cuts(S \cup {e})
               /\ Struck(Nodes(s), S) /\ Dressed(Nodes(s), S)
<1> DEFINE s == SplitForEdit(v, e.op.from, e.op.to)
<1>1. /\ v \in Text /\ Founded(S) /\ Structure(Nodes(v), S, Cuts(S))
      /\ Struck(Nodes(v), S) /\ Dressed(Nodes(v), S)
    BY DEF TextValue, Nodes
<1>2. /\ Founded(S \cup {e}) /\ PlacesAt(e.op, S)
      /\ Cuts(S \cup {e}) = Cuts(S) \cup CutsAt(e.op)
    BY <1>1, SawFounded
<1>3. /\ At(e) \in Nat /\ LastLine < At(e) /\ e.op \in RichTextOperation
      /\ e.op.from \in Position /\ e.op.to \in Position
    BY DEF Saw, Authored
<1>4. CutsAt(e.op) = {<<e.op.from.createdAt, Offset(e.op.from)>>,
                      <<e.op.to.createdAt, Offset(e.op.to)>>}
    BY DEF CutsAt
<1>5. /\ s \in Text /\ s.removed = v.removed /\ s.registered = v.registered
      /\ Structure(Nodes(s), S, Cuts(S) \cup CutsAt(e.op))
      /\ Parts(Nodes(v), Nodes(s))
    BY <1>1, <1>2, <1>3, <1>4, SplitForEditKeeps DEF PlacesAt
<1> HIDE DEF s
<1>6. Nodes(v) \in Seq(Block) /\ Nodes(s) \in Seq(Block)
    BY <1>1, <1>5 DEF Structure
<1>7. Struck(Nodes(s), S) /\ Dressed(Nodes(s), S)
    BY <1>1, <1>5, <1>6, PartsKeep
<1>8. At(e) > 0
    BY <1>3, LastLineIs
<1> QED BY <1>1, <1>2, <1>3, <1>5, <1>7, <1>8 DEF s

\* An insertion that is there is not that of a new change.
LEMMA InsertionOld ==
    ASSUME NEW S, NEW e, At(e) \in Nat, LastLine < At(e), \A f \in S : At(f) # At(e),
           NEW c, NEW n, Insertion(S, c, n)
    PROVE  c # At(e)
BY LastLineIs DEF Insertion, Inserting

\* An edit sets nothing but its own characters.
Attributing(e) == e.op.attributed

LEMMA EditSetters ==
    ASSUME NEW S, NEW e, e.op.type = "edit", NEW x
    PROVE  /\ x[1] # At(e) => Setters(S \cup {e}, x) = Setters(S, x)
           /\ Attributing(e) /\ x[1] = At(e) =>
                Setters(S \cup {e}, x) = Setters(S, x) \cup {At(e)}
BY DEF Setters, Attributing

LEMMA PlainSetters ==
    ASSUME NEW S, NEW e, e.op.type = "edit", ~Attributing(e), NEW x
    PROVE  Setters(S \cup {e}, x) = Setters(S, x)
BY DEF Setters, Attributing

\* What may be removed and how a block must look, block by block.
StruckAt(q, i, S) ==
    RemovedAt(q, i) # Nil => RemovedAt(q, i) > InitialTicket /\ CharsAt(q, i) \subseteq Dropped(S)
DressedAt(q, i, S) ==
    Known(S, Of(q, i)) => \A x \in CharsAt(q, i) : Latest(Attrs(q, i), Setters(S, x))

LEMMA EditedBlock ==
    ASSUME NEW S, NEW e, e.op.type = "edit", At(e) > 0,
           NEW q \in Seq(Block), NEW r \in Seq(Block), NEW i \in 1 .. Len(q), NEW m \in 1 .. Len(r),
           NEW places, Marked(q, i, r, m, places, At(e)), Of(q, i) # At(e),
           Struck(q, S), Dressed(q, S),
           i \in places => CharsAt(q, i) \subseteq Dropped(S \cup {e})
    PROVE  StruckAt(r, m, S \cup {e}) /\ DressedAt(r, m, S \cup {e})
<1>1. /\ Of(r, m) = Of(q, i) /\ Attrs(r, m) = Attrs(q, i)
      /\ RemovedAt(r, m) = IF i \in places THEN At(e) ELSE RemovedAt(q, i)
    BY DEF Marked
<1>2. CharsAt(r, m) \subseteq CharsAt(q, i)
    <2>1. Start(r, m) = Start(q, i) /\ End(r, m) = End(q, i)
        BY DEF Marked
    <2>2. Start(q, i) <= Start(r, m) /\ End(r, m) <= End(q, i)
        BY <2>1, BlockType
    <2> QED BY <1>1, <2>2, PartChars
<1>3. Dropped(S) \subseteq Dropped(S \cup {e})
    BY DEF Dropped
<1>4. StruckAt(r, m, S \cup {e})
    <2>1. CASE i \in places
        BY <1>1, <1>2, <2>1 DEF StruckAt, InitialTicket
    <2>2. CASE i \notin places
        BY <1>1, <1>2, <1>3, <2>2 DEF StruckAt, Struck
    <2> QED BY <2>1, <2>2
<1>5. DressedAt(r, m, S \cup {e})
    <2> SUFFICES ASSUME Known(S \cup {e}, Of(r, m)), NEW x \in CharsAt(r, m)
                 PROVE  Latest(Attrs(r, m), Setters(S \cup {e}, x))
        BY DEF DressedAt
    <2>1. Known(S, Of(q, i))
        BY <1>1 DEF Known
    <2>2. Latest(Attrs(q, i), Setters(S, x))
        BY <1>2, <2>1 DEF Dressed
    <2>3. PICK o \in Nat : x = <<Of(q, i), o>>
        BY <1>2, CharOf
    <2>4. x[1] # At(e)
        BY <2>3
    <2>5. Setters(S \cup {e}, x) = Setters(S, x)
        BY <2>4, EditSetters
    <2> QED BY <1>1, <2>2, <2>5
<1> QED BY <1>4, <1>5

LEMMA LatestOne ==
    /\ \A a \in Nat : Latest(a, {a})
    /\ Latest(InitialTicket, {})
BY DEF Latest, InitialTicket

LEMMA InsertedBlock ==
    ASSUME NEW S, Founded(S), NEW e, At(e) \in Nat, LastLine < At(e), At(e) > 0,
           \A f \in S : At(f) # At(e), e.op.type = "edit",
           NEW r \in Seq(Block), NEW m \in 1 .. Len(r), Of(r, m) = At(e),
           \/ Attributing(e) /\ Attrs(r, m) = At(e)
           \/ ~Attributing(e) /\ Attrs(r, m) = InitialTicket,
           RemovedAt(r, m) = Nil
    PROVE  StruckAt(r, m, S \cup {e}) /\ DressedAt(r, m, S \cup {e})
<1>1. StruckAt(r, m, S \cup {e})
    BY DEF StruckAt
<1>2. ASSUME Known(S \cup {e}, Of(r, m)), NEW x \in CharsAt(r, m)
      PROVE  Latest(Attrs(r, m), Setters(S \cup {e}, x))
    <2>1. PICK o \in Nat : x = <<Of(r, m), o>>
        BY CharOf
    <2>2. x[1] = At(e)
        BY <2>1
    <2>3. ASSUME NEW f \in S, f.op.type = "style"
          PROVE  FALSE
        <3>1. At(e) \in f.op.seen
            BY <1>2, <2>3 DEF Known
        <3>2. PICK n : Insertion(S, At(e), n)
            BY <2>3, <3>1 DEF Founded
        <3> QED BY <3>2, InsertionOld
    <2>4. Setters(S, x) = {}
        BY <2>2, <2>3 DEF Setters
    <2>5. CASE Attributing(e) /\ Attrs(r, m) = At(e)
        <3>1. Setters(S \cup {e}, x) = Setters(S, x) \cup {At(e)} /\ Attrs(r, m) = At(e)
            BY <2>2, <2>5, EditSetters
        <3>2. Setters(S \cup {e}, x) = {At(e)} /\ Attrs(r, m) = At(e)
            BY <2>4, <3>1
        <3> QED BY <3>2, LatestOne
    <2>6. CASE ~Attributing(e) /\ Attrs(r, m) = InitialTicket
        <3>1. Setters(S \cup {e}, x) = Setters(S, x)
            BY <2>6, PlainSetters
        <3>2. Attrs(r, m) = InitialTicket
            BY <2>6
        <3>3. Setters(S \cup {e}, x) = {}
            BY <2>4, <3>1
        <3> QED BY <3>2, <3>3, LatestOne
    <2> QED BY <2>5, <2>6
<1> QED BY <1>1, <1>2 DEF DressedAt

\* An edit keeps what is known of a text.
LEMMA EditValue ==
    ASSUME NEW v, NEW S, S \subseteq Change, TextValue(v, S), NEW R, Complete(R, S),
           NEW e, \A f \in S : At(f) # At(e), NEW p, NEW K, Saw(e, R, p, K),
           e.op.type = "edit"
    PROVE  TextValue(RichTextExecute(v, e.op, At(e)), S \cup {e})
<1> DEFINE s == SplitForEdit(v, e.op.from, e.op.to)
           q == Nodes(s)
           T == S \cup {e}
           M == Cuts(T)
           i == LeftOf(s, e.op.from, At(e))
           places == Deleted(s, e.op.from, e.op.to, e.op.latest, At(e))
           block == NewBlock(At(e), e.op.len, IF e.op.attributed THEN At(e) ELSE InitialTicket)
           w == RichTextExecute(v, e.op, At(e))
           r == Nodes(w)
<1>1. R \subseteq S
    BY DEF Complete
<1>2. /\ Founded(S) /\ Founded(T) /\ PlacesAt(e.op, S)
      /\ At(e) \in Nat /\ At(e) > 0 /\ e.op \in RichTextOperation
      /\ v \in Text /\ s \in Text
      /\ s.removed = v.removed /\ s.registered = v.registered
      /\ Structure(q, S, M) /\ CutsAt(e.op) \subseteq M
      /\ Struck(q, S) /\ Dressed(q, S)
    BY <1>1, SawSplit
<1>3. LastLine < At(e)
    BY DEF Saw, Authored
<1>4. e.op.len \in Nat
    BY <1>2 DEF RichTextOperation
<1>5. /\ block \in Block /\ block.len = e.op.len /\ block.createdAt = At(e)
      /\ block.offset = 0 /\ block.removedAt = Nil
      /\ \/ Attributing(e) /\ block.attrs = At(e)
         \/ ~Attributing(e) /\ block.attrs = InitialTicket
    BY <1>2, <1>4 DEF NewBlock, Block, InitialTicket, Attributing
<1> HIDE DEF block
<1>6. w = [nodes |-> EditedNodes(q, places, At(e), i, block),
           removed |-> v.removed \cup {ID(q[j]) : j \in places},
           registered |-> v.registered \/ e.op.from.rel # e.op.to.rel]
    BY DEF RichTextExecute, Edit, EditedNodes, Nodes, block
<1>7. q \in Seq(Block) /\ Len(q) \in Nat
    BY <1>2, BlockFacts DEF Structure
<1>8. IsLeft(q, Spot(q, e.op.from.createdAt, Offset(e.op.from)), At(e), i)
    BY <1>2, LeftFacts DEF PlacesAt
<1>9. i \in 1 .. Len(q)
    <2>1. Place(S, e.op.from.createdAt, Offset(e.op.from))
        BY <1>2 DEF PlacesAt
    <2>2. Spot(q, e.op.from.createdAt, Offset(e.op.from)) \in 1 .. Len(q)
        BY <1>2, <2>1, SpotFacts
    <2> DEFINE b == Spot(q, e.op.from.createdAt, Offset(e.op.from))
    <2>3. i \in b .. Len(q)
        BY <1>8 DEF IsLeft
    <2> HIDE DEF b, i
    <2>4. b \in 1 .. Len(q)
        BY <2>2 DEF b
    <2> QED BY <1>7, <2>3, <2>4
<1>10. \A j \in places : j \in 1 .. Len(q) /\ CharsAt(q, j) \subseteq Dropped(T)
    BY <1>2, DeletedDropped
<1> HIDE DEF places, i, w, s
<1>11. /\ r \in Seq(Block)
       /\ block.len > 0 =>
            /\ Len(r) = Len(q) + 1 /\ r[i + 1] = block
            /\ \A m \in 1 .. Len(r) : m # i + 1 =>
                    Whole(i, m) \in 1 .. Len(q) /\ Marked(q, Whole(i, m), r, m, places, At(e))
       /\ ~(block.len > 0) =>
            Len(r) = Len(q) /\ \A m \in 1 .. Len(q) : Marked(q, m, r, m, places, At(e))
    <2>1. r = EditedNodes(q, places, At(e), i, block)
        BY <1>6 DEF Nodes
    <2>2. At(e) \in Nat /\ block \in Block
        BY <1>2, <1>5
    <2> HIDE DEF r, q
    <2>3. Edited(q, r, places, At(e), i, block)
        BY <1>7, <1>9, <2>1, <2>2, EditNodes
    <2> QED BY <2>3 DEF Edited
<1>12. w \in Text
    <2>1. \A j \in places : ID(q[j]) \in Nat \X Nat
        <3> SUFFICES ASSUME NEW j \in places PROVE ID(q[j]) \in Nat \X Nat
            OBVIOUS
        <3>1. q[j] \in Block
            BY <1>7, <1>10
        <3> QED BY <3>1 DEF ID, Block
    <2>2. v.removed \subseteq Nat \X Nat /\ v.registered \in BOOLEAN
        BY <1>2 DEF Text
    <2>3. w = [nodes |-> r, removed |-> v.removed \cup {ID(q[j]) : j \in places},
               registered |-> v.registered \/ e.op.from.rel # e.op.to.rel]
        BY <1>6 DEF Nodes
    <2> HIDE DEF r
    <2> QED BY <1>11, <2>1, <2>2, <2>3 DEF Text
<1>13. \A j \in 1 .. Len(q) : Of(q, j) # At(e)
    <2> TAKE j \in 1 .. Len(q)
    <2>1. Place(S, Of(q, j), End(q, j))
        BY <1>2, BlockFacts
    <2> QED BY <1>2, <1>3, <2>1, InsertionOld DEF Place
<1>14. \A j \in 1 .. Len(q), m \in 1 .. Len(r) : Marked(q, j, r, m, places, At(e)) =>
            StruckAt(r, m, T) /\ DressedAt(r, m, T)
    BY <1>2, <1>7, <1>10, <1>11, <1>13, EditedBlock
<1> HIDE DEF r
<1>15. CASE block.len > 0
    <2>1. /\ Of(r, i + 1) = At(e) /\ Start(r, i + 1) = 0 /\ End(r, i + 1) = e.op.len
          /\ \/ Attributing(e) /\ Attrs(r, i + 1) = At(e)
             \/ ~Attributing(e) /\ Attrs(r, i + 1) = InitialTicket
          /\ RemovedAt(r, i + 1) = Nil
        BY <1>4, <1>5, <1>11, <1>15 DEF Of, Start, End, Attrs, RemovedAt
    <2>2. i + 1 \in 1 .. Len(r)
        BY <1>7, <1>9, <1>11, <1>15
    <2>3. \A m \in 1 .. Len(r) : StruckAt(r, m, T) /\ DressedAt(r, m, T)
        <3> SUFFICES ASSUME NEW m \in 1 .. Len(r) PROVE StruckAt(r, m, T) /\ DressedAt(r, m, T)
            OBVIOUS
        <3>1. CASE m = i + 1
            BY <1>2, <1>3, <1>11, <2>1, <3>1, InsertedBlock
        <3>2. CASE m # i + 1
            BY <1>11, <1>14, <1>15, <3>2
        <3> QED BY <3>1, <3>2
    <2>4. Grown(q, r, i, At(e), e.op.len)
        BY <1>11, <1>15, <2>1 DEF Grown, Marked
    <2>5. Structure(r, T, M)
        <3>1. e \in Inserting(T)
            BY <1>5, <1>15 DEF Inserting
        <3>2. \A c, k : <<c, k>> \in M => c # At(e)
            <4>1. \A f \in S : \A pos \in {f.op.from, f.op.to} :
                    Place(S, pos.createdAt, Offset(pos))
                BY <1>2 DEF Founded
            <4>2. \A pos \in {e.op.from, e.op.to} : Place(S, pos.createdAt, Offset(pos))
                BY <1>2 DEF PlacesAt
            <4>3. \A c, k : Place(S, c, k) => c # At(e)
                BY <1>2, <1>3, InsertionOld DEF Place
            <4> QED BY <4>1, <4>2, <4>3 DEF Cuts
        <3>3. Place(S, e.op.from.createdAt, Offset(e.op.from))
            BY <1>2 DEF PlacesAt
        <3>4. End(q, Spot(q, e.op.from.createdAt, Offset(e.op.from))) = Offset(e.op.from)
            <4>1. <<e.op.from.createdAt, Offset(e.op.from)>> \in M
                BY <1>2 DEF CutsAt
            <4> QED BY <1>2, <3>3, <4>1, SpotEnds
        <3> HIDE DEF M, q
        <3> QED BY <1>2, <1>8, <2>4, <3>1, <3>2, <3>3, <3>4, InsertKeeps
    <2> QED BY <1>2, <1>12, <2>3, <2>5
           DEF TextValue, Struck, Dressed, StruckAt, DressedAt, r, w, Nodes
<1>16. CASE ~(block.len > 0)
    <2>1. Inserting(T) = Inserting(S)
        BY <1>5, <1>16 DEF Inserting
    <2>2. Structure(r, T, M)
        <3>1. /\ Len(r) = Len(q)
              /\ \A m \in 1 .. Len(q) :
                    Of(r, m) = Of(q, m) /\ Start(r, m) = Start(q, m) /\ End(r, m) = End(q, m)
            BY <1>11, <1>16 DEF Marked
        <3> HIDE DEF M, q, T
        <3> QED BY <1>2, <1>11, <2>1, <3>1, ShapeKeeps
    <2>3. \A m \in 1 .. Len(r) : StruckAt(r, m, T) /\ DressedAt(r, m, T)
        BY <1>11, <1>14, <1>16
    <2> QED BY <1>2, <1>12, <2>2, <2>3
           DEF TextValue, Struck, Dressed, StruckAt, DressedAt, r, w, Nodes
<1> QED BY <1>15, <1>16 DEF w

\* The blocks after a style.
StyledNodes(q, places, at) ==
    [i \in DOMAIN q |-> IF i \in places THEN SetAttr(q[i], at) ELSE q[i]]
Styled(q, r, places, at) ==
    /\ r \in Seq(Block) /\ Len(r) = Len(q)
    /\ \A i \in 1 .. Len(q) :
        /\ Of(r, i) = Of(q, i) /\ Start(r, i) = Start(q, i) /\ End(r, i) = End(q, i)
        /\ RemovedAt(r, i) = RemovedAt(q, i)
        /\ Attrs(q, i) \in Nat
        /\ Attrs(r, i) = IF i \in places /\ at > Attrs(q, i) THEN at ELSE Attrs(q, i)

LEMMA StyleNodes ==
    ASSUME NEW q \in Seq(Block), NEW places, NEW at \in Nat, NEW r, r = StyledNodes(q, places, at)
    PROVE  Styled(q, r, places, at)
<1>1. Len(q) \in Nat /\ DOMAIN q = 1 .. Len(q) /\ \A i \in 1 .. Len(q) : q[i] \in Block
    OBVIOUS
<1>2. r = [i \in 1 .. Len(q) |-> IF i \in places THEN SetAttr(q[i], at) ELSE q[i]]
    BY <1>1 DEF StyledNodes
<1>3. ASSUME NEW i \in 1 .. Len(q)
      PROVE  /\ r[i] \in Block
             /\ Of(r, i) = Of(q, i) /\ Start(r, i) = Start(q, i) /\ End(r, i) = End(q, i)
             /\ RemovedAt(r, i) = RemovedAt(q, i)
             /\ Attrs(q, i) \in Nat
             /\ Attrs(r, i) = IF i \in places /\ at > Attrs(q, i) THEN at ELSE Attrs(q, i)
    <2>1. r[i] = IF i \in places THEN SetAttr(q[i], at) ELSE q[i]
        BY <1>2
    <2> DEFINE n == r[i]
               b == q[i]
    <2>2. b \in Block
        BY <1>1
    <2>3. n = IF i \in places
              THEN [b EXCEPT !.attrs = IF at > b.attrs THEN at ELSE b.attrs] ELSE b
        BY <2>1 DEF SetAttr
    <2> HIDE DEF n, b
    <2>4. /\ n \in Block /\ n.createdAt = b.createdAt /\ n.offset = b.offset /\ n.len = b.len
          /\ n.removedAt = b.removedAt /\ b.attrs \in Nat
          /\ n.attrs = IF i \in places /\ at > b.attrs THEN at ELSE b.attrs
        BY <2>2, <2>3 DEF Block
    <2> QED BY <2>4 DEF n, b, Of, Start, End, Attrs, RemovedAt
<1>4. r \in [1 .. Len(q) -> Block]
    BY <1>2, <1>3
<1>5. r \in Seq(Block) /\ Len(r) = Len(q)
    BY <1>1, <1>4
<1> QED BY <1>3, <1>5 DEF Styled

\* The setters of the characters a style is about.
LEMMA StyleSetters ==
    ASSUME NEW S, NEW e, e.op.type = "style", NEW x
    PROVE  x \in e.op.styled => Setters(S \cup {e}, x) = Setters(S, x) \cup {At(e)}
BY DEF Setters

LEMMA UnstyledSetters ==
    ASSUME NEW S, NEW e, e.op.type = "style", NEW x, x \notin e.op.styled
    PROVE  Setters(S \cup {e}, x) = Setters(S, x)
BY DEF Setters

LEMMA LatestMore ==
    ASSUME NEW a \in Nat, NEW V, V \subseteq Nat, Latest(a, V), NEW at \in Nat
    PROVE  Latest(IF at > a THEN at ELSE a, V \cup {at})
<1> DEFINE b == IF at > a THEN at ELSE a
<1>1. a <= b /\ at <= b /\ b \in Nat /\ b \in {a, at}
    OBVIOUS
<1> HIDE DEF b
<1>2. \A y \in {InitialTicket} \cup (V \cup {at}) : y <= b
    <2> SUFFICES ASSUME NEW y \in {InitialTicket} \cup (V \cup {at}) PROVE y <= b
        OBVIOUS
    <2>1. CASE y = at
        BY <1>1, <2>1
    <2>2. CASE y \in {InitialTicket} \cup V
        <3>1. y <= a /\ y \in Nat
            BY <2>2 DEF Latest, InitialTicket
        <3> QED BY <1>1, <3>1
    <2> QED BY <2>1, <2>2
<1>3. b \in {InitialTicket} \cup (V \cup {at})
    BY <1>1 DEF Latest
<1>4. Latest(b, V \cup {at})
    BY <1>2, <1>3 DEF Latest
<1> QED BY <1>4 DEF b

\* A style keeps what is known of a text.
LEMMA StyleValue ==
    ASSUME NEW v, NEW S, TextValue(v, S), NEW R, R \subseteq S,
           NEW e, \A f \in S : At(f) # At(e), NEW p, NEW K, Saw(e, R, p, K),
           e.op.type = "style"
    PROVE  TextValue(RichTextExecute(v, e.op, At(e)), S \cup {e})
<1> DEFINE s == SplitForEdit(v, e.op.from, e.op.to)
           q == Nodes(s)
           T == S \cup {e}
           M == Cuts(T)
           places == Between(s, e.op.from, e.op.to, At(e))
           w == RichTextExecute(v, e.op, At(e))
           r == Nodes(w)
<1>2. /\ Founded(S) /\ Founded(T) /\ PlacesAt(e.op, S)
      /\ At(e) \in Nat /\ At(e) > 0 /\ e.op \in RichTextOperation
      /\ v \in Text /\ s \in Text
      /\ s.removed = v.removed /\ s.registered = v.registered
      /\ Structure(q, S, M) /\ CutsAt(e.op) \subseteq M
      /\ Struck(q, S) /\ Dressed(q, S)
    BY SawSplit
<1>3. w = [s EXCEPT !.nodes = StyledNodes(q, places, At(e))]
    BY DEF RichTextExecute, SetStyle, StyledNodes, Nodes
<1>4. q \in Seq(Block)
    BY <1>2 DEF Structure
<1>5. \A i \in 1 .. Len(q) : \A x \in CharsAt(q, i) :
        Of(q, i) \in e.op.seen => (x \in e.op.styled <=> i \in places)
    BY <1>2, StyledSelected
<1>6. r = StyledNodes(q, places, At(e))
    <2>1. s = [nodes |-> s.nodes, removed |-> s.removed, registered |-> s.registered]
        BY <1>2 DEF Text
    <2> HIDE DEF w, s, places
    <2> QED BY <1>3, <2>1 DEF Nodes
<1> HIDE DEF places, w, s
<1>7. Styled(q, r, places, At(e))
    <2>1. At(e) \in Nat
        BY <1>2
    <2> HIDE DEF r, q
    <2> QED BY <1>4, <1>6, <2>1, StyleNodes
<1>8. /\ r \in Seq(Block) /\ Len(r) = Len(q)
      /\ \A i \in 1 .. Len(q) :
          /\ Of(r, i) = Of(q, i) /\ Start(r, i) = Start(q, i) /\ End(r, i) = End(q, i)
          /\ RemovedAt(r, i) = RemovedAt(q, i)
          /\ Attrs(q, i) \in Nat
          /\ Attrs(r, i) = IF i \in places /\ At(e) > Attrs(q, i) THEN At(e) ELSE Attrs(q, i)
    BY <1>7 DEF Styled
<1> HIDE DEF r
<1>9. w \in Text
    <2>1. s.removed \subseteq Nat \X Nat /\ s.registered \in BOOLEAN
          /\ s = [nodes |-> s.nodes, removed |-> s.removed, registered |-> s.registered]
        BY <1>2 DEF Text
    <2>2. w = [nodes |-> r, removed |-> s.removed, registered |-> s.registered]
        BY <1>3, <1>6, <2>1
    <2> QED BY <1>8, <2>1, <2>2 DEF Text
<1>10. Inserting(T) = Inserting(S)
    BY DEF Inserting
<1>11. Structure(r, T, M)
    <2> HIDE DEF q, T, M
    <2> QED BY <1>2, <1>8, <1>10, ShapeKeeps
<1>12. \A i \in 1 .. Len(q) : CharsAt(r, i) \subseteq CharsAt(q, i)
    <2> TAKE i \in 1 .. Len(q)
    <2>1. Start(q, i) <= Start(r, i) /\ End(r, i) <= End(q, i)
        BY <1>4, <1>8, BlockType
    <2> HIDE DEF q
    <2> QED BY <1>4, <1>8, <2>1, PartChars
<1>13. Struck(r, T)
    <2>1. Dropped(S) \subseteq Dropped(T)
        BY DEF Dropped
    <2> HIDE DEF q, T
    <2> QED BY <1>2, <1>8, <1>12, <2>1 DEF Struck
<1>14. \A x : Setters(S, x) \subseteq Nat
    BY <1>2 DEF Setters, Founded
<1>15. Dressed(r, T)
    <2> SUFFICES ASSUME NEW i \in 1 .. Len(q), Known(T, Of(r, i)), NEW x \in CharsAt(r, i)
                 PROVE  Latest(Attrs(r, i), Setters(T, x))
        BY <1>8 DEF Dressed
    <2>1. Known(S, Of(q, i)) /\ Of(q, i) \in e.op.seen /\ x \in CharsAt(q, i)
        BY <1>8, <1>12 DEF Known
    <2>2. Latest(Attrs(q, i), Setters(S, x)) /\ Attrs(q, i) \in Nat
        BY <1>2, <1>8, <2>1 DEF Dressed
    <2>3. CASE i \in places
        <3>1. Setters(T, x) = Setters(S, x) \cup {At(e)}
            BY <1>5, <2>1, <2>3, StyleSetters
        <3>2. Attrs(r, i) = IF At(e) > Attrs(q, i) THEN At(e) ELSE Attrs(q, i)
            BY <1>8, <2>3
        <3>3. Setters(S, x) \subseteq Nat /\ At(e) \in Nat
            BY <1>2, <1>14
        <3>4. Latest(IF At(e) > Attrs(q, i) THEN At(e) ELSE Attrs(q, i),
                     Setters(S, x) \cup {At(e)})
            BY <2>2, <3>3, LatestMore
        <3> QED BY <3>1, <3>2, <3>4
    <2>4. CASE i \notin places
        <3>1. Setters(T, x) = Setters(S, x)
            <4>1. x \notin e.op.styled
                BY <1>5, <2>1, <2>4
            <4> QED BY <4>1, UnstyledSetters
        <3>2. Attrs(r, i) = Attrs(q, i)
            BY <1>8, <2>4
        <3> QED BY <2>2, <3>1, <3>2
    <2> QED BY <2>3, <2>4
<1> QED BY <1>2, <1>9, <1>11, <1>13, <1>15 DEF TextValue, r, w, Nodes

-----------------------------------------------------------------------------
(***************************************************************************)
(* All values                                                              *)
(***************************************************************************)

\* The new text has the last line and nothing else.
LEMMA NewNodes ==
    LET q == NewRichText.nodes
    IN  /\ q \in Seq(Block) /\ Len(q) = 2
        /\ Of(q, 1) = 0 /\ Start(q, 1) = 0 /\ End(q, 1) = 0
        /\ Of(q, 2) = LastLine /\ Start(q, 2) = 0 /\ End(q, 2) = 1
        /\ \A i \in 1 .. 2 : RemovedAt(q, i) = Nil /\ Attrs(q, i) = InitialTicket
<1> DEFINE a == NewBlock(InitialTicket, 0, InitialTicket)
           b == NewBlock(LastLine, 1, InitialTicket)
           q == NewRichText.nodes
<1>1. a \in Block /\ b \in Block
    BY LastLineIs DEF NewBlock, Block, InitialTicket
<1>2. /\ a.createdAt = 0 /\ a.offset = 0 /\ a.len = 0 /\ a.removedAt = Nil
      /\ a.attrs = InitialTicket
      /\ b.createdAt = LastLine /\ b.offset = 0 /\ b.len = 1 /\ b.removedAt = Nil
      /\ b.attrs = InitialTicket
    BY DEF NewBlock, InitialTicket
<1>3. q = Append(<<a>>, b)
    BY DEF NewRichText, NewText
<1> HIDE DEF a, b, q
<1>4. q \in Seq(Block) /\ Len(q) = 2 /\ q[1] = a /\ q[2] = b
    BY <1>1, <1>3
<1>5. /\ Of(q, 1) = 0 /\ Start(q, 1) = 0 /\ End(q, 1) = 0
      /\ Of(q, 2) = LastLine /\ Start(q, 2) = 0 /\ End(q, 2) = 1
    BY <1>2, <1>4 DEF Of, Start, End
<1>6. \A i \in 1 .. 2 : i = 1 \/ i = 2
    OBVIOUS
<1>7. \A i \in 1 .. 2 : RemovedAt(q, i) = Nil /\ Attrs(q, i) = InitialTicket
    BY <1>2, <1>4, <1>6 DEF RemovedAt, Attrs
<1> QED BY <1>4, <1>5, <1>7 DEF q

LEMMA NewValue == TextValue(NewRichText, {})
<1> DEFINE q == NewRichText.nodes
<1>1. /\ q \in Seq(Block) /\ Len(q) = 2
      /\ Of(q, 1) = 0 /\ Start(q, 1) = 0 /\ End(q, 1) = 0
      /\ Of(q, 2) = 1 /\ Start(q, 2) = 0 /\ End(q, 2) = 1
      /\ \A i \in 1 .. 2 : RemovedAt(q, i) = Nil /\ Attrs(q, i) = InitialTicket
    BY NewNodes, LastLineIs
<1> HIDE DEF q
<1>2. \A c, n : Insertion({}, c, n) <=> (c = 0 /\ n = 0) \/ (c = 1 /\ n = 1)
    BY LastLineIs DEF Insertion, Inserting
<1>3. Cuts({}) = {}
    BY DEF Cuts
<1>4. \A i \in 1 .. 2 : i = 1 \/ i = 2
    OBVIOUS
<1>5. Headed(q)
    BY <1>1 DEF Headed
<1>6. \A i \in 2 .. Len(q) : i = 2
    BY <1>1
<1>7. Blocked(q, {}, {})
    <2>1. Fits(q, 2, {}, {})
        BY <1>1, <1>2 DEF Fits
    <2>2. \A c, k : Place({}, c, k) => (c = 0 /\ k = 0) \/ (c = 1 /\ k = 1)
        BY <1>2 DEF Place
    <2>3. Covers(q, 1, 0, 0) /\ Covers(q, 2, 1, 1)
        BY <1>1 DEF Covers
    <2>4. 1 \in 1 .. Len(q) /\ 2 \in 1 .. Len(q)
        BY <1>1
    <2> QED BY <1>6, <2>1, <2>2, <2>3, <2>4 DEF Blocked
<1>8. InOrder(q)
    <2>1. \A i, j \in 1 .. Len(q) : i < j => i = 1 /\ j = 2
        BY <1>1
    <2>2. ASSUME NEW i \in 1 .. Len(q), NEW j \in 1 .. Len(q), i < j
          PROVE  Of(q, i) # Of(q, j)
        <3>1. i = 1 /\ j = 2
            BY <1>1, <2>2
        <3> QED BY <1>1, <3>1
    <2>3. \A i, j, m \in 1 .. Len(q) : ~(i < m /\ m < j)
        BY <1>1
    <2> QED BY <2>2, <2>3 DEF InOrder
<1>9. Anchored(q, {})
    <2> SUFFICES ASSUME NEW a, NEW k, Anchor({}, 1, a, k)
                 PROVE  Behind(q, 2, a, k)
        BY <1>1, <1>6 DEF Anchored
    <2>1. a = 0 /\ k = 0
        BY DEF Anchor, Inserting
    <2>2. Covers(q, 1, 0, 0)
        BY <1>1 DEF Covers
    <2>3. 1 \in 1 .. Len(q) /\ \A m \in 1 .. Len(q) : ~(1 < m /\ m < 2)
        BY <1>1
    <2> QED BY <1>1, <2>1, <2>2, <2>3 DEF Behind
<1>10. Structure(q, {}, {})
    BY <1>1, <1>5, <1>7, <1>8, <1>9 DEF Structure
<1>11. Struck(q, {})
    BY <1>1 DEF Struck
<1>12. Dressed(q, {})
    <2>1. \A x : Setters({}, x) = {}
        BY DEF Setters
    <2> QED BY <1>1, <2>1, LatestOne DEF Dressed
<1>13. Founded({})
    BY DEF Founded
<1>14. NewRichText \in Text
    <2> DEFINE new == Append(NewText.nodes, NewBlock(LastLine, 1, InitialTicket))
    <2>1. NewRichText = [NewText EXCEPT !.nodes = new]
        BY DEF NewRichText
    <2> HIDE DEF new
    <2>2. NewRichText = [nodes |-> new, removed |-> {}, registered |-> FALSE]
        BY <2>1 DEF NewText
    <2>3. q = new
        BY <2>2 DEF q
    <2> QED BY <1>1, <2>2, <2>3 DEF Text
<1> QED BY <1>3, <1>10, <1>11, <1>12, <1>13, <1>14 DEF TextValue, q

\* Neither decoding nor the collection of nothing changes a block.
LEMMA DecodedValue ==
    ASSUME NEW v, NEW S, TextValue(v, S)
    PROVE  /\ TextValue(DecodedText(v), S)
           /\ CleanupRemovedNodes(v, InitialTicket) = v
<1>1. v \in Text /\ Struck(v.nodes, S)
    BY DEF TextValue
<1>2. DecodedText(v) \in Text /\ DecodedText(v).nodes = v.nodes
    BY <1>1 DEF DecodedText, Text
<1>3. TextValue(DecodedText(v), S)
    BY <1>2 DEF TextValue
<1>4. ASSUME NEW i \in DOMAIN v.nodes, v.nodes[i].removedAt # Nil
      PROVE  ~(v.nodes[i].removedAt <= InitialTicket)
    <2>1. v.nodes \in Seq(Block)
        BY <1>1 DEF Text
    <2>2. i \in 1 .. Len(v.nodes) /\ v.nodes[i] \in Block
        BY <2>1
    <2>3. RemovedAt(v.nodes, i) > InitialTicket
        BY <1>1, <1>4, <2>2 DEF Struck, RemovedAt
    <2>4. v.nodes[i].removedAt \in Nat
        BY <1>4, <2>2 DEF Block
    <2> QED BY <2>3, <2>4 DEF RemovedAt, InitialTicket
<1>5. CleanupRemovedNodes(v, InitialTicket) = v
    BY <1>4 DEF CleanupRemovedNodes
<1> QED BY <1>3, <1>5

-----------------------------------------------------------------------------
(***************************************************************************)
(* The steps of the replicas                                               *)
(***************************************************************************)

\* A ground is one for all who have executed no less.
LEMMA GroundStays ==
    ASSUME NEW e, NEW S, NEW T, TextGround(e, S), Complete(S, T)
    PROVE  TextGround(e, T)
<1>1. PICK R, t :
        /\ Complete(R, S) /\ TextValue(t, R) /\ \A f \in R : At(f) < At(e)
        /\ e.op \in RichTextOperations(t, At(e))
    BY DEF TextGround
<1>2. Complete(R, T)
    BY <1>1 DEF Complete
<1> QED BY <1>1, <1>2 DEF TextGround

\* What an application does is a change, and its replica the ground.
LEMMA TextUpdates ==
    ASSUME Operation = RichTextOperation, NEW v, NEW S, S \subseteq Change, TextValue(v, S),
           NEW c \in Clients, NEW k \in Nat \ {0}, \A f \in S : f.lamport < k,
           NEW op \in RichTextOperations(v, TicketOf(k, c))
    PROVE  LET e == [op |-> op, actor |-> c, lamport |-> k]
           IN  e \in Change /\ TextGround(e, S)
<1> DEFINE e == [op |-> op, actor |-> c, lamport |-> k]
<1>1. e.op = op /\ e.actor = c /\ e.lamport = k /\ At(e) = TicketOf(k, c)
    BY DEF At
<1> HIDE DEF e
<1>2. At(e) \in Nat /\ LastLine < At(e)
    <2>1. 0 < k /\ 1 \in Clients
        BY NAssumption DEF Clients
    <2> QED BY <1>1, <2>1, TicketOrder, TicketType DEF LastLine
<1>3. \A f \in S : At(f) < At(e)
    <2> SUFFICES ASSUME NEW f \in S PROVE At(f) < At(e)
        OBVIOUS
    <2>1. f.lamport \in Nat /\ f.actor \in Clients /\ f.lamport < k
        BY DEF Change
    <2> QED BY <1>1, <2>1, TicketOrder DEF At
<1>4. PICK q, K : Saw(e, S, q, K)
    BY <1>1, <1>2, <1>3, OperationSaw
<1>5. op \in RichTextOperation
    BY <1>1, <1>4 DEF Saw
<1>6. e \in Change
    BY <1>5 DEF e, Change
<1>7. Complete(S, S)
    BY DEF Complete
<1>8. TextGround(e, S)
    BY <1>1, <1>3, <1>7 DEF TextGround
<1> QED BY <1>6, <1>8 DEF e

\* What a received change names is there.
LEMMA LookupsFind ==
    ASSUME NEW v, NEW S, S \subseteq Change, TextValue(v, S), NEW e \in Change,
           TextGround(e, S)
    PROVE  ~TextFails(v, e.op, At(e))
<1>1. PICK R, q, K : Complete(R, S) /\ Saw(e, R, q, K)
    BY GroundSaw
<1>2. /\ e.op.from \in Position /\ e.op.to \in Position /\ PlacesAt(e.op, R)
    BY <1>1 DEF Saw, Authored
<1>3. /\ Place(S, e.op.from.createdAt, Offset(e.op.from))
      /\ Place(S, e.op.to.createdAt, Offset(e.op.to))
    BY <1>1, <1>2, PlacesStay DEF PlacesAt, Complete
<1>4. v \in Text /\ Founded(S) /\ Structure(Nodes(v), S, Cuts(S))
    BY DEF TextValue, Nodes
<1>5. ~LookupFails(v, e.op.to)
    BY <1>3, <1>4, LookupFinds
<1> DEFINE s == SplitAt(v, e.op.to)
           M == Cuts(S) \cup {<<e.op.to.createdAt, Offset(e.op.to)>>}
<1>6. Structure(Nodes(s), S, M)
    BY <1>2, <1>3, <1>4, SplitKeeps
<1> HIDE DEF s, M
<1>7. ~LookupFails(s, e.op.from)
    BY <1>3, <1>4, <1>6, LookupFinds
<1> QED BY <1>5, <1>7 DEF TextFails, s

\* Every step of a replica keeps the value of its text one its changes lead to.
LEMMA TextSound == TextInstance => Sound(TextValues, TextGrounds)
<1> SUFFICES ASSUME TextInstance PROVE Sound(TextValues, TextGrounds)
    OBVIOUS
<1> DEFINE R == TextValues
           W == TextGrounds
<1>1. <<Empty, {}>> \in R
    <2>1. NewRichText \in Text
        BY NewValue DEF TextValue
    <2> QED BY <2>1, NewValue DEF TextInstance, TextValues
<1>2. ASSUME NEW v, NEW S, <<v, S>> \in R
      PROVE  v \in Text /\ S \subseteq Change /\ TextValue(v, S)
    BY <1>2 DEF TextValues
<1>3. ASSUME NEW v, NEW S, <<v, S>> \in R
      PROVE  <<Decoded(v), S>> \in R /\ <<GarbageCollect(v, InitialTicket), S>> \in R
    <2>1. v \in Text /\ S \subseteq Change /\ TextValue(v, S)
        BY <1>2, <1>3
    <2>2. Decoded(v) = DecodedText(v) /\ GarbageCollect(v, InitialTicket) = v
        BY <2>1, DecodedValue DEF TextInstance
    <2>3. TextValue(DecodedText(v), S)
        BY <2>1, DecodedValue
    <2>4. DecodedText(v) \in Text
        BY <2>3 DEF TextValue
    <2> QED BY <1>3, <2>1, <2>2, <2>3, <2>4 DEF TextValues
<1>4. ASSUME NEW e, NEW S, NEW T, <<e, S>> \in W, Complete(S, T), T \subseteq Change
      PROVE  <<e, T>> \in W
    <2>1. e \in Change /\ TextGround(e, S)
        BY <1>4 DEF TextGrounds
    <2>2. TextGround(e, T)
        BY <1>4, <2>1, GroundStays
    <2> QED BY <1>4, <2>1, <2>2 DEF TextGrounds
<1>5. ASSUME NEW v, NEW S, NEW c, NEW k, NEW op,
             <<v, S>> \in R, c \in Clients, k \in Nat \ {0}, \A f \in S : f.lamport < k,
             op \in Operations(v, TicketOf(k, c))
      PROVE  /\ [op |-> op, actor |-> c, lamport |-> k] \in Change
             /\ <<[op |-> op, actor |-> c, lamport |-> k], S>> \in W
    <2>1. v \in Text /\ S \subseteq Change /\ TextValue(v, S)
        BY <1>2, <1>5
    <2>2. Operation = RichTextOperation /\ op \in RichTextOperations(v, TicketOf(k, c))
        BY <1>5 DEF TextInstance
    <2> DEFINE e == [op |-> op, actor |-> c, lamport |-> k]
    <2>3. e \in Change /\ TextGround(e, S)
        BY <1>5, <2>1, <2>2, TextUpdates
    <2> HIDE DEF e
    <2>4. <<e, S>> \in W
        BY <2>1, <2>3 DEF TextGrounds
    <2> QED BY <2>3, <2>4 DEF e
<1>6. ASSUME NEW v, NEW S, NEW e, <<v, S>> \in R, S \subseteq Change,
             <<e, S>> \in W, e \in Change, \A f \in S : ~SameId(e, f)
      PROVE  <<Execute(v, e.op, At(e)), S \cup {e}>> \in R
    <2>1. TextValue(v, S) /\ TextGround(e, S)
        BY <1>2, <1>6 DEF TextGrounds
    <2>2. PICK G, q, K : Complete(G, S) /\ Saw(e, G, q, K)
        BY <1>6, <2>1, GroundSaw
    <2>3. \A f \in S : At(f) # At(e)
        <3> SUFFICES ASSUME NEW f \in S, At(f) = At(e) PROVE FALSE
            OBVIOUS
        <3>1. /\ f.lamport \in Nat /\ f.actor \in Clients
              /\ e.lamport \in Nat /\ e.actor \in Clients
            BY <1>6 DEF Change
        <3> QED BY <1>6, <3>1, TicketUnique DEF At, SameId
    <2> DEFINE r == RichTextExecute(v, e.op, At(e))
    <2>4. G \subseteq S
        BY <2>2 DEF Complete
    <2>5. e.op.type = "edit" \/ e.op.type = "style"
        <3>1. e.op \in RichTextOperation
            BY <2>2 DEF Saw
        <3> QED BY <3>1 DEF RichTextOperation
    <2>6. TextValue(r, S \cup {e})
        <3>1. CASE e.op.type = "edit"
            BY <1>6, <2>1, <2>2, <2>3, <3>1, EditValue
        <3>2. CASE e.op.type = "style"
            BY <2>1, <2>2, <2>3, <2>4, <3>2, StyleValue
        <3> QED BY <2>5, <3>1, <3>2
    <2>7. Execute(v, e.op, At(e)) = r
        BY DEF TextInstance
    <2> HIDE DEF r
    <2>8. r \in Text /\ S \cup {e} \subseteq Change
        BY <1>6, <2>6 DEF TextValue
    <2> QED BY <2>6, <2>7, <2>8 DEF TextValues
<1> HIDE DEF R, W
<1> QED BY <1>1, <1>3, <1>4, <1>5, <1>6 DEF Sound, R, W

-----------------------------------------------------------------------------
(***************************************************************************)
(* The theorems                                                            *)
(***************************************************************************)

\* The text of every replica is one its changes lead to.
LEMMA ReplicaTexts ==
    ASSUME TextInstance, ExecInv, NEW c \in Clients, c \notin dead
    PROVE  Executed(c) \subseteq Change /\ TextValue(data[c], Executed(c))
<1>1. ValuesInv(TextValues)
    BY TextSound DEF ExecInv, ExecutionsInv
<1>2. <<data[c], Executed(c)>> \in TextValues
    BY <1>1 DEF ValuesInv
<1> QED BY <1>2 DEF TextValues

\* Replicas that have executed the same edits and styles, whatever order these came
\* in and whether one by one or in snapshots, have cut the text into the same blocks
\* and have them in the same order (RGATreeSplit.edit, findNodeWithSplit and split).
THEOREM BlocksAgree == ASSUME TextInstance PROVE Spec => []SameOrder
<1>1. Spec => []ExecInv
    <2>1. ~Collecting
        BY DEF TextInstance
    <2> QED BY <2>1, Execution
<1>2. ExecInv => SameOrder
    <2> SUFFICES ASSUME ExecInv, NEW c \in Clients, NEW d \in Clients, SameChanges(c, d)
                 PROVE  [i \in DOMAIN data[c].nodes |-> ID(data[c].nodes[i])] =
                        [i \in DOMAIN data[d].nodes |-> ID(data[d].nodes[i])]
        BY DEF SameOrder
    <2> DEFINE S == Executed(c)
               q == data[c].nodes
               r == data[d].nodes
    <2>1. c \notin dead /\ d \notin dead /\ Executed(d) = S
        BY SameExecuted
    <2>2. TextValue(data[c], S) /\ TextValue(data[d], S)
        BY <2>1, ReplicaTexts
    <2>3. Founded(S) /\ Structure(q, S, Cuts(S)) /\ Structure(r, S, Cuts(S))
        BY <2>2 DEF TextValue
    <2> HIDE DEF S, q, r
    <2>4. /\ Len(q) = Len(r)
          /\ \A i \in 1 .. Len(q) : Of(r, i) = Of(q, i) /\ Start(r, i) = Start(q, i)
        BY <2>3, SameStructure
    <2>5. DOMAIN q = 1 .. Len(q) /\ DOMAIN r = 1 .. Len(q)
        BY <2>3, <2>4, BlockFacts
    <2>6. \A i \in 1 .. Len(q) : ID(q[i]) = ID(r[i])
        BY <2>4 DEF ID, Of, Start
    <2> QED BY <2>5, <2>6 DEF q, r
<1> QED BY <1>1, <1>2, PTL

\* The operations find their places, so no replica stops.
LEMMA TextNeverFails == TextInstance => NeverFails(TextValues, TextGrounds)
<1>1. ASSUME NEW v, NEW S, NEW e, <<v, S>> \in TextValues, S \subseteq Change,
             <<e, S>> \in TextGrounds, e \in Change
      PROVE  ~TextFails(v, e.op, At(e))
    <2>1. TextValue(v, S) /\ TextGround(e, S)
        BY <1>1 DEF TextValues, TextGrounds
    <2> QED BY <1>1, <2>1, LookupsFind
<1>2. ASSUME TextInstance, NEW v, NEW S, NEW e, <<v, S>> \in TextValues, S \subseteq Change,
             <<e, S>> \in TextGrounds, e \in Change
      PROVE  ~Fails(v, e.op, At(e))
    <2>1. Fails(v, e.op, At(e)) = TextFails(v, e.op, At(e))
        BY <1>2 DEF TextInstance
    <2> QED BY <1>1, <1>2, <2>1
<1> QED BY <1>2 DEF NeverFails

\* Nowhere has an operation failed.
LEMMA TextAlive == TextInstance /\ ExecInv => NoFatal
BY TextNeverFails, TextSound DEF ExecInv, ExecutionsInv

\* No edit or style, local or received, names a place its replica cannot find, so
\* none ends a client (RGATreeSplit.findFloorNodePreferToLeft).
THEOREM TextRuns == ASSUME TextInstance PROVE Spec => []NoFatal
<1>1. Spec => []ExecInv
    <2>1. ~Collecting
        BY DEF TextInstance
    <2> QED BY <2>1, Execution
<1>2. ExecInv => NoFatal
    BY TextAlive
<1> QED BY <1>1, <1>2, PTL

\* Every character that a replica has removed is one that the author of an edit the
\* replica has executed saw disappear: latestCreatedAtMapByActor keeps what others
\* insert meanwhile into the range (RGATreeSplit.deleteNodes, RGATreeSplitNode.Remove).
THEOREM DeletionsSeen == ASSUME TextInstance PROVE Spec => []OnlySelectedDeleted
<1>1. Spec => []ExecInv
    <2>1. ~Collecting
        BY DEF TextInstance
    <2> QED BY <2>1, Execution
<1>2. ExecInv => OnlySelectedDeleted
    <2> SUFFICES ASSUME ExecInv, NEW c \in Clients
                 PROVE  Removed(data[c]) \subseteq SeenDeleted(c)
        BY DEF OnlySelectedDeleted
    <2> DEFINE S == Executed(c)
               q == data[c].nodes
    <2>1. c \notin dead
        BY TextAlive DEF NoFatal
    <2>2. Founded(S) /\ Structure(q, S, Cuts(S)) /\ Struck(q, S)
        BY <2>1, ReplicaTexts DEF TextValue
    <2>3. SeenDeleted(c) = Dropped(S)
        BY DEF SeenDeleted, Dropped
    <2>4. Removed(data[c]) = UNION {CharsAt(q, i) : i \in {j \in DOMAIN q : RemovedAt(q, j) # Nil}}
        BY DEF Removed, CharsAt, RemovedAt
    <2> HIDE DEF S, q
    <2>5. \A i \in DOMAIN q : RemovedAt(q, i) # Nil => CharsAt(q, i) \subseteq Dropped(S)
        BY <2>2, BlockFacts DEF Struck
    <2> QED BY <2>3, <2>4, <2>5
<1> QED BY <1>1, <1>2, PTL

\* The largest number of a set is what Latest says.
LEMMA LatestIsMax ==
    ASSUME NEW a, NEW V, V \subseteq Nat, Latest(a, V)
    PROVE  a = Max({InitialTicket} \cup V)
<1> DEFINE D == {InitialTicket} \cup V
<1>1. D \subseteq Nat
    BY DEF InitialTicket
<1>2. a \in D /\ \A y \in D : y <= a
    BY DEF Latest
<1> HIDE DEF D
<1>3. a \in Nat /\ \A y \in D : a >= y
    BY <1>1, <1>2
<1>4. \A b \in D : (\A y \in D : b >= y) => b = a
    BY <1>1, <1>2, <1>3
<1>5. Max(D) = a
    BY <1>2, <1>3, <1>4 DEF Max
<1> QED BY <1>5 DEF D

\* However the edits that split its block, the styles and the snapshots came, a
\* character all authors of styles knew has the attribute of the latest style whose
\* author selected it, or of its insertion (RichText.SetStyle, RHT.Set and
\* RGATreeSplitNode.split).
THEOREM StylesHold == ASSUME TextInstance PROVE Spec => []StyledAsSelected
<1>1. Spec => []ExecInv
    <2>1. ~Collecting
        BY DEF TextInstance
    <2> QED BY <2>1, Execution
<1>2. ExecInv => StyledAsSelected
    <2> SUFFICES ASSUME ExecInv, NEW c \in Clients, Ready(c),
                        NEW i \in DOMAIN data[c].nodes,
                        \A s \in {f \in Executed(c) : f.op.type = "style"} :
                            data[c].nodes[i].createdAt \in s.op.seen,
                        NEW x \in Chars(data[c].nodes[i])
                 PROVE  data[c].nodes[i].attrs = Max({InitialTicket} \cup Setters(Executed(c), x))
        BY DEF StyledAsSelected
    <2> DEFINE S == Executed(c)
               q == data[c].nodes
    <2>1. Known(S, Of(q, i)) /\ x \in CharsAt(q, i) /\ i \in DOMAIN q
        BY DEF Known, Of, CharsAt
    <2>2. c \notin dead
        BY DEF Ready
    <2>3. Founded(S) /\ Structure(q, S, Cuts(S)) /\ Dressed(q, S)
        BY <2>2, ReplicaTexts DEF TextValue
    <2>4. data[c].nodes[i].attrs = Attrs(q, i)
        BY DEF Attrs
    <2> HIDE DEF S, q
    <2>5. Latest(Attrs(q, i), Setters(S, x))
        BY <2>1, <2>3, BlockFacts DEF Dressed
    <2>6. \A f \in S : At(f) \in Nat
        BY <2>3 DEF Founded
    <2>7. Setters(S, x) \subseteq Nat
        BY <2>6 DEF Setters
    <2>8. Attrs(q, i) = Max({InitialTicket} \cup Setters(S, x))
        BY <2>5, <2>7, LatestIsMax
    <2> QED BY <2>4, <2>8 DEF S
<1> QED BY <1>1, <1>2, PTL
=============================================================================
