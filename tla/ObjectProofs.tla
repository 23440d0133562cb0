---------------------------- MODULE ObjectProofs ----------------------------
(***************************************************************************)
(* The replicas of an object and of the counters in it, with any number of *)
(* clients and changes: each shows what the changes it has executed call   *)
(* for, in whatever order they came, and nothing that is gone comes back.  *)
(***************************************************************************)
EXTENDS ObjectReplicas, ReplicasProofs, FiniteSetTheorems

-----------------------------------------------------------------------------
(***************************************************************************)
(* Sums over sets of changes                                               *)
(***************************************************************************)

\* The sum of the values of a set of changes, as Winner takes it.
Total(T) == MapThenSumSet(LAMBDA i : i.op.value, T)

Chosen(T) == CHOOSE x \in T : TRUE
TotalStep(f, s) == IF s = {} THEN 0 ELSE Chosen(s).op.value + f[s \ {Chosen(s)}]
IsTotal(f, T) == f = [s \in SUBSET T |-> TotalStep(f, s)]

LEMMA TotalIs == ASSUME NEW T PROVE Total(T) = (CHOOSE f : IsTotal(f, T))[T]
BY DEF Total, MapThenSumSet, MapThenFoldSet, IsTotal, TotalStep, Chosen

\* What holds of every subset of a finite set of which all that lack one of its
\* elements have it, holds of the set.
LEMMA FiniteInduction ==
    ASSUME NEW T, IsFiniteSet(T),
           NEW P, \A s \in SUBSET T : (\A x \in s : s \ {x} \in P) => s \in P
    PROVE  T \in P
<1> DEFINE B == {n \in Nat : \E s \in SUBSET T : Cardinality(s) = n /\ s \notin P}
<1> SUFFICES ASSUME T \notin P PROVE FALSE
    OBVIOUS
<1>1. Cardinality(T) \in B /\ B \subseteq Nat
    BY FS_CardinalityType
<1>2. PICK n \in B : \A m \in B : n <= m
    <2> HIDE DEF B
    <2> QED BY <1>1, LeastNatural
<1>3. PICK s \in SUBSET T : Cardinality(s) = n /\ s \notin P
    BY <1>2
<1>4. IsFiniteSet(s)
    BY FS_Subset
<1>5. ASSUME NEW x \in s
      PROVE  s \ {x} \in P
    <2>1. IsFiniteSet(s \ {x}) /\ Cardinality(s \ {x}) = n - 1
        BY <1>3, <1>4, FS_RemoveElement
    <2>2. n - 1 \in Nat /\ n \in Nat
        BY <1>1, <2>1, FS_CardinalityType
    <2>3. ~(n <= n - 1)
        BY <2>2
    <2>4. n - 1 \notin B
        <3> HIDE DEF B
        <3> QED BY <1>2, <2>3
    <2>5. s \ {x} \in SUBSET T
        OBVIOUS
    <2> QED BY <2>1, <2>2, <2>4, <2>5
<1> QED BY <1>3, <1>5

\* Two such functions agree where both are defined.
LEMMA TotalUnique ==
    ASSUME NEW T, NEW U, NEW f, NEW g, IsTotal(f, T), IsTotal(g, U),
           NEW S, IsFiniteSet(S), S \subseteq T, S \subseteq U
    PROVE  f[S] = g[S]
<1> DEFINE P == {s \in SUBSET S : f[s] = g[s]}
<1>1. ASSUME NEW s \in SUBSET S, \A x \in s : s \ {x} \in P
      PROVE  s \in P
    <2>1. f[s] = TotalStep(f, s) /\ g[s] = TotalStep(g, s)
        BY DEF IsTotal
    <2>2. CASE s = {}
        BY <2>1, <2>2 DEF TotalStep
    <2>3. CASE s # {}
        <3>1. Chosen(s) \in s
            BY <2>3 DEF Chosen
        <3>2. f[s \ {Chosen(s)}] = g[s \ {Chosen(s)}]
            BY <1>1, <3>1
        <3> QED BY <2>1, <2>3, <3>2 DEF TotalStep
    <2> QED BY <2>2, <2>3
<1> HIDE DEF P
<1>2. S \in P
    BY <1>1, FiniteInduction
<1> QED BY <1>2 DEF P

\* The recursive function of the sum is there, for finite sets.
LEMMA TotalFcn ==
    ASSUME NEW T, IsFiniteSet(T)
    PROVE  \E f : IsTotal(f, T)
<1> DEFINE P == {s \in SUBSET T : \A r \in SUBSET s : \E f : IsTotal(f, r)}
<1>1. ASSUME NEW s \in SUBSET T, \A x \in s : s \ {x} \in P
      PROVE  s \in P
    <2> DEFINE G == [q \in SUBSET s |-> Total(q)]
               h == [q \in SUBSET s |-> TotalStep(G, q)]
    <2>1. ASSUME NEW r \in SUBSET s, r # s
          PROVE  \E f : IsTotal(f, r)
        <3>1. PICK x \in s : x \notin r
            BY <2>1
        <3>2. r \in SUBSET (s \ {x})
            BY <3>1
        <3> QED BY <1>1, <3>2
    <2>2. ASSUME NEW r \in SUBSET s, r # s
          PROVE  \E f : IsTotal(f, r) /\ Total(r) = f[r]
        <3> DEFINE f == CHOOSE f : IsTotal(f, r)
        <3>1. IsTotal(f, r)
            BY <2>1, <2>2
        <3>2. Total(r) = f[r]
            BY TotalIs
        <3> HIDE DEF f
        <3> QED BY <3>1, <3>2
    <2>3. ASSUME NEW q \in SUBSET s, q # s
          PROVE  h[q] = G[q]
        <3>1. PICK f : IsTotal(f, q) /\ Total(q) = f[q]
            BY <2>2, <2>3
        <3>2. f[q] = TotalStep(f, q)
            BY <3>1 DEF IsTotal
        <3>3. CASE q = {}
            BY <3>1, <3>2, <3>3 DEF TotalStep
        <3>4. CASE q # {}
            <4> DEFINE p == q \ {Chosen(q)}
            <4>1. p \in SUBSET s /\ p # s /\ p \subseteq q
                BY <2>3, <3>4 DEF Chosen
            <4>2. PICK g : IsTotal(g, p) /\ Total(p) = g[p]
                BY <2>2, <4>1
            <4>3. IsFiniteSet(p)
                BY <4>1, FS_Subset
            <4>4. f[p] = g[p]
                BY <3>1, <4>1, <4>2, <4>3, TotalUnique
            <4>5. G[p] = f[p]
                BY <4>1, <4>2, <4>4
            <4>6. TotalStep(G, q) = TotalStep(f, q)
                BY <3>4, <4>5 DEF TotalStep
            <4> QED BY <3>1, <3>2, <4>6
        <3> QED BY <3>3, <3>4
    <2>4. ASSUME NEW r \in SUBSET s
          PROVE  h[r] = TotalStep(h, r)
        <3>1. CASE r = {}
            BY <3>1 DEF TotalStep
        <3>2. CASE r # {}
            <4> DEFINE p == r \ {Chosen(r)}
            <4>1. p \in SUBSET s /\ p # s
                BY <3>2 DEF Chosen
            <4>2. h[p] = G[p]
                BY <2>3, <4>1
            <4>3. TotalStep(G, r) = TotalStep(h, r)
                <5> HIDE DEF G, h
                <5> QED BY <3>2, <4>2 DEF TotalStep
            <4> QED BY <4>3
        <3> QED BY <3>1, <3>2
    <2>5. h = [r \in SUBSET s |-> TotalStep(h, r)]
        <3>1. h = [r \in SUBSET s |-> h[r]]
            OBVIOUS
        <3> HIDE DEF h
        <3> QED BY <2>4, <3>1
    <2>6. IsTotal(h, s)
        <3> HIDE DEF h
        <3> QED BY <2>5 DEF IsTotal
    <2> HIDE DEF h
    <2> QED BY <2>1, <2>6
<1> HIDE DEF P
<1>2. T \in P
    BY <1>1, FiniteInduction
<1> QED BY <1>2 DEF P

\* So a sum is that of all but one of the set, and the value of the one.
LEMMA TotalChosen ==
    ASSUME NEW T, IsFiniteSet(T), T # {}
    PROVE  Chosen(T) \in T /\ Total(T) = Chosen(T).op.value + Total(T \ {Chosen(T)})
<1> DEFINE p == T \ {Chosen(T)}
           f == CHOOSE f : IsTotal(f, T)
           g == CHOOSE g : IsTotal(g, p)
<1>1. IsFiniteSet(p)
    BY FS_Subset
<1>2. IsTotal(f, T) /\ Total(T) = f[T]
    BY TotalFcn, TotalIs
<1>3. IsTotal(g, p) /\ Total(p) = g[p]
    BY <1>1, TotalFcn, TotalIs
<1> HIDE DEF f, g
<1>4. f[p] = g[p]
    BY <1>1, <1>2, <1>3, TotalUnique
<1>5. f[T] = Chosen(T).op.value + f[p]
    BY <1>2 DEF IsTotal, TotalStep
<1>6. Chosen(T) \in T
    BY DEF Chosen
<1> QED BY <1>2, <1>3, <1>4, <1>5, <1>6

LEMMA TotalEmpty == ASSUME NEW T, T = {} PROVE Total(T) = 0
<1> DEFINE f == CHOOSE f : IsTotal(f, T)
<1>1. IsTotal(f, T) /\ Total(T) = f[T]
    BY TotalFcn, TotalIs, FS_EmptySet
<1> HIDE DEF f
<1> QED BY <1>1 DEF IsTotal, TotalStep

LEMMA TotalType ==
    ASSUME NEW T, IsFiniteSet(T), \A x \in T : x.op.value \in Int
    PROVE  Total(T) \in Int
<1> DEFINE P == {s \in SUBSET T : Total(s) \in Int}
<1>1. ASSUME NEW s \in SUBSET T, \A x \in s : s \ {x} \in P
      PROVE  s \in P
    <2>1. CASE s = {}
        BY <2>1, TotalEmpty
    <2>2. CASE s # {}
        <3>1. IsFiniteSet(s)
            BY FS_Subset
        <3>2. Chosen(s) \in s /\ Total(s) = Chosen(s).op.value + Total(s \ {Chosen(s)})
            BY <2>2, <3>1, TotalChosen
        <3>3. Total(s \ {Chosen(s)}) \in Int
            BY <1>1, <3>2
        <3> QED BY <3>2, <3>3
    <2> QED BY <2>1, <2>2
<1> HIDE DEF P
<1>2. T \in P
    BY <1>1, FiniteInduction
<1> QED BY <1>2 DEF P

\* It does not matter which one.
LEMMA TotalAny ==
    ASSUME NEW T, IsFiniteSet(T), \A x \in T : x.op.value \in Int
    PROVE  \A e \in T : Total(T) = e.op.value + Total(T \ {e})
<1> DEFINE P == {s \in SUBSET T : \A e \in s : Total(s) = e.op.value + Total(s \ {e})}
<1>1. ASSUME NEW s \in SUBSET T, \A x \in s : s \ {x} \in P
      PROVE  s \in P
    <2> SUFFICES ASSUME NEW e \in s PROVE Total(s) = e.op.value + Total(s \ {e})
        OBVIOUS
    <2> DEFINE c == Chosen(s)
    <2>1. IsFiniteSet(s)
        BY FS_Subset
    <2>2. c \in s /\ Total(s) = c.op.value + Total(s \ {c})
        BY <2>1, TotalChosen
    <2> HIDE DEF c
    <2>3. CASE e = c
        BY <2>2, <2>3
    <2>4. CASE e # c
        <3> DEFINE r == s \ {c, e}
        <3>1. r = (s \ {c}) \ {e} /\ r = (s \ {e}) \ {c}
            OBVIOUS
        <3>2. Total(s \ {c}) = e.op.value + Total(r)
            BY <1>1, <2>2, <2>4, <3>1
        <3>3. Total(s \ {e}) = c.op.value + Total(r)
            BY <1>1, <2>2, <2>4, <3>1
        <3>4. Total(r) \in Int
            <4>1. IsFiniteSet(r) /\ r \subseteq T
                BY <2>1, FS_Subset
            <4> HIDE DEF r
            <4> QED BY <4>1, TotalType
        <3>5. c.op.value \in Int /\ e.op.value \in Int
            BY <2>2
        <3> HIDE DEF r
        <3> QED BY <2>2, <3>2, <3>3, <3>4, <3>5
    <2> QED BY <2>3, <2>4
<1> HIDE DEF P
<1>2. T \in P
    BY <1>1, FiniteInduction
<1> QED BY <1>2 DEF P

LEMMA TotalAdd ==
    ASSUME NEW T, IsFiniteSet(T), \A x \in T : x.op.value \in Int,
           NEW e, e \notin T, e.op.value \in Int
    PROVE  Total(T \cup {e}) = Total(T) + e.op.value
<1> DEFINE U == T \cup {e}
<1>1. IsFiniteSet(U)
    BY FS_AddElement
<1>2. e \in U /\ U \ {e} = T /\ \A x \in U : x.op.value \in Int
    OBVIOUS
<1> HIDE DEF U
<1>3. Total(U) = e.op.value + Total(U \ {e})
    BY <1>1, <1>2, TotalAny
<1>4. Total(T) \in Int
    BY TotalType
<1>5. Total(U) = e.op.value + Total(T)
    BY <1>2, <1>3
<1> QED BY <1>4, <1>5 DEF U

-----------------------------------------------------------------------------
(***************************************************************************)
(* Numbers of 64 bits                                                      *)
(***************************************************************************)

Longs == -MaxLong - 1 .. MaxLong

LEMMA QuotientUnique ==
    ASSUME NEW K \in Nat \ {0}, NEW p \in Int, NEW q \in Int,
           NEW r \in 0 .. (K - 1), NEW s \in 0 .. (K - 1), K * p + r = K * q + s
    PROVE  r = s
<1>1. K * (p - q) = s - r
    OBVIOUS
<1>2. CASE p - q >= 1
    <2>1. K * (p - q) >= K
        BY <1>2
    <2> QED BY <1>1, <2>1
<1>3. CASE q - p >= 1
    <2>1. K * (q - p) >= K
        BY <1>3
    <2> QED BY <1>1, <2>1
<1>4. CASE p = q
    BY <1>1, <1>4
<1> QED BY <1>2, <1>3, <1>4

\* A wrapped number is the one of 64 bits that differs by a multiple of 2^64.
LEMMA WrappedType ==
    ASSUME NEW v \in Int
    PROVE  Wrapped(v) \in Longs /\ \E q \in Int : v = 2 * (MaxLong + 1) * q + Wrapped(v)
<1> DEFINE K == 2 * (MaxLong + 1)
           x == v + MaxLong + 1
           q == x \div K
<1>1. K \in Nat \ {0} /\ x \in Int /\ MaxLong \in Nat
    BY WidthAssumption
<1> HIDE DEF K, x
<1>2. x % K \in 0 .. (K - 1) /\ q \in Int /\ x = (K * q) + (x % K)
    BY <1>1
<1> HIDE DEF q
<1>3. Wrapped(v) = (x % K) - (MaxLong + 1)
    BY DEF Wrapped, x, K
<1>4. v = K * q + Wrapped(v)
    BY <1>1, <1>2, <1>3 DEF x
<1>5. Wrapped(v) \in Longs
    BY <1>1, <1>2, <1>3 DEF Longs, K
<1> QED BY <1>2, <1>4, <1>5 DEF K

LEMMA WrappedIs ==
    ASSUME NEW v \in Int, NEW w \in Longs, NEW q \in Int, v = 2 * (MaxLong + 1) * q + w
    PROVE  Wrapped(v) = w
<1> DEFINE K == 2 * (MaxLong + 1)
           r == Wrapped(v) + MaxLong + 1
           s == w + MaxLong + 1
<1>1. K \in Nat \ {0} /\ MaxLong \in Nat
    BY WidthAssumption
<1>2. Wrapped(v) \in Longs
    BY WrappedType
<1>3. PICK p \in Int : v = K * p + Wrapped(v)
    BY WrappedType
<1>4. r \in 0 .. (K - 1) /\ s \in 0 .. (K - 1)
    BY <1>1, <1>2 DEF Longs
<1>5. v = K * q + w
    OBVIOUS
<1>6. Wrapped(v) \in Int /\ w \in Int
    BY <1>1, <1>2 DEF Longs
<1> HIDE DEF K
<1>7. K * p + r = K * q + s
    <2> DEFINE y == Wrapped(v)
    <2>1. K \in Int /\ K * p \in Int /\ K * q \in Int
        BY <1>1
    <2>2. y \in Int /\ K * p + y = K * q + w
        BY <1>3, <1>5, <1>6
    <2> HIDE DEF y
    <2>3. K * p + (y + MaxLong + 1) = K * q + (w + MaxLong + 1)
        BY <1>1, <1>6, <2>1, <2>2
    <2> QED BY <2>3 DEF y
<1> HIDE DEF r, s
<1>8. r = s
    BY <1>1, <1>4, <1>7, QuotientUnique
<1> QED BY <1>1, <1>6, <1>8 DEF r, s

LEMMA WrappedLong == ASSUME NEW v \in Longs PROVE Wrapped(v) = v
<1>1. v \in Int /\ v = 2 * (MaxLong + 1) * 0 + v
    BY WidthAssumption DEF Longs
<1> QED BY <1>1, WrappedIs

\* Wrapping on the way makes no difference.
LEMMA WrappedTwice ==
    ASSUME NEW v \in Int, NEW i \in Int
    PROVE  Wrapped(Wrapped(v) + i) = Wrapped(v + i)
<1> DEFINE K == 2 * (MaxLong + 1)
           x == Wrapped(v)
           y == Wrapped(v + i)
<1>1. K \in Int /\ MaxLong \in Nat
    BY WidthAssumption
<1>2. PICK p \in Int : v = K * p + x
    BY WrappedType
<1>3. PICK q \in Int : v + i = K * q + y
    BY WrappedType
<1>4. y \in Longs /\ x \in Longs
    BY WrappedType
<1>5. x \in Int /\ y \in Int
    BY <1>1, <1>4 DEF Longs
<1> HIDE DEF K, x, y
<1>6. x + i = K * (q - p) + y
    BY <1>1, <1>2, <1>3, <1>5
<1> DEFINE z == q - p
           w == x + i
<1>7. z \in Int /\ w \in Int
    BY <1>5
<1>8. w = K * z + y
    BY <1>6
<1> HIDE DEF z, w
<1>9. Wrapped(w) = y
    BY <1>4, <1>7, <1>8, WrappedIs DEF K
<1> QED BY <1>9 DEF w, x, y

-----------------------------------------------------------------------------
(***************************************************************************)
(* What the executed changes make of an object                             *)
(***************************************************************************)

\* The element of Replicas is an object, and nothing is collected.
ObjectInstance ==
    /\ Operation = ObjectOperation
    /\ Empty = NewObject
    /\ \A o, at : Operations(o, at) = ObjectOperations(o, at)
    /\ \A o, op, at : Fails(o, op, at) = ObjectFails(o, op, at)
    /\ \A o, op, at : Execute(o, op, at) = ObjectExecute(o, op, at)
    /\ \A o, ticket : GarbageCollect(o, ticket) = Purge(o, ticket)
    /\ \A o : Decoded(o) = DecodedObject(o)
    /\ Collecting = FALSE

\* What is asked of the executed changes: every Set has made the element of its
\* ticket, and every Remove and Increase names one of these.
SetIds(S) == {s.op.elem : s \in {t \in S : t.op.kind = "set"}}
ObjectChanges(S) ==
    /\ S \subseteq Change /\ IsFiniteSet(S)
    /\ \A e, f \in S : SameId(e, f) => e = f
    /\ \A e \in S :
        /\ e.op.kind \in {"set", "remove", "increase"}
        /\ e.op.kind = "set" => e.op.elem = At(e) /\ e.op.value \in Longs
        /\ e.op.kind \in {"remove", "increase"} => e.op.elem \in SetIds(S)

\* What a Set with all that names its element makes of the element.  It is removed
\* if a Remove names it; a later Set of the key may have removed it too.
NodeOf(n, s, S) ==
    /\ n.createdAt = s.op.elem /\ n.key = s.op.key
    /\ n.counter.value = Wrapped(s.op.value + Total(Named(S, "increase", s.op.elem)))
    /\ n.removedAt # 0
    /\ Named(S, "remove", s.op.elem) # {} => n.removedAt # Nil
    /\ n.removedAt # Nil =>
        \/ Named(S, "remove", s.op.elem) # {}
        \/ \E u \in Sets(S, s.op.key) : u.op.elem > s.op.elem

ObjectValue(o, S) ==
    /\ ObjectChanges(S)
    /\ \A m, n \in o.nodes : m.createdAt = n.createdAt => m = n
    /\ \A s \in S : s.op.kind = "set" => \E n \in o.nodes : NodeOf(n, s, S)
    /\ \A n \in o.nodes : \E s \in S : s.op.kind = "set" /\ NodeOf(n, s, S)
    /\ \A k \in o.queues : Sets(S, k) # {}
ObjectValues == {p \in Object \X SUBSET Change : ObjectValue(p[1], p[2])}

\* What an author of a change has executed before.
ObjectGround(e, S) ==
    /\ e.op.kind = "set" => e.op.elem = At(e) /\ e.op.value \in Longs
    /\ e.op.kind \in {"remove", "increase"} => e.op.elem \in SetIds(S) /\ e.op.elem < At(e)
ObjectGrounds == {p \in Change \X SUBSET Change : ObjectGround(p[1], p[2])}

LEMMA ChangeType ==
    ASSUME Operation = ObjectOperation, NEW e \in Change
    PROVE  /\ e.op.kind \in {"set", "remove", "increase"} /\ e.op.key \in Keys
           /\ e.op.elem \in Nat \cup {Nil} /\ e.op.value \in Int
           /\ At(e) \in Nat \ {0}
<1>1. e.lamport \in Nat \ {0} /\ e.actor \in Clients /\ e.op \in Operation
    BY DEF Change
<1>2. At(e) \in Nat \ {0}
    BY <1>1, TicketType DEF At
<1> QED BY <1>1, <1>2 DEF ObjectOperation

\* The Set of an element is one.
LEMMA SetOnce ==
    ASSUME NEW S, ObjectChanges(S), NEW s \in S, NEW t \in S,
           s.op.kind = "set", t.op.kind = "set", s.op.elem = t.op.elem
    PROVE  s = t
<1>1. At(s) = At(t) /\ s \in Change /\ t \in Change
    BY DEF ObjectChanges
<1> QED BY <1>1, TicketUnique DEF ObjectChanges

\* What a change of a new ID adds to the changes.
LEMMA ChangesNext ==
    ASSUME Operation = ObjectOperation, NEW S, ObjectChanges(S), NEW e \in Change,
           ObjectGround(e, S), \A f \in S : ~SameId(e, f)
    PROVE  /\ ObjectChanges(S \cup {e}) /\ e \notin S
           /\ At(e) \in Nat \ {0} /\ At(e) \notin SetIds(S) /\ SetIds(S) \subseteq Nat
<1> DEFINE U == S \cup {e}
<1>1. U \subseteq Change /\ IsFiniteSet(U)
    BY FS_AddElement DEF ObjectChanges
<1>2. e \notin S /\ \A f, g \in U : SameId(f, g) => f = g
    BY DEF ObjectChanges, SameId
<1>3. SetIds(S) \subseteq SetIds(U)
    BY DEF SetIds
<1>4. \A f \in U : f.op.kind \in {"set", "remove", "increase"}
    BY <1>1, ChangeType
<1>5. ObjectChanges(U)
    BY <1>1, <1>2, <1>3, <1>4 DEF ObjectChanges, ObjectGround
<1>6. At(e) \notin SetIds(S)
    <2> SUFFICES ASSUME NEW f \in S, f.op.kind = "set", f.op.elem = At(e) PROVE FALSE
        BY DEF SetIds
    <2>1. At(f) = At(e) /\ f \in Change
        BY DEF ObjectChanges
    <2> QED BY <2>1, TicketUnique DEF SameId
<1>7. SetIds(S) \subseteq Nat
    <2> SUFFICES ASSUME NEW f \in S, f.op.kind = "set" PROVE f.op.elem \in Nat
        BY DEF SetIds
    <2>1. f.op.elem = At(f) /\ f \in Change
        BY DEF ObjectChanges
    <2> QED BY <2>1, ChangeType
<1> QED BY <1>2, <1>5, <1>6, <1>7, ChangeType

LEMMA NamedFacts ==
    ASSUME Operation = ObjectOperation, NEW S, ObjectChanges(S), NEW kind, NEW t
    PROVE  /\ IsFiniteSet(Named(S, kind, t))
           /\ \A x \in Named(S, kind, t) : x.op.value \in Int
           /\ Total(Named(S, kind, t)) \in Int
<1> DEFINE T == Named(S, kind, t)
<1>1. T \subseteq S
    BY DEF Named
<1>2. IsFiniteSet(T)
    BY <1>1, FS_Subset DEF ObjectChanges
<1>3. \A x \in T : x \in Change
    BY <1>1 DEF ObjectChanges
<1>4. \A x \in T : x.op.value \in Int
    BY <1>3, ChangeType
<1> HIDE DEF T
<1>5. Total(T) \in Int
    BY <1>2, <1>4, TotalType
<1> QED BY <1>2, <1>4, <1>5 DEF T

\* A change that does not name an element changes nothing of what is said of it.
LEMMA NodeSame ==
    ASSUME NEW S, NEW e, NEW s, NEW n, NodeOf(n, s, S),
           e.op.kind \in {"remove", "increase"} => e.op.elem # s.op.elem
    PROVE  NodeOf(n, s, S \cup {e})
<1>1. \A kind \in {"remove", "increase"} :
        Named(S \cup {e}, kind, s.op.elem) = Named(S, kind, s.op.elem)
    BY DEF Named
<1>2. Sets(S, s.op.key) \subseteq Sets(S \cup {e}, s.op.key)
    BY DEF Sets
<1> QED BY <1>1, <1>2 DEF NodeOf

-----------------------------------------------------------------------------
(***************************************************************************)
(* Set, Remove and Increase                                                *)
(***************************************************************************)

\* Element.Remove changes only removedAt, and that only of an older element.
LEMMA RemoveFacts ==
    ASSUME NEW n \in Node, NEW at \in Nat \ {0}
    PROVE  /\ Remove(n, at) \in Node
           /\ Remove(n, at).createdAt = n.createdAt /\ Remove(n, at).key = n.key
           /\ Remove(n, at).counter = n.counter
           /\ Remove(n, at).removedAt \in {n.removedAt, at}
           /\ Remove(n, at).removedAt # n.removedAt => at > n.createdAt
           /\ n.removedAt # Nil \/ at > n.createdAt => Remove(n, at).removedAt # Nil
<1>1. n.removedAt \in Nat \cup {Nil} /\ n.createdAt \in Nat /\ at \in Nat /\ Nil \notin Nat
    BY DEF Node, Nil
<1>2. [n EXCEPT !.removedAt = at] \in Node
    BY DEF Node
<1>3. CASE at > n.createdAt /\ (n.removedAt = Nil \/ at > n.removedAt)
    <2>1. Remove(n, at) = [n EXCEPT !.removedAt = at]
        BY <1>3 DEF Remove
    <2>2. /\ Remove(n, at).createdAt = n.createdAt /\ Remove(n, at).key = n.key
          /\ Remove(n, at).counter = n.counter /\ Remove(n, at).removedAt = at
        BY <2>1 DEF Node
    <2> QED BY <1>1, <1>2, <1>3, <2>1, <2>2
<1>4. CASE ~(at > n.createdAt /\ (n.removedAt = Nil \/ at > n.removedAt))
    <2>1. Remove(n, at) = n
        BY <1>4 DEF Remove
    <2> QED BY <1>1, <1>4, <2>1
<1> QED BY <1>3, <1>4

\* What has to be shown of a step that changes the nodes as F says, and that adds
\* the new one of a Set.
LEMMA ValueNext ==
    ASSUME Operation = ObjectOperation, NEW o, NEW S, ObjectValue(o, S),
           NEW e \in Change, ObjectGround(e, S), \A f \in S : ~SameId(e, f),
           NEW F \in [o.nodes -> Node], NEW new, NEW r, NEW nodes,
           nodes = {F[n] : n \in o.nodes} \cup new, r.nodes = nodes,
           \A n \in o.nodes, s \in S :
               s.op.kind = "set" /\ NodeOf(n, s, S) => NodeOf(F[n], s, S \cup {e}),
           \A m, n \in new : m = n,
           \A m \in new : e.op.kind = "set" /\ NodeOf(m, e, S \cup {e}),
           e.op.kind = "set" => new # {},
           \A k \in r.queues : k \in o.queues \/ (e.op.kind = "set" /\ e.op.key = k)
    PROVE  ObjectValue(r, S \cup {e})
<1> DEFINE U == S \cup {e}
<1>1. ObjectChanges(S)
    BY DEF ObjectValue
<1>2. ObjectChanges(U) /\ At(e) \notin SetIds(S)
    BY <1>1, ChangesNext
<1>3. ASSUME NEW n \in o.nodes
      PROVE  \E s \in S : s.op.kind = "set" /\ NodeOf(F[n], s, U) /\ NodeOf(n, s, S)
    BY DEF ObjectValue
<1>4. ASSUME NEW m \in nodes, NEW n \in nodes, m.createdAt = n.createdAt
      PROVE  m = n
    <2>1. CASE m \in new /\ n \in new
        BY <2>1
    <2>2. ASSUME NEW a \in new, NEW b \in o.nodes, a.createdAt = F[b].createdAt
          PROVE  FALSE
        <3>1. PICK s \in S : s.op.kind = "set" /\ NodeOf(F[b], s, U)
            BY <1>3
        <3>2. F[b].createdAt \in SetIds(S)
            BY <3>1 DEF NodeOf, SetIds
        <3>3. a.createdAt = At(e)
            BY DEF NodeOf, ObjectGround
        <3> QED BY <1>2, <2>2, <3>2, <3>3
    <2>3. ASSUME NEW a \in o.nodes, NEW b \in o.nodes, F[a].createdAt = F[b].createdAt
          PROVE  a = b
        <3>1. PICK s \in S : s.op.kind = "set" /\ NodeOf(F[a], s, U) /\ NodeOf(a, s, S)
            BY <1>3
        <3>2. PICK t \in S : t.op.kind = "set" /\ NodeOf(F[b], t, U) /\ NodeOf(b, t, S)
            BY <1>3
        <3>3. a.createdAt = b.createdAt
            BY <2>3, <3>1, <3>2 DEF NodeOf
        <3> QED BY <3>3 DEF ObjectValue
    <2> QED BY <1>4, <2>1, <2>2, <2>3
<1>5. ASSUME NEW s \in U, s.op.kind = "set"
      PROVE  \E n \in nodes : NodeOf(n, s, U)
    <2>1. CASE s = e
        BY <1>5, <2>1
    <2>2. CASE s \in S
        <3>1. PICK n \in o.nodes : NodeOf(n, s, S)
            BY <1>5, <2>2 DEF ObjectValue
        <3> QED BY <1>5, <2>2, <3>1
    <2> QED BY <2>1, <2>2
<1>6. ASSUME NEW m \in nodes
      PROVE  \E s \in U : s.op.kind = "set" /\ NodeOf(m, s, U)
    <2>1. CASE m \in new
        BY <2>1
    <2>2. ASSUME NEW n \in o.nodes, m = F[n]
          PROVE  \E s \in U : s.op.kind = "set" /\ NodeOf(m, s, U)
        <3>1. PICK s \in S : s.op.kind = "set" /\ NodeOf(F[n], s, U)
            BY <1>3
        <3> QED BY <2>2, <3>1
    <2>3. m \in new \/ \E n \in o.nodes : m = F[n]
        BY <1>6
    <2> QED BY <2>1, <2>2, <2>3
<1>7. ASSUME NEW k \in r.queues
      PROVE  Sets(U, k) # {}
    <2>1. CASE k \in o.queues
        BY <2>1 DEF ObjectValue, Sets
    <2>2. CASE e.op.kind = "set" /\ e.op.key = k
        BY <2>2 DEF Sets
    <2> QED BY <2>1, <2>2
<1> HIDE DEF U
<1>8. ObjectValue(r, U)
    BY <1>2, <1>4, <1>5, <1>6, <1>7 DEF ObjectValue
<1> QED BY <1>8 DEF U

\* A Set removes the element it shows instead, unless that is later; the element it
\* makes is not removed, and nobody has increased it.
LEMMA SetValue ==
    ASSUME Operation = ObjectOperation, NEW o \in Object, NEW S, ObjectValue(o, S),
           NEW e \in Change, ObjectGround(e, S), \A f \in S : ~SameId(e, f),
           e.op.kind = "set"
    PROVE  /\ ObjectExecute(o, e.op, At(e)) \in Object
           /\ ObjectValue(ObjectExecute(o, e.op, At(e)), S \cup {e})
<1> DEFINE k == e.op.key
           v == e.op.value
           x == At(e)
           replaced == Get(o, k)
           node == [key |-> k, createdAt |-> x, removedAt |-> Nil, counter |-> NewCounter(v)]
           F == [n \in o.nodes |-> IF n \in replaced THEN Remove(n, x) ELSE n]
           new == {node}
           nodes == {F[n] : n \in o.nodes} \cup new
           r == ObjectExecute(o, e.op, At(e))
           U == S \cup {e}
<1>1. /\ k \in Keys /\ v \in Int /\ v \in Longs /\ x \in Nat \ {0} /\ e.op.elem = x
      /\ o.nodes \subseteq Node /\ o.queues \subseteq Keys
    BY ChangeType DEF ObjectGround, Object
<1>2. ObjectChanges(S)
    BY DEF ObjectValue
<1>3. x \notin SetIds(S) /\ ObjectChanges(U)
    BY <1>2, ChangesNext
<1>4. replaced \subseteq o.nodes /\ \A n \in replaced : n.key = k
    BY DEF Get, Queue
<1>5. r = Set(o, k, v, x)
    BY DEF ObjectExecute, ExecuteSet
<1>6. r = [nodes |-> (o.nodes \ replaced) \cup {Remove(n, x) : n \in replaced} \cup {node},
           queues |-> o.queues \cup {k}]
    BY <1>5 DEF Set
<1> HIDE DEF replaced, node, r
<1>7. r.nodes = nodes /\ r.queues = o.queues \cup {k}
    <2>1. {F[n] : n \in o.nodes} = (o.nodes \ replaced) \cup {Remove(n, x) : n \in replaced}
        <3> HIDE DEF x
        <3> QED BY <1>4
    <2> HIDE DEF F
    <2> QED BY <1>6, <2>1
<1>8. node \in Node /\ node.createdAt = x /\ node.key = k /\ node.removedAt = Nil
      /\ node.counter.value = v
    BY <1>1 DEF node, Node, NewCounter, CounterValue, FitsInt
<1>9. F \in [o.nodes -> Node]
    <2>1. \A n \in o.nodes : Remove(n, x) \in Node
        BY <1>1, RemoveFacts
    <2> QED BY <1>1, <2>1
<1>10. ASSUME NEW n \in o.nodes, NEW s \in S, s.op.kind = "set", NodeOf(n, s, S)
       PROVE  NodeOf(F[n], s, U)
    <2>1. NodeOf(n, s, U)
        BY <1>10, NodeSame
    <2>2. CASE n \in replaced
        <3>1. F[n] = Remove(n, x)
            BY <2>2
        <3> DEFINE m == Remove(n, x)
        <3>2. /\ m.createdAt = n.createdAt /\ m.key = n.key /\ m.counter = n.counter
              /\ m.removedAt \in {n.removedAt, x}
              /\ m.removedAt # n.removedAt => x > n.createdAt
              /\ n.removedAt # Nil => m.removedAt # Nil
            BY <1>1, RemoveFacts
        <3> HIDE DEF m
        <3>3. x # 0 /\ x # Nil /\ s.op.key = k /\ s.op.elem = n.createdAt
            BY <1>1, <1>4, <1>10, <2>2 DEF NodeOf, Nil
        <3>4. e \in Sets(U, s.op.key)
            BY <3>3 DEF Sets
        <3>5. m.removedAt = n.removedAt \/ \E u \in Sets(U, s.op.key) : u.op.elem > s.op.elem
            BY <1>1, <3>2, <3>3, <3>4
        <3>6. NodeOf(m, s, U)
            BY <2>1, <3>2, <3>3, <3>5 DEF NodeOf
        <3> QED BY <3>1, <3>6 DEF m
    <2>3. CASE n \notin replaced
        BY <2>1, <2>3
    <2> QED BY <2>2, <2>3
<1>11. NodeOf(node, e, U)
    <2>1. \A kind \in {"remove", "increase"} : Named(U, kind, x) = {}
        BY <1>2, <1>3 DEF Named, ObjectChanges
    <2>2. Total(Named(U, "increase", x)) = 0 /\ Named(U, "remove", x) = {}
        BY <2>1, TotalEmpty
    <2>3. node.counter.value = Wrapped(v + 0)
        BY <1>1, <1>8, WrappedLong
    <2> HIDE DEF x, U
    <2>4. node.counter.value = Wrapped(v + Total(Named(U, "increase", x)))
        BY <2>2, <2>3
    <2> QED BY <1>1, <1>8, <2>2, <2>4 DEF NodeOf, Nil
<1>12. r \in Object
    <2>1. nodes \subseteq Node
        BY <1>8, <1>9
    <2>2. r = [nodes |-> r.nodes, queues |-> r.queues]
        BY <1>6
    <2> HIDE DEF nodes
    <2>3. r.nodes \in SUBSET Node /\ r.queues \in SUBSET Keys
        BY <1>1, <1>7, <2>1
    <2> QED BY <2>2, <2>3 DEF Object
<1>13. \A m, n \in new : m = n
    OBVIOUS
<1>14. \A m \in new : e.op.kind = "set" /\ NodeOf(m, e, S \cup {e})
    BY <1>11
<1>15. e.op.kind = "set" => new # {}
    OBVIOUS
<1>16. \A q \in r.queues : q \in o.queues \/ (e.op.kind = "set" /\ e.op.key = q)
    BY <1>7
<1>17. nodes = {F[n] : n \in o.nodes} \cup new
    OBVIOUS
<1>18. \A n \in o.nodes, s \in S :
         s.op.kind = "set" /\ NodeOf(n, s, S) => NodeOf(F[n], s, S \cup {e})
    BY <1>10
<1> HIDE DEF F, new, nodes
<1>19. ObjectValue(r, S \cup {e})
    BY <1>7, <1>9, <1>13, <1>14, <1>15, <1>16, <1>17, <1>18, ValueNext
<1> QED BY <1>12, <1>19 DEF r

\* A Remove removes the element it names.
LEMMA RemoveValue ==
    ASSUME Operation = ObjectOperation, NEW o \in Object, NEW S, ObjectValue(o, S),
           NEW e \in Change, ObjectGround(e, S), \A f \in S : ~SameId(e, f),
           e.op.kind = "remove"
    PROVE  /\ ObjectExecute(o, e.op, At(e)) \in Object
           /\ ObjectValue(ObjectExecute(o, e.op, At(e)), S \cup {e})
<1> DEFINE t == e.op.elem
           x == At(e)
           F == [n \in o.nodes |-> IF n.createdAt = t THEN Remove(n, x) ELSE n]
           new == {}
           nodes == {F[n] : n \in o.nodes} \cup new
           r == ObjectExecute(o, e.op, At(e))
           U == S \cup {e}
<1>1. /\ x \in Nat \ {0} /\ t \in SetIds(S) /\ t < x
      /\ o.nodes \subseteq Node /\ o.queues \subseteq Keys
    BY ChangeType DEF ObjectGround, Object
<1>2. r = [o EXCEPT !.nodes = {IF n.createdAt = t THEN Remove(n, x) ELSE n : n \in @}]
    BY DEF ObjectExecute, ExecuteRemove, DeleteByCreatedAt
<1> HIDE DEF r, x, t
<1>3. r.nodes = nodes /\ r.queues = o.queues
    <2>1. {F[n] : n \in o.nodes} = {IF n.createdAt = t THEN Remove(n, x) ELSE n : n \in o.nodes}
        OBVIOUS
    <2>2. r.nodes = {IF n.createdAt = t THEN Remove(n, x) ELSE n : n \in o.nodes}
        BY <1>2 DEF Object
    <2> HIDE DEF F
    <2> QED BY <1>2, <2>1, <2>2 DEF Object
<1>4. F \in [o.nodes -> Node]
    <2>1. \A n \in o.nodes : Remove(n, x) \in Node
        BY <1>1, RemoveFacts
    <2> QED BY <1>1, <2>1
<1>5. ASSUME NEW n \in o.nodes, NEW s \in S, s.op.kind = "set", NodeOf(n, s, S)
      PROVE  NodeOf(F[n], s, U)
    <2>1. CASE n.createdAt # t
        <3>1. F[n] = n /\ s.op.elem # t
            BY <1>5, <2>1 DEF NodeOf
        <3>2. NodeOf(n, s, U)
            BY <1>5, <3>1, NodeSame DEF t
        <3> QED BY <3>1, <3>2
    <2>2. CASE n.createdAt = t
        <3>1. F[n] = Remove(n, x)
            BY <2>2
        <3> DEFINE m == Remove(n, x)
        <3>2. /\ m.createdAt = n.createdAt /\ m.key = n.key /\ m.counter = n.counter
              /\ m.removedAt \in {n.removedAt, x} /\ m.removedAt # Nil
            BY <1>1, <2>2, RemoveFacts
        <3>3. e \in Named(U, "remove", s.op.elem)
            BY <1>5, <2>2 DEF Named, NodeOf, t
        <3>4. Named(U, "increase", s.op.elem) = Named(S, "increase", s.op.elem)
            BY DEF Named
        <3> HIDE DEF m, U
        <3>5. NodeOf(m, s, U)
            BY <1>1, <1>5, <3>2, <3>3, <3>4 DEF NodeOf
        <3> QED BY <3>1, <3>5 DEF m
    <2> QED BY <2>1, <2>2
<1>6. r \in Object
    <2>1. nodes \subseteq Node
        BY <1>4
    <2> HIDE DEF nodes
    <2> QED BY <1>1, <1>2, <1>3, <2>1 DEF Object
<1>7. \A n \in o.nodes, s \in S :
         s.op.kind = "set" /\ NodeOf(n, s, S) => NodeOf(F[n], s, S \cup {e})
    BY <1>5
<1>8. /\ \A m, n \in new : m = n
      /\ \A m \in new : e.op.kind = "set" /\ NodeOf(m, e, S \cup {e})
      /\ e.op.kind = "set" => new # {}
      /\ \A q \in r.queues : q \in o.queues \/ (e.op.kind = "set" /\ e.op.key = q)
    BY <1>3
<1>9. nodes = {F[n] : n \in o.nodes} \cup new
    OBVIOUS
<1> HIDE DEF F, new, nodes
<1>10. ObjectValue(r, S \cup {e})
    BY <1>3, <1>4, <1>7, <1>8, <1>9, ValueNext
<1> QED BY <1>6, <1>10 DEF r

\* An Increase adds to the counter it names.
LEMMA IncreaseValue ==
    ASSUME Operation = ObjectOperation, NEW o \in Object, NEW S, ObjectValue(o, S),
           NEW e \in Change, ObjectGround(e, S), \A f \in S : ~SameId(e, f),
           e.op.kind = "increase"
    PROVE  /\ ObjectExecute(o, e.op, At(e)) \in Object
           /\ ObjectValue(ObjectExecute(o, e.op, At(e)), S \cup {e})
<1> DEFINE t == e.op.elem
           v == e.op.value
           Increased(n) == [n EXCEPT !.counter = Increase(@, v)]
           F == [n \in o.nodes |-> IF n.createdAt = t THEN Increased(n) ELSE n]
           new == {}
           nodes == {F[n] : n \in o.nodes} \cup new
           r == ObjectExecute(o, e.op, At(e))
           U == S \cup {e}
<1>1. /\ v \in Int /\ o.nodes \subseteq Node /\ o.queues \subseteq Keys
      /\ ObjectChanges(S)
    BY ChangeType DEF Object, ObjectValue
<1>2. r = [o EXCEPT !.nodes = {IF n.createdAt = t THEN Increased(n) ELSE n : n \in @}]
    BY DEF ObjectExecute, ExecuteIncrease
<1>3. ASSUME NEW n \in Node
      PROVE  /\ Increased(n) \in Node
             /\ Increased(n).createdAt = n.createdAt /\ Increased(n).key = n.key
             /\ Increased(n).removedAt = n.removedAt
             /\ Increased(n).counter.value = Wrapped(n.counter.value + v)
             /\ n.counter.value \in Int
    <2>1. n.counter.value \in Int /\ n.counter.long \in BOOLEAN
        BY DEF Node, CounterValue
    <2>2. Wrapped(n.counter.value + v) \in Int
        <3> DEFINE w == n.counter.value + v
        <3>1. w \in Int
            BY <1>1, <2>1
        <3> HIDE DEF w
        <3>2. Wrapped(w) \in Longs
            BY <3>1, WrappedType
        <3> QED BY <3>2, WidthAssumption DEF Longs, w
    <2> HIDE DEF v
    <2>3. /\ Increase(n.counter, v) \in CounterValue
          /\ Increase(n.counter, v).value = Wrapped(n.counter.value + v)
        BY <2>1, <2>2 DEF Increase, CounterValue, FitsInt
    <2> QED BY <2>1, <2>3 DEF Node
<1> HIDE DEF r, t, v, Increased
<1>4. r.nodes = nodes /\ r.queues = o.queues
    <2>1. {F[n] : n \in o.nodes} = {IF n.createdAt = t THEN Increased(n) ELSE n : n \in o.nodes}
        OBVIOUS
    <2>2. r.nodes = {IF n.createdAt = t THEN Increased(n) ELSE n : n \in o.nodes}
        BY <1>2 DEF Object
    <2> HIDE DEF F
    <2> QED BY <1>2, <2>1, <2>2 DEF Object
<1>5. F \in [o.nodes -> Node]
    BY <1>1, <1>3
<1>6. ASSUME NEW n \in o.nodes, NEW s \in S, s.op.kind = "set", NodeOf(n, s, S)
      PROVE  NodeOf(F[n], s, U)
    <2>1. CASE n.createdAt # t
        <3>1. F[n] = n /\ s.op.elem # t
            BY <1>6, <2>1 DEF NodeOf
        <3>2. NodeOf(n, s, U)
            BY <1>6, <3>1, NodeSame DEF t
        <3> QED BY <3>1, <3>2
    <2>2. CASE n.createdAt = t
        <3> DEFINE m == Increased(n)
                   T == Named(S, "increase", t)
        <3>1. F[n] = m /\ s.op.elem = t
            BY <1>6, <2>2 DEF NodeOf
        <3>2. /\ m.createdAt = n.createdAt /\ m.key = n.key /\ m.removedAt = n.removedAt
              /\ m.counter.value = Wrapped(n.counter.value + v)
            BY <1>1, <1>3
        <3>3. Named(U, "increase", t) = T \cup {e} /\ e \notin T
            <4>1. e \notin S
                BY <1>1, ChangesNext
            <4> QED BY <4>1 DEF Named, t
        <3>4. /\ IsFiniteSet(T) /\ Total(T) \in Int
              /\ \A i \in T : i.op.value \in Int
            BY <1>1, NamedFacts
        <3>5. Total(Named(U, "increase", t)) = Total(T) + v
            <4> HIDE DEF T
            <4> QED BY <1>1, <3>3, <3>4, TotalAdd DEF v
        <3>6. s.op.value \in Int
            <4>1. s \in Change
                BY <1>1 DEF ObjectChanges
            <4> QED BY <4>1, ChangeType
        <3>7. m.counter.value = Wrapped(s.op.value + Total(Named(U, "increase", t)))
            <4> DEFINE a == s.op.value + Total(T)
            <4>1. n.counter.value = Wrapped(a)
                BY <1>6, <3>1 DEF NodeOf
            <4>2. a \in Int /\ a + v = s.op.value + (Total(T) + v)
                <5> DEFINE b == Total(T)
                <5>1. b \in Int
                    BY <3>4
                <5> HIDE DEF b
                <5>2. (s.op.value + b) \in Int /\ (s.op.value + b) + v = s.op.value + (b + v)
                    BY <1>1, <3>6, <5>1
                <5> QED BY <5>2 DEF b
            <4> HIDE DEF a
            <4>3. Wrapped(Wrapped(a) + v) = Wrapped(a + v)
                BY <1>1, <4>2, WrappedTwice
            <4> QED BY <3>2, <3>5, <4>1, <4>2, <4>3
        <3>8. Named(U, "remove", t) = Named(S, "remove", t)
            BY DEF Named
        <3>9. Sets(S, s.op.key) \subseteq Sets(U, s.op.key)
            BY DEF Sets
        <3> HIDE DEF m, U
        <3>10. NodeOf(m, s, U)
            BY <1>6, <3>1, <3>2, <3>7, <3>8, <3>9 DEF NodeOf
        <3> QED BY <3>1, <3>10
    <2> QED BY <2>1, <2>2
<1>7. r \in Object
    <2>1. nodes \subseteq Node
        BY <1>5
    <2> HIDE DEF nodes
    <2> QED BY <1>1, <1>2, <1>4, <2>1 DEF Object
<1>8. \A n \in o.nodes, s \in S :
         s.op.kind = "set" /\ NodeOf(n, s, S) => NodeOf(F[n], s, S \cup {e})
    BY <1>6
<1>9. /\ \A m, n \in new : m = n
      /\ \A m \in new : e.op.kind = "set" /\ NodeOf(m, e, S \cup {e})
      /\ e.op.kind = "set" => new # {}
      /\ \A q \in r.queues : q \in o.queues \/ (e.op.kind = "set" /\ e.op.key = q)
    BY <1>4
<1>10. nodes = {F[n] : n \in o.nodes} \cup new
    OBVIOUS
<1> HIDE DEF F, new, nodes
<1>11. ObjectValue(r, S \cup {e})
    BY <1>4, <1>5, <1>8, <1>9, <1>10, ValueNext
<1> QED BY <1>7, <1>11 DEF r

-----------------------------------------------------------------------------
(***************************************************************************)
(* What an object shows                                                    *)
(***************************************************************************)

\* Of the Sets of a key one is the latest.
LEMMA LatestSet ==
    ASSUME Operation = ObjectOperation, NEW S, ObjectChanges(S), NEW k, Sets(S, k) # {}
    PROVE  \E s \in Sets(S, k) : \A u \in Sets(S, k) : u.op.elem <= s.op.elem
<1> DEFINE T == Sets(S, k)
           P == {r \in SUBSET T : r # {} =>
                    \E s \in r : \A u \in r : u.op.elem <= s.op.elem}
<1>1. IsFiniteSet(T)
    BY FS_Subset DEF ObjectChanges, Sets
<1>2. \A t \in T : t.op.elem \in Nat
    <2> SUFFICES ASSUME NEW t \in S, t.op.kind = "set" PROVE t.op.elem \in Nat
        BY DEF Sets
    <2>1. t \in Change /\ t.op.elem = At(t)
        BY DEF ObjectChanges
    <2> QED BY <2>1, ChangeType
<1> HIDE DEF T
<1>3. ASSUME NEW r \in SUBSET T, \A x \in r : r \ {x} \in P
      PROVE  r \in P
    <2> SUFFICES ASSUME NEW x \in r
                 PROVE  \E s \in r : \A u \in r : u.op.elem <= s.op.elem
        OBVIOUS
    <2>1. CASE r = {x}
        BY <1>2, <2>1
    <2>2. CASE r # {x}
        <3>1. PICK s \in r \ {x} : \A u \in r \ {x} : u.op.elem <= s.op.elem
            BY <1>3, <2>2
        <3>2. x.op.elem \in Nat /\ \A u \in r : u.op.elem \in Nat
            BY <1>2
        <3>3. CASE x.op.elem <= s.op.elem
            BY <3>1, <3>3
        <3>4. CASE ~(x.op.elem <= s.op.elem)
            <4>1. \A u \in r : u.op.elem <= x.op.elem
                <5> SUFFICES ASSUME NEW u \in r PROVE u.op.elem <= x.op.elem
                    OBVIOUS
                <5>1. CASE u = x
                    BY <3>2, <5>1
                <5>2. CASE u # x
                    <6>1. u.op.elem <= s.op.elem
                        BY <3>1, <5>2
                    <6>2. u.op.elem \in Nat /\ s.op.elem \in Nat /\ x.op.elem \in Nat
                        BY <3>2
                    <6> QED BY <3>4, <6>1, <6>2
                <5> QED BY <5>1, <5>2
            <4> QED BY <4>1
        <3> QED BY <3>3, <3>4
    <2> QED BY <2>1, <2>2
<1> HIDE DEF P
<1>4. T \in P
    BY <1>1, <1>3, FiniteInduction
<1> QED BY <1>4 DEF P, T

\* The latest Set of a key, if no Remove names its element.
Standing(S, k, s) ==
    /\ s \in Sets(S, k) /\ \A u \in Sets(S, k) : u.op.elem <= s.op.elem
    /\ Named(S, "remove", s.op.elem) = {}

\* The elements under a key are those of the Sets of the key.
LEMMA QueueSets ==
    ASSUME NEW o, NEW S, ObjectValue(o, S), NEW k
    PROVE  /\ \A n \in Queue(o, k) : \E s \in Sets(S, k) : NodeOf(n, s, S)
           /\ \A s \in Sets(S, k) : \E n \in Queue(o, k) : NodeOf(n, s, S)
<1>1. ASSUME NEW n \in Queue(o, k)
      PROVE  \E s \in Sets(S, k) : NodeOf(n, s, S)
    <2>1. n \in o.nodes /\ n.key = k
        BY DEF Queue
    <2>2. PICK s \in S : s.op.kind = "set" /\ NodeOf(n, s, S)
        BY <2>1 DEF ObjectValue
    <2>3. s \in Sets(S, k)
        BY <2>1, <2>2 DEF Sets, NodeOf
    <2> QED BY <2>2, <2>3
<1>2. ASSUME NEW s \in Sets(S, k)
      PROVE  \E n \in Queue(o, k) : NodeOf(n, s, S)
    <2>1. s \in S /\ s.op.kind = "set" /\ s.op.key = k
        BY DEF Sets
    <2>2. PICK n \in o.nodes : NodeOf(n, s, S)
        BY <2>1 DEF ObjectValue
    <2>3. n \in Queue(o, k)
        BY <2>1, <2>2 DEF Queue, NodeOf
    <2> QED BY <2>2, <2>3
<1> QED BY <1>1, <1>2

\* An element that is shown is that of the Set that stands.
LEMMA ShownStands ==
    ASSUME Operation = ObjectOperation, NEW o \in Object, NEW S, ObjectValue(o, S), NEW k,
           NEW n \in Get(o, k)
    PROVE  \E s \in S : Standing(S, k, s) /\ NodeOf(n, s, S)
<1>1. ObjectChanges(S)
    BY DEF ObjectValue
<1>2. n \in Queue(o, k) /\ n = Peek(o, k) /\ n.removedAt = Nil
    BY DEF Get
<1>3. PICK s \in Sets(S, k) : NodeOf(n, s, S)
    BY <1>2, QueueSets
<1>4. PICK t \in Sets(S, k) : \A u \in Sets(S, k) : u.op.elem <= t.op.elem
    BY <1>1, <1>3, LatestSet
<1>5. PICK m \in Queue(o, k) : NodeOf(m, t, S)
    BY QueueSets
<1>6. \A q \in Queue(o, k) : q.createdAt <= m.createdAt
    <2> SUFFICES ASSUME NEW q \in Queue(o, k) PROVE q.createdAt <= m.createdAt
        OBVIOUS
    <2>1. PICK u \in Sets(S, k) : NodeOf(q, u, S)
        BY QueueSets
    <2> QED BY <1>4, <1>5, <2>1 DEF NodeOf
<1>7. \A q \in Queue(o, k) : q.createdAt <= n.createdAt
    BY <1>2, <1>6 DEF Peek
<1>8. \A u \in Sets(S, k) : u.op.elem <= s.op.elem
    <2> SUFFICES ASSUME NEW u \in Sets(S, k) PROVE u.op.elem <= s.op.elem
        OBVIOUS
    <2>1. PICK q \in Queue(o, k) : NodeOf(q, u, S)
        BY QueueSets
    <2> QED BY <1>3, <1>7, <2>1 DEF NodeOf
<1>9. Named(S, "remove", s.op.elem) = {}
    BY <1>2, <1>3 DEF NodeOf
<1>10. s \in S
    BY DEF Sets
<1> QED BY <1>3, <1>8, <1>9, <1>10 DEF Standing

\* And the element of the Set that stands is shown.
LEMMA StandingShown ==
    ASSUME Operation = ObjectOperation, NEW o \in Object, NEW S, ObjectValue(o, S), NEW k,
           NEW s, Standing(S, k, s)
    PROVE  \E n \in Get(o, k) : NodeOf(n, s, S)
<1>1. ObjectChanges(S) /\ s \in S /\ s.op.kind = "set" /\ s.op.key = k
    BY DEF ObjectValue, Standing, Sets
<1>2. PICK n \in Queue(o, k) : NodeOf(n, s, S)
    BY QueueSets DEF Standing
<1>3. \A q \in Queue(o, k) : q.createdAt <= n.createdAt
    <2> SUFFICES ASSUME NEW q \in Queue(o, k) PROVE q.createdAt <= n.createdAt
        OBVIOUS
    <2>1. PICK u \in Sets(S, k) : NodeOf(q, u, S)
        BY QueueSets
    <2> QED BY <1>2, <2>1 DEF Standing, NodeOf
<1>4. ASSUME NEW q \in Queue(o, k), \A m \in Queue(o, k) : m.createdAt <= q.createdAt
      PROVE  q = n
    <2>1. q.createdAt \in Nat /\ n.createdAt \in Nat /\ q \in o.nodes /\ n \in o.nodes
        BY DEF Queue, Object, Node
    <2>2. q.createdAt <= n.createdAt /\ n.createdAt <= q.createdAt
        BY <1>3, <1>4
    <2>3. q.createdAt = n.createdAt
        BY <2>1, <2>2
    <2> QED BY <2>1, <2>3 DEF ObjectValue
<1>5. n = Peek(o, k)
    BY <1>3, <1>4 DEF Peek
<1>6. n.removedAt = Nil
    <2> SUFFICES ASSUME n.removedAt # Nil PROVE FALSE
        OBVIOUS
    <2>1. PICK u \in Sets(S, k) : u.op.elem > s.op.elem
        BY <1>1, <1>2 DEF NodeOf, Standing
    <2>2. u.op.elem <= s.op.elem
        BY DEF Standing
    <2>3. u.op.elem \in Nat /\ s.op.elem \in Nat
        <3>1. /\ u \in Change /\ u.op.elem = At(u)
              /\ s \in Change /\ s.op.elem = At(s)
            BY <1>1 DEF ObjectChanges, Sets
        <3> QED BY <3>1, ChangeType
    <2> QED BY <2>1, <2>2, <2>3
<1> QED BY <1>2, <1>5, <1>6 DEF Get

-----------------------------------------------------------------------------
(***************************************************************************)
(* Every value of an object is one that the changes lead to                *)
(***************************************************************************)

LEMMA EmptyValue == NewObject \in Object /\ ObjectValue(NewObject, {})
<1> DEFINE none == {}
<1>1. NewObject \in Object /\ NewObject.nodes = {} /\ NewObject.queues = {}
    BY DEF NewObject, Object
<1>2. ObjectChanges(none)
    BY FS_EmptySet DEF ObjectChanges
<1> QED BY <1>1, <1>2 DEF ObjectValue

\* An object comes back from its encoding with all of its elements.
LEMMA DecodedValue ==
    ASSUME NEW o \in Object, NEW S, ObjectValue(o, S)
    PROVE  DecodedObject(o) \in Object /\ ObjectValue(DecodedObject(o), S)
<1> DEFINE r == DecodedObject(o)
           Q == {n.key : n \in o.nodes}
<1>1. o.nodes \subseteq Node /\ Q \subseteq Keys
    BY DEF Object, Node
<1>2. r = [o EXCEPT !.queues = Q]
    BY DEF DecodedObject
<1> HIDE DEF Q
<1>3. r \in Object /\ r.nodes = o.nodes /\ r.queues = Q
    BY <1>1, <1>2 DEF Object
<1> HIDE DEF r
<1>4. \A k \in Q : Sets(S, k) # {}
    BY DEF Q, ObjectValue, NodeOf, Sets
<1>5. ObjectValue(r, S)
    BY <1>3, <1>4 DEF ObjectValue
<1> QED BY <1>3, <1>5 DEF r

\* Nothing was removed at or before the first ticket.
LEMMA NothingPurged ==
    ASSUME NEW o \in Object, NEW S, ObjectValue(o, S)
    PROVE  Purge(o, InitialTicket) = o
<1>1. \A n \in o.nodes : n.removedAt = Nil \/ n.removedAt > InitialTicket
    <2> SUFFICES ASSUME NEW n \in o.nodes PROVE n.removedAt = Nil \/ n.removedAt > InitialTicket
        OBVIOUS
    <2>1. n.removedAt \in Nat \cup {Nil} /\ n.removedAt # 0
        BY DEF Object, Node, ObjectValue, NodeOf
    <2> QED BY <2>1 DEF InitialTicket
<1>2. {n \in o.nodes : n.removedAt = Nil \/ n.removedAt > InitialTicket} = o.nodes
    BY <1>1
<1>3. Purge(o, InitialTicket) = [o EXCEPT !.nodes = o.nodes]
    BY <1>2 DEF Purge
<1> QED BY <1>3 DEF Object

\* What an application does names an element its replica shows; no queue is empty.
LEMMA ObjectUpdates ==
    ASSUME Operation = ObjectOperation, NEW o \in Object, NEW S, ObjectValue(o, S),
           NEW c \in Clients, NEW l \in Nat \ {0}, \A f \in S : f.lamport < l,
           NEW op \in ObjectOperations(o, TicketOf(l, c))
    PROVE  LET e == [op |-> op, actor |-> c, lamport |-> l]
           IN  e \in Change /\ ObjectGround(e, S)
<1> DEFINE x == TicketOf(l, c)
           e == [op |-> op, actor |-> c, lamport |-> l]
<1>1. x \in Nat \ {0} /\ S \subseteq Change
    BY TicketType DEF ObjectValue, ObjectChanges
<1>2. \A f \in S : At(f) < x
    <2> SUFFICES ASSUME NEW f \in S PROVE At(f) < x
        OBVIOUS
    <2>1. f.lamport \in Nat /\ f.actor \in Clients /\ f.lamport < l
        BY <1>1 DEF Change
    <2> QED BY <2>1, TicketOrder DEF At
<1>3. e.op = op /\ At(e) = x
    BY DEF At
<1>4. op \in ObjectOperation => e \in Change
    BY DEF Change
<1> HIDE DEF x, e
<1>5. CASE op \in SetNew(x)
    <2>1. PICK k \in Keys, v \in Values :
            op = [kind |-> "set", key |-> k, elem |-> x, value |-> v]
        BY <1>5 DEF SetNew
    <2>2. v \in Longs /\ v \in Int
        BY NumbersAssumption, WidthAssumption DEF Longs
    <2>3. op \in ObjectOperation
        BY <1>1, <2>1, <2>2 DEF ObjectOperation
    <2>4. e \in Change /\ ObjectGround(e, S)
        BY <1>3, <1>4, <2>1, <2>2, <2>3 DEF ObjectGround
    <2> QED BY <2>4 DEF e
<1>6. ASSUME NEW k \in Keys, NEW n \in Get(o, k), op.elem = n.createdAt,
             op.kind \in {"remove", "increase"}
      PROVE  ObjectGround(e, S)
    <2>1. PICK s \in S : Standing(S, k, s) /\ NodeOf(n, s, S)
        BY ShownStands
    <2>2. s.op.kind = "set" /\ s.op.elem = n.createdAt
        BY <2>1 DEF Standing, Sets, NodeOf
    <2>3. s.op.elem = At(s)
        BY <2>2 DEF ObjectValue, ObjectChanges
    <2>4. op.elem \in SetIds(S) /\ op.elem < x
        BY <1>2, <1>6, <2>2, <2>3 DEF SetIds
    <2> QED BY <1>3, <1>6, <2>4 DEF ObjectGround
<1>7. ASSUME NEW k \in Keys, NEW n \in Get(o, k)
      PROVE  n.key \in Keys /\ n.createdAt \in Nat
    BY DEF Get, Queue, Object, Node
<1>8. CASE op \in Delete(o)
    <2>1. ASSUME NEW k \in o.queues
          PROVE  Queue(o, k) # {}
        <3>1. Sets(S, k) # {}
            BY DEF ObjectValue
        <3> QED BY <3>1, QueueSets
    <2>2. PICK k \in Keys : \E n \in Get(o, k) :
            op = [kind |-> "remove", key |-> n.key, elem |-> n.createdAt, value |-> 0]
        BY <1>8, <2>1 DEF Delete
    <2>3. PICK n \in Get(o, k) :
            op = [kind |-> "remove", key |-> n.key, elem |-> n.createdAt, value |-> 0]
        BY <2>2
    <2>4. op \in ObjectOperation /\ op.kind = "remove" /\ op.elem = n.createdAt
        BY <1>7, <2>3 DEF ObjectOperation
    <2> QED BY <1>4, <1>6, <2>4 DEF e
<1>9. CASE op \in IncreaseShown(o)
    <2>1. PICK v \in Increments : \E k \in Keys : \E n \in Get(o, k) :
            op = [kind |-> "increase", key |-> n.key, elem |-> n.createdAt, value |-> v]
        BY <1>9 DEF IncreaseShown
    <2>2. PICK k \in Keys : \E n \in Get(o, k) :
            op = [kind |-> "increase", key |-> n.key, elem |-> n.createdAt, value |-> v]
        BY <2>1
    <2>3. PICK n \in Get(o, k) :
            op = [kind |-> "increase", key |-> n.key, elem |-> n.createdAt, value |-> v]
        BY <2>2
    <2>4. v \in Int
        BY NumbersAssumption, WidthAssumption
    <2>5. op \in ObjectOperation /\ op.kind = "increase" /\ op.elem = n.createdAt
        BY <1>7, <2>3, <2>4 DEF ObjectOperation
    <2> QED BY <1>4, <1>6, <2>5 DEF e
<1> QED BY <1>5, <1>8, <1>9 DEF ObjectOperations, x, e

\* Every step of a replica keeps the value of its object one its changes lead to.
LEMMA ObjectSound == ObjectInstance => Sound(ObjectValues, ObjectGrounds)
<1> SUFFICES ASSUME ObjectInstance PROVE Sound(ObjectValues, ObjectGrounds)
    OBVIOUS
<1> DEFINE R == ObjectValues
           W == ObjectGrounds
<1>1. <<Empty, {}>> \in R
    BY EmptyValue DEF ObjectInstance, ObjectValues
<1>2. ASSUME NEW v, NEW S, <<v, S>> \in R
      PROVE  v \in Object /\ S \subseteq Change /\ ObjectValue(v, S)
    BY <1>2 DEF ObjectValues
<1>3. ASSUME NEW v, NEW S, <<v, S>> \in R
      PROVE  <<Decoded(v), S>> \in R /\ <<GarbageCollect(v, InitialTicket), S>> \in R
    <2>1. v \in Object /\ S \subseteq Change /\ ObjectValue(v, S)
        BY <1>2, <1>3
    <2>2. Decoded(v) = DecodedObject(v) /\ GarbageCollect(v, InitialTicket) = v
        BY <2>1, NothingPurged DEF ObjectInstance
    <2>3. DecodedObject(v) \in Object /\ ObjectValue(DecodedObject(v), S)
        BY <2>1, DecodedValue
    <2> QED BY <1>3, <2>1, <2>2, <2>3 DEF ObjectValues
<1>4. ASSUME NEW e, NEW S, NEW T, <<e, S>> \in W, Complete(S, T), T \subseteq Change
      PROVE  <<e, T>> \in W
    <2>1. e \in Change /\ ObjectGround(e, S)
        BY <1>4 DEF ObjectGrounds
    <2>2. SetIds(S) \subseteq SetIds(T)
        BY <1>4 DEF SetIds, Complete
    <2>3. ObjectGround(e, T)
        BY <2>1, <2>2 DEF ObjectGround
    <2> QED BY <1>4, <2>1, <2>3 DEF ObjectGrounds
<1>5. ASSUME NEW v, NEW S, NEW c, NEW l, NEW op,
             <<v, S>> \in R, c \in Clients, l \in Nat \ {0}, \A f \in S : f.lamport < l,
             op \in Operations(v, TicketOf(l, c))
      PROVE  /\ [op |-> op, actor |-> c, lamport |-> l] \in Change
             /\ <<[op |-> op, actor |-> c, lamport |-> l], S>> \in W
    <2>1. v \in Object /\ S \subseteq Change /\ ObjectValue(v, S)
        BY <1>2, <1>5
    <2>2. Operation = ObjectOperation /\ op \in ObjectOperations(v, TicketOf(l, c))
        BY <1>5 DEF ObjectInstance
    <2> DEFINE e == [op |-> op, actor |-> c, lamport |-> l]
    <2>3. e \in Change /\ ObjectGround(e, S)
        BY <1>5, <2>1, <2>2, ObjectUpdates
    <2> HIDE DEF e
    <2>4. <<e, S>> \in W
        BY <2>1, <2>3 DEF ObjectGrounds
    <2> QED BY <2>3, <2>4 DEF e
<1>6. ASSUME NEW v, NEW S, NEW e, <<v, S>> \in R, S \subseteq Change,
             <<e, S>> \in W, e \in Change, \A f \in S : ~SameId(e, f),
             ~Fails(v, e.op, At(e))
      PROVE  <<Execute(v, e.op, At(e)), S \cup {e}>> \in R
    <2>1. v \in Object /\ ObjectValue(v, S) /\ ObjectGround(e, S)
        BY <1>2, <1>6 DEF ObjectGrounds
    <2>2. Operation = ObjectOperation /\ Execute(v, e.op, At(e)) = ObjectExecute(v, e.op, At(e))
        BY DEF ObjectInstance
    <2>3. e.op.kind \in {"set", "remove", "increase"}
        BY <1>6, <2>2, ChangeType
    <2> DEFINE r == ObjectExecute(v, e.op, At(e))
    <2>4. r \in Object /\ ObjectValue(r, S \cup {e})
        <3>1. CASE e.op.kind = "set"
            BY <1>6, <2>1, <2>2, <3>1, SetValue
        <3>2. CASE e.op.kind = "remove"
            BY <1>6, <2>1, <2>2, <3>2, RemoveValue
        <3>3. CASE e.op.kind = "increase"
            BY <1>6, <2>1, <2>2, <3>3, IncreaseValue
        <3> QED BY <2>3, <3>1, <3>2, <3>3
    <2> HIDE DEF r
    <2>5. S \cup {e} \subseteq Change
        BY <1>6
    <2> QED BY <2>2, <2>4, <2>5 DEF r, ObjectValues
<1> HIDE DEF R, W
<1> QED BY <1>1, <1>3, <1>4, <1>5, <1>6 DEF Sound, R, W

-----------------------------------------------------------------------------
(***************************************************************************)
(* What holds of every replica                                             *)
(***************************************************************************)

LEMMA ReplicaValues ==
    ASSUME ObjectInstance, ExecInv, NEW c \in Clients, c \notin dead
    PROVE  data[c] \in Object /\ ObjectValue(data[c], Executed(c))
<1>1. ValuesInv(ObjectValues)
    BY ObjectSound DEF ExecInv, ExecutionsInv
<1>2. <<data[c], Executed(c)>> \in ObjectValues
    BY <1>1 DEF ValuesInv
<1> QED BY <1>2 DEF ObjectValues

\* No operation, local or received, names an element the replica does not have, and
\* no queue of a key runs empty: nothing is released while nothing is collected
\* (Increase.Execute, RHTPriorityQueueMap.Has and Delete).
THEOREM ObjectRuns == ASSUME ObjectInstance PROVE Spec => []NoFatal
<1>1. Spec => []ExecInv
    <2>1. ~Collecting
        BY DEF ObjectInstance
    <2> QED BY <2>1, Execution
<1>2. NeverFails(ObjectValues, ObjectGrounds)
    <2> SUFFICES ASSUME NEW v, NEW S, NEW e, <<v, S>> \in ObjectValues, S \subseteq Change,
                        <<e, S>> \in ObjectGrounds, e \in Change
                 PROVE  ~ObjectFails(v, e.op, At(e))
        BY DEF NeverFails, ObjectInstance
    <2>1. v \in Object /\ ObjectValue(v, S) /\ ObjectGround(e, S)
        BY DEF ObjectValues, ObjectGrounds
    <2>2. ASSUME e.op.kind \in {"remove", "increase"}
          PROVE  e.op.elem # Nil /\ \E n \in v.nodes : n.createdAt = e.op.elem
        <3>1. PICK s \in S : s.op.kind = "set" /\ s.op.elem = e.op.elem
            BY <2>1, <2>2 DEF ObjectGround, SetIds
        <3>2. PICK n \in v.nodes : NodeOf(n, s, S)
            BY <2>1, <3>1 DEF ObjectValue
        <3>3. n.createdAt = e.op.elem /\ n.createdAt \in Nat
            BY <2>1, <3>1, <3>2 DEF NodeOf, Object, Node
        <3> QED BY <3>3 DEF Nil
    <2> QED BY <2>2 DEF ObjectFails
<1>3. ExecInv => NoFatal
    BY <1>2, ObjectSound DEF ExecInv, ExecutionsInv
<1> QED BY <1>1, <1>3, PTL

\* Whatever order a replica has executed its changes in, it shows under every key
\* the element of the latest Set, unless that was removed, and its counter has all
\* the increases that were executed, wrapped to 64 bits (RHTPriorityQueueMap.Set and
\* DeleteByCreatedAt, Counter.Increase).
THEOREM LatestWins == ASSUME ObjectInstance PROVE Spec => []LastWriterWins
<1>1. Spec => []ExecInv
    <2>1. ~Collecting
        BY DEF ObjectInstance
    <2> QED BY <2>1, Execution
<1>2. ASSUME ExecInv, NEW c \in Clients, c \notin dead, NEW k \in Keys
      PROVE  Shown(data[c], k) = Winner(Executed(c), k)
    <2> DEFINE o == data[c]
               S == Executed(c)
               View(n) == [createdAt |-> n.createdAt, value |-> n.counter.value]
               ShownBy(s) == [createdAt |-> s.op.elem,
                              value |-> Wrapped(s.op.value
                                                + Total(Named(S, "increase", s.op.elem)))]
    <2>1. o \in Object /\ ObjectValue(o, S) /\ Operation = ObjectOperation
        BY <1>2, ReplicaValues DEF ObjectInstance
    <2>2. Winner(S, k) = {ShownBy(s) : s \in {t \in Sets(S, k) : Standing(S, k, t)}}
        <3>1. \A t \in Sets(S, k) :
                Standing(S, k, t) <=> /\ \A u \in Sets(S, k) : u.op.elem <= t.op.elem
                                      /\ Named(S, "remove", t.op.elem) = {}
            BY DEF Standing
        <3> QED BY <3>1 DEF Winner, Total
    <2>3. Shown(o, k) = {View(n) : n \in Get(o, k)}
        BY DEF Shown
    <2>4. \A n, s : NodeOf(n, s, S) => View(n) = ShownBy(s)
        BY DEF NodeOf
    <2> HIDE DEF o, S, View, ShownBy
    <2>5. \A n \in Get(o, k) : \E s \in {t \in Sets(S, k) : Standing(S, k, t)} : NodeOf(n, s, S)
        BY <2>1, ShownStands DEF Standing
    <2>6. \A s \in {t \in Sets(S, k) : Standing(S, k, t)} : \E n \in Get(o, k) : NodeOf(n, s, S)
        BY <2>1, StandingShown
    <2>7. {View(n) : n \in Get(o, k)} = {ShownBy(s) : s \in {t \in Sets(S, k) : Standing(S, k, t)}}
        BY <2>4, <2>5, <2>6
    <2> QED BY <2>2, <2>3, <2>7 DEF o, S
<1>3. ExecInv => LastWriterWins
    BY <1>2 DEF LastWriterWins
<1> QED BY <1>1, <1>3, PTL

\* A step of a replica that runs on takes none of its changes back.
LEMMA ExecutedGrows ==
    ASSUME ExecInv, ExecInv', ~Collecting, [Next]_vars, NEW c \in Clients, c \notin dead'
    PROVE  c \notin dead /\ Executed(c) \subseteq Executed(c)'
<1>1. OrderInv /\ OrderInv' /\ ClockIndInv /\ ClockIndInv'
    BY DEF ExecInv, OrderInv
<1>2. CASE UNCHANGED vars
    <2>1. UNCHANGED <<log, synced, data, clock, cp, local, pack, min, dead>>
        BY <1>2 DEF vars
    <2> QED BY <2>1 DEF Executed
<1>3. ASSUME NEW d \in Clients, Update(d)
      PROVE  c \notin dead /\ Executed(c) \subseteq Executed(c)'
    <2>1. PICK op : Updated(d, [op |-> op, actor |-> d, lamport |-> clock[d] + 1])
        BY <1>1, <1>3, UpdateFacts
    <2> DEFINE e == [op |-> op, actor |-> d, lamport |-> clock[d] + 1]
    <2>2. Updated(d, e) /\ pack[d] = <<>>
        BY <1>3, <2>1 DEF Update, Ready
    <2> HIDE DEF e
    <2>3. /\ Executed(d)' = Executed(d) \cup {e}
          /\ \A f \in Clients \ {d} : Executed(f)' = Executed(f)
        BY <1>1, <2>2, UpdateOrder
    <2> QED BY <2>2, <2>3 DEF Updated
<1>4. ASSUME NEW d \in Clients, Sync(d)
      PROVE  c \notin dead /\ Executed(c) \subseteq Executed(c)'
    <2>1. Pushed(d) /\ pack[d] = <<>>
        BY <1>1, <1>4, SyncFacts DEF Sync, Ready
    <2>2. /\ LogIdsInv'
          /\ \A f \in Clients \ {d} : Executed(f)' = Executed(f)
        BY <1>1, <2>1, SyncOrder
    <2>3. PullChanges(d) \/ PullSnapshot(d)
        BY <1>4 DEF Sync
    <2>4. CASE PullChanges(d)
        <3>1. Executed(d)' = Executed(d)
            BY <1>1, <2>1, <2>2, <2>4, SyncChanges
        <3> QED BY <2>1, <2>2, <3>1 DEF Pushed
    <2>5. CASE PullSnapshot(d)
        <3>1. Executed(d)' = {log[s] : s \in 1 .. Len(log)}
                             \cup {local[d][i] : i \in 1 .. Len(local[d])}
            BY <1>1, <2>1, <2>5, SyncSnapshot
        <3>2. Executed(d) = OfLogAndLocal(d)
            BY <1>1, <2>1, ExecutedReady
        <3>3. cp[d] \in Nat /\ cp[d] <= Len(log) /\ Len(log) \in Nat
            BY <1>1, ClientFacts
        <3>4. Executed(d) \subseteq Executed(d)'
            BY <3>1, <3>2, <3>3 DEF OfLogAndLocal
        <3> QED BY <2>1, <2>2, <3>4 DEF Pushed
    <2> QED BY <2>3, <2>4, <2>5
<1>5. ASSUME NEW d \in Clients, ApplyChange(d)
      PROVE  c \notin dead /\ Executed(c) \subseteq Executed(c)'
    <2>1. PICK k \in Nat, p \in Nat : Applied(d, k, p)
        BY <1>1, <1>5, ApplyFacts
    <2>2. \A f \in Clients \ {d} : Executed(f)' = Executed(f)
        BY <1>1, <2>1, ExecutedSame DEF Applied
    <2> QED BY <2>1, <2>2 DEF Applied
<1>6. ASSUME NEW d \in Clients, Collect(d)
      PROVE  c \notin dead /\ Executed(c) \subseteq Executed(c)'
    <2>1. Executed(c)' = Executed(c)
        BY <1>1, <1>6, CollectOrder
    <2> QED BY <1>6, <2>1 DEF Collect
<1> QED BY <1>2, <1>3, <1>4, <1>5, <1>6 DEF Next, ClientStep

\* What ends a client leaves its replica as it is.
LEMMA DeadStays ==
    ASSUME ClockIndInv, Shape, [Next]_vars, NEW c \in Clients, c \in dead'
    PROVE  data'[c] = data[c]
<1>1. CASE UNCHANGED vars
    BY <1>1 DEF vars
<1>2. ASSUME NEW d \in Clients, NEW e, ExecuteOn(d, e), d \notin dead
      PROVE  data'[c] = data[c]
    BY <1>2 DEF ExecuteOn, Shape
<1>3. ASSUME NEW d \in Clients, Update(d)
      PROVE  data'[c] = data[c]
    BY <1>2, <1>3 DEF Update, Ready
<1>4. ASSUME NEW d \in Clients, Sync(d)
      PROVE  data'[c] = data[c]
    <2>1. d \notin dead /\ (PullChanges(d) \/ PullSnapshot(d))
        BY <1>4 DEF Sync, Ready
    <2> QED BY <2>1 DEF PullChanges, PullSnapshot, Shape
<1>5. ASSUME NEW d \in Clients, ApplyChange(d)
      PROVE  data'[c] = data[c]
    BY <1>2, <1>5 DEF ApplyChange
<1>6. ASSUME NEW d \in Clients, Collect(d)
      PROVE  data'[c] = data[c]
    BY <1>6 DEF Collect, Shape
<1> QED BY <1>1, <1>3, <1>4, <1>5, <1>6 DEF Next, ClientStep

\* What a replica has replaced or removed it never shows again: whatever it executes
\* later, its own changes or those of others or a snapshot, the Set that stands is one
\* it already showed or one it did not know (RHTPriorityQueueMap.Set, applySnapshot).
THEOREM GoneStaysGone == ASSUME ObjectInstance PROVE Spec => NothingResurfaces
<1>1. ~Collecting /\ Operation = ObjectOperation
    BY DEF ObjectInstance
<1>2. Spec => []ExecInv
    BY <1>1, Execution
<1>3. ASSUME ExecInv, ExecInv', [Next]_vars, NEW c \in Clients, NEW k \in Keys,
             NEW n \in Get(data'[c], k)
      PROVE  \/ \E m \in Get(data[c], k) : m.createdAt = n.createdAt
             \/ \A m \in data[c].nodes : m.createdAt # n.createdAt
    <2>1. CASE c \in dead'
        <3>1. data'[c] = data[c]
            BY <1>3, <2>1, DeadStays DEF ExecInv, OrderInv
        <3> QED BY <3>1
    <2>2. CASE c \notin dead'
        <3> DEFINE o == data[c]
                   p == data'[c]
                   S == Executed(c)
                   T == Executed(c)'
        <3>1. c \notin dead /\ S \subseteq T
            BY <1>1, <1>3, <2>2, ExecutedGrows
        <3>2. o \in Object /\ ObjectValue(o, S)
            BY <1>3, <3>1, ReplicaValues
        <3>3. p \in Object /\ ObjectValue(p, T)
            <4>1. ValuesInv(ObjectValues)'
                BY <1>3, ObjectSound DEF ExecInv, ExecutionsInv
            <4>2. <<p, T>> \in ObjectValues
                BY <2>2, <4>1 DEF ValuesInv
            <4> HIDE DEF p, T
            <4> QED BY <4>2 DEF ObjectValues
        <3> HIDE DEF o, p, S, T
        <3>4. PICK t \in T : Standing(T, k, t) /\ NodeOf(n, t, T)
            BY <1>1, <1>3, <3>3, ShownStands DEF p
        <3>5. ASSUME NEW m \in o.nodes, m.createdAt = n.createdAt
              PROVE  \E q \in Get(o, k) : q.createdAt = n.createdAt
            <4>1. PICK s \in S : s.op.kind = "set" /\ NodeOf(m, s, S)
                BY <3>2 DEF ObjectValue
            <4>2. s = t
                <5>1. ObjectChanges(T) /\ s \in T /\ t.op.kind = "set"
                    BY <3>1, <3>3, <3>4 DEF ObjectValue, Standing, Sets
                <5>2. s.op.elem = t.op.elem
                    BY <3>4, <3>5, <4>1 DEF NodeOf
                <5> QED BY <3>4, <4>1, <5>1, <5>2, SetOnce
            <4>3. Standing(S, k, t)
                <5>1. Sets(S, k) \subseteq Sets(T, k)
                    BY <3>1 DEF Sets
                <5>2. Named(S, "remove", t.op.elem) \subseteq Named(T, "remove", t.op.elem)
                    BY <3>1 DEF Named
                <5>3. t \in Sets(S, k)
                    BY <3>4, <4>1, <4>2 DEF Standing, Sets
                <5> QED BY <3>4, <5>1, <5>2, <5>3 DEF Standing
            <4>4. PICK q \in Get(o, k) : NodeOf(q, t, S)
                BY <1>1, <3>2, <4>3, StandingShown
            <4> QED BY <3>4, <4>4 DEF NodeOf
        <3> QED BY <3>5 DEF o
    <2> QED BY <2>1, <2>2
<1>4. ExecInv /\ ExecInv' /\ [Next]_vars =>
        [\A c \in Clients : \A k \in Keys : \A n \in Get(data'[c], k) :
            \/ \E m \in Get(data[c], k) : m.createdAt = n.createdAt
            \/ \A m \in data[c].nodes : m.createdAt # n.createdAt]_vars
    BY <1>3
<1> QED BY <1>2, <1>4, PTL DEF Spec, NothingResurfaces
=============================================================================
