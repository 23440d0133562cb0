--------------------------- MODULE ReplicasProofs ---------------------------
(***************************************************************************)
(* Replicas, for any element, any number of clients and any number of      *)
(* changes.                                                                *)
(*                                                                         *)
(* The clocks: the lamport of a change is not above its server seq.        *)
(*                                                                         *)
(* The executions: a replica executes each change once, in an order in     *)
(* which the changes its author had executed come first, whether they come *)
(* as changes, inside a snapshot or are its own.  So whatever a value      *)
(* keeps while changes are executed in such an order holds of every        *)
(* replica.                                                                *)
(***************************************************************************)
EXTENDS Replicas, TLAPS, WellFoundedInduction

\* The argument needs nothing of a change but its lamport, so a sequence may
\* be one over any set.
IsSeq(q) == \E S : q \in Seq(S)
Lamports(q) == \A i \in 1 .. Len(q) : q[i].lamport \in Nat

ClockType ==
    /\ clock \in [Clients -> Nat]
    /\ cp \in [Clients -> Nat]
    /\ local = [c \in Clients |-> local[c]]
    /\ pack = [c \in Clients |-> pack[c]]
    /\ IsSeq(log) /\ Lamports(log)
    /\ \A c \in Clients : /\ IsSeq(local[c]) /\ Lamports(local[c])
                          /\ IsSeq(pack[c]) /\ Lamports(pack[c])

ClockIndInv == ClockType /\ LamportBound /\ ClockInv

-----------------------------------------------------------------------------
\* The length of a sequence is a natural number.
LEMMA LenFact ==
    ASSUME NEW q, IsSeq(q)
    PROVE  Len(q) \in Nat
<1>1. PICK S : q \in Seq(S)
    BY DEF IsSeq
<1> QED BY <1>1

\* What Update does to the local changes.
LEMMA AppendFacts ==
    ASSUME NEW q, NEW x, IsSeq(q)
    PROVE  /\ IsSeq(Append(q, x))
           /\ Len(Append(q, x)) = Len(q) + 1
           /\ \A i \in 1 .. Len(q) : Append(q, x)[i] = q[i]
           /\ Append(q, x)[Len(q) + 1] = x
<1>1. PICK S : q \in Seq(S)
    BY DEF IsSeq
<1> DEFINE T == S \cup {x}
<1>2. q \in Seq(T) /\ x \in T
    BY <1>1
<1> HIDE DEF T
<1>3. Append(q, x) \in Seq(T)
    BY <1>2
<1>4. IsSeq(Append(q, x))
    BY <1>3 DEF IsSeq
<1> QED BY <1>2, <1>4

\* What Sync does to the log.
LEMMA ConcatFacts ==
    ASSUME NEW p, NEW q, IsSeq(p), IsSeq(q)
    PROVE  /\ IsSeq(p \o q)
           /\ Len(p \o q) = Len(p) + Len(q)
           /\ \A i \in 1 .. Len(p) : (p \o q)[i] = p[i]
           /\ \A i \in 1 .. Len(q) : (p \o q)[Len(p) + i] = q[i]
<1>1. PICK S : p \in Seq(S)
    BY DEF IsSeq
<1>2. PICK T : q \in Seq(T)
    BY DEF IsSeq
<1> DEFINE U == S \cup T
<1>3. p \in Seq(U) /\ q \in Seq(U)
    BY <1>1, <1>2
<1> HIDE DEF U
<1>4. p \o q \in Seq(U)
    BY <1>3
<1>5. IsSeq(p \o q)
    BY <1>4 DEF IsSeq
<1> QED BY <1>3, <1>5

\* The changes Sync pulls.
LEMMA SubSeqFacts ==
    ASSUME NEW q, IsSeq(q), NEW n \in Nat, n <= Len(q)
    PROVE  /\ IsSeq(SubSeq(q, n + 1, Len(q)))
           /\ Len(SubSeq(q, n + 1, Len(q))) = Len(q) - n
           /\ \A i \in 1 .. (Len(q) - n) : SubSeq(q, n + 1, Len(q))[i] = q[n + i]
<1>1. PICK S : q \in Seq(S)
    BY DEF IsSeq
<1>2. SubSeq(q, n + 1, Len(q)) \in Seq(S)
    BY <1>1
<1>3. IsSeq(SubSeq(q, n + 1, Len(q)))
    BY <1>2 DEF IsSeq
<1> QED BY <1>1, <1>3

\* What ApplyChange leaves of the pack.
LEMMA TailFacts ==
    ASSUME NEW q, IsSeq(q), q # <<>>
    PROVE  /\ Len(q) >= 1
           /\ Head(q) = q[1]
           /\ IsSeq(Tail(q))
           /\ Len(Tail(q)) = Len(q) - 1
           /\ \A i \in 1 .. (Len(q) - 1) : Tail(q)[i] = q[i + 1]
<1>1. PICK S : q \in Seq(S)
    BY DEF IsSeq
<1>2. Tail(q) \in Seq(S)
    BY <1>1
<1>3. IsSeq(Tail(q))
    BY <1>2 DEF IsSeq
<1> QED BY <1>1, <1>3

\* The empty sequence.
LEMMA EmptyFacts == IsSeq(<<>>) /\ Len(<<>>) = 0
<1>1. <<>> \in Seq({})
    OBVIOUS
<1> QED BY <1>1 DEF IsSeq

-----------------------------------------------------------------------------
\* A change of a client has a lamport one above a clock that counts at most
\* the changes its replica has executed.
LEMMA UpdateStep ==
    ASSUME ClockIndInv, NEW c \in Clients, Update(c)
    PROVE  ClockIndInv'
<1>0. PICK op : local' = [local EXCEPT ![c] = Append(@, [op |-> op, actor |-> c,
                                                        lamport |-> clock[c] + 1])]
    BY DEF Update
<1> DEFINE change == [op |-> op, actor |-> c, lamport |-> clock[c] + 1]
<1>1. /\ clock' = [clock EXCEPT ![c] = @ + 1]
      /\ local' = [local EXCEPT ![c] = Append(@, change)]
      /\ UNCHANGED <<log, cp, pack>>
      /\ pack[c] = <<>>
    BY <1>0 DEF Update, Ready
<1>2. change.lamport = clock[c] + 1 /\ clock[c] \in Nat /\ cp[c] \in Nat /\ IsSeq(local[c])
    BY DEF ClockIndInv, ClockType
<1> HIDE DEF change
<1>3. local'[c] = Append(local[c], change) /\ \A d \in Clients \ {c} : local'[d] = local[d]
    BY <1>1 DEF ClockIndInv, ClockType
<1>4. clock'[c] = clock[c] + 1 /\ \A d \in Clients \ {c} : clock'[d] = clock[d]
    BY <1>1 DEF ClockIndInv, ClockType
<1>5. /\ IsSeq(local'[c]) /\ Len(local[c]) \in Nat /\ Len(local'[c]) = Len(local[c]) + 1
      /\ \A i \in 1 .. Len(local[c]) : local'[c][i] = local[c][i]
      /\ local'[c][Len(local[c]) + 1] = change
    BY <1>2, <1>3, AppendFacts, LenFact
<1>6. Len(pack[c]) = 0
    BY <1>1, EmptyFacts
<1>7. clock[c] <= cp[c] + Len(local[c])
    BY <1>2, <1>5, <1>6 DEF ClockIndInv, ClockInv
<1>8. \A i \in 1 .. Len(local'[c]) :
        local'[c][i].lamport \in Nat /\ local'[c][i].lamport <= cp[c] + i
    <2> TAKE i \in 1 .. Len(local'[c])
    <2>1. CASE i \in 1 .. Len(local[c])
        BY <1>5, <2>1 DEF ClockIndInv, ClockInv, ClockType, Lamports
    <2>2. CASE i = Len(local[c]) + 1
        <3>1. local'[c][i].lamport = clock[c] + 1
            BY <1>2, <1>5, <2>2
        <3> DEFINE n == Len(local[c])
                   k == clock[c]
        <3>2. n \in Nat /\ k \in Nat /\ k <= cp[c] + n /\ i = n + 1
            BY <1>2, <1>5, <1>7, <2>2
        <3> HIDE DEF n, k
        <3>3. k + 1 \in Nat /\ k + 1 <= cp[c] + i
            BY <1>2, <3>2
        <3> QED BY <3>1, <3>3 DEF k
    <2> QED BY <1>5, <2>1, <2>2
<1>9. ClockType'
    <2>1. clock' \in [Clients -> Nat]
        BY <1>1, <1>2 DEF ClockIndInv, ClockType
    <2>3. local' = [d \in Clients |-> local'[d]]
        BY <1>1 DEF ClockIndInv, ClockType
    <2>2. \A d \in Clients : IsSeq(local'[d]) /\ Lamports(local'[d])
        BY <1>3, <1>5, <1>8 DEF ClockIndInv, ClockType, Lamports
    <2> QED BY <1>1, <2>1, <2>2, <2>3 DEF ClockIndInv, ClockType
<1>10. LamportBound'
    BY <1>1 DEF ClockIndInv, LamportBound
<1>11. ClockInv'
    <2> SUFFICES ASSUME NEW d \in Clients
                 PROVE  /\ cp[d] <= Len(log)
                        /\ Len(pack[d]) <= cp[d]
                        /\ clock'[d] <= cp[d] - Len(pack[d]) + Len(local'[d])
                        /\ \A i \in 1 .. Len(local'[d]) : local'[d][i].lamport <= cp[d] + i
                        /\ \A i \in 1 .. Len(pack[d]) :
                              pack[d][i].lamport <= cp[d] - Len(pack[d]) + i
        BY <1>1 DEF ClockInv
    <2>1. CASE d = c
        <3>1. cp[c] <= Len(log)
            BY DEF ClockIndInv, ClockInv
        <3>2. Len(pack[c]) <= cp[c] /\ clock'[c] <= cp[c] - Len(pack[c]) + Len(local'[c])
            BY <1>2, <1>4, <1>5, <1>6, <1>7
        <3>3. \A i \in 1 .. Len(pack[c]) : pack[c][i].lamport <= cp[c] - Len(pack[c]) + i
            BY <1>6
        <3> QED BY <1>8, <2>1, <3>1, <3>2, <3>3
    <2>2. CASE d # c
        BY <1>3, <1>4, <2>2 DEF ClockIndInv, ClockInv
    <2> QED BY <2>1, <2>2
<1> QED BY <1>9, <1>10, <1>11 DEF ClockIndInv

\* What Sync has pulled for c, be it changes or a snapshot: the clock and the
\* changes still to be executed fit below the new checkpoint.
Pulled(c) ==
    LET checkpoint == Len(log) + Len(local[c])
    IN  /\ pack' = [d \in Clients |-> pack'[d]]
        /\ clock' \in [Clients -> Nat]
        /\ \A d \in Clients \ {c} : pack'[d] = pack[d] /\ clock'[d] = clock[d]
        /\ IsSeq(pack'[c])
        /\ Len(pack'[c]) <= Len(log) - cp[c]
        /\ clock'[c] <= checkpoint - Len(pack'[c])
        /\ \A i \in 1 .. Len(pack'[c]) :
              /\ pack'[c][i].lamport \in Nat
              /\ pack'[c][i].lamport <= checkpoint - Len(pack'[c]) + i

\* The types Sync needs of a client that is ready.
LEMMA ReadyFacts ==
    ASSUME ClockIndInv, NEW c \in Clients, pack[c] = <<>>
    PROVE  /\ IsSeq(log) /\ IsSeq(local[c]) /\ cp[c] \in Nat /\ clock[c] \in Nat
           /\ Len(log) \in Nat /\ Len(local[c]) \in Nat /\ cp[c] <= Len(log)
           /\ clock[c] <= cp[c] + Len(local[c])
<1>1. Len(pack[c]) = 0
    BY EmptyFacts
<1>2. /\ IsSeq(log) /\ IsSeq(local[c]) /\ cp[c] \in Nat /\ clock[c] \in Nat
      /\ cp[c] <= Len(log) /\ clock[c] <= cp[c] - Len(pack[c]) + Len(local[c])
    BY DEF ClockIndInv, ClockType, ClockInv
<1>3. Len(log) \in Nat /\ Len(local[c]) \in Nat
    BY <1>2, LenFact
<1> QED BY <1>1, <1>2, <1>3

\* The changes behind the checkpoint have lamports up to their server seqs.
LEMMA ChangesPulled ==
    ASSUME ClockIndInv, NEW c \in Clients, pack[c] = <<>>, PullChanges(c)
    PROVE  Pulled(c)
<1> DEFINE p == SubSeq(log, cp[c] + 1, Len(log))
           n == Len(log)
           m == Len(local[c])
<1>1. pack' = [pack EXCEPT ![c] = p] /\ clock' = clock
    BY DEF PullChanges
<1>2. /\ IsSeq(log) /\ cp[c] \in Nat /\ clock[c] \in Nat /\ n \in Nat /\ m \in Nat
      /\ cp[c] <= n /\ clock[c] <= cp[c] + m
    BY ReadyFacts
<1>3. /\ IsSeq(p) /\ Len(p) = n - cp[c]
      /\ \A i \in 1 .. (n - cp[c]) : p[i] = log[cp[c] + i]
    BY <1>2, SubSeqFacts, Zenon
<1> HIDE DEF p
<1>4. \A i \in 1 .. Len(p) : p[i].lamport \in Nat /\ p[i].lamport <= cp[c] + i
    <2> TAKE i \in 1 .. Len(p)
    <2> HIDE DEF n
    <2>1. p[i] = log[cp[c] + i]
        BY <1>3
    <2>2. i \in Nat /\ 1 <= i /\ i <= n - cp[c]
        BY <1>2, <1>3
    <2>3. cp[c] + i \in 1 .. n
        BY <1>2, <2>2
    <2> QED BY <2>1, <2>3 DEF n, ClockIndInv, ClockType, LamportBound, Lamports
<1>5. n + m - Len(p) = cp[c] + m
    BY <1>2, <1>3
<1> HIDE DEF n, m
<1>6. \A i \in 1 .. Len(p) : p[i].lamport \in Nat /\ p[i].lamport <= n + m - Len(p) + i
    BY <1>2, <1>4, <1>5
<1>7. /\ pack' = [d \in Clients |-> pack'[d]] /\ pack'[c] = p
      /\ \A d \in Clients \ {c} : pack'[d] = pack[d]
      /\ clock' \in [Clients -> Nat] /\ clock' = clock
    BY <1>1 DEF ClockIndInv, ClockType
<1>8. Len(p) <= n - cp[c] /\ clock[c] <= n + m - Len(p)
    BY <1>2, <1>3, <1>5
<1> QED BY <1>3, <1>6, <1>7, <1>8 DEF Pulled, n, m

\* The server seq of the new checkpoint is above the clock of a client that is
\* behind, and becomes its clock.
LEMMA SnapshotPulled ==
    ASSUME ClockIndInv, NEW c \in Clients, pack[c] = <<>>, PullSnapshot(c),
           Len(log) - cp[c] >= 1
    PROVE  Pulled(c)
<1> DEFINE n == Len(log)
           m == Len(local[c])
           k == clock[c]
<1>1. pack' = pack /\ clock' = [clock EXCEPT ![c] = SyncLamport(k, n + m)]
    BY DEF PullSnapshot
<1>2. /\ cp[c] \in Nat /\ k \in Nat /\ n \in Nat /\ m \in Nat
      /\ k <= cp[c] + m /\ n - cp[c] >= 1
    BY ReadyFacts
<1> HIDE DEF n, m, k
<1>3. k < n + m /\ n + m \in Nat /\ 0 <= n - cp[c]
    BY <1>2
<1>4. SyncLamport(k, n + m) = n + m
    BY <1>3 DEF SyncLamport
<1>5. /\ pack' = [d \in Clients |-> pack'[d]] /\ pack'[c] = <<>>
      /\ \A d \in Clients \ {c} : pack'[d] = pack[d] /\ clock'[d] = clock[d]
      /\ clock' \in [Clients -> Nat] /\ clock'[c] = n + m
    BY <1>1, <1>3, <1>4 DEF ClockIndInv, ClockType
<1>6. IsSeq(pack'[c]) /\ Len(pack'[c]) = 0
    BY <1>5, EmptyFacts
<1>7. n + m <= n + m - 0
    BY <1>2
<1> QED BY <1>3, <1>5, <1>6, <1>7 DEF Pulled, n, m

\* Sync gives the i-th local change a server seq of at least cp + i.
LEMMA SyncStep ==
    ASSUME ClockIndInv, NEW c \in Clients, Sync(c)
    PROVE  ClockIndInv'
<1>1. /\ log' = log \o local[c]
      /\ cp' = [cp EXCEPT ![c] = Len(log) + Len(local[c])]
      /\ local' = [local EXCEPT ![c] = <<>>]
      /\ pack[c] = <<>>
    BY DEF Sync, Ready
<1>2. /\ IsSeq(log) /\ IsSeq(local[c]) /\ cp[c] \in Nat
      /\ Len(log) \in Nat /\ Len(local[c]) \in Nat /\ cp[c] <= Len(log)
    BY <1>1, ReadyFacts
<1>3. Pulled(c)
    <2>1. PICK threshold \in Thresholds :
            IF Len(log) - cp[c] < threshold THEN PullChanges(c) ELSE PullSnapshot(c)
        BY DEF Sync
    <2>2. threshold \in Nat /\ threshold >= 1
        BY ThresholdsAssumption
    <2>3. CASE Len(log) - cp[c] < threshold
        BY <1>1, <2>1, <2>3, ChangesPulled
    <2>4. CASE ~(Len(log) - cp[c] < threshold)
        <3>1. Len(log) - cp[c] >= 1
            BY <1>2, <2>2, <2>4
        <3> QED BY <1>1, <2>1, <2>4, <3>1, SnapshotPulled
    <2> QED BY <2>3, <2>4
<1> DEFINE n == Len(log)
           m == Len(local[c])
           q == Len(pack'[c])
<1>4. /\ pack' = [d \in Clients |-> pack'[d]] /\ IsSeq(pack'[c]) /\ clock' \in [Clients -> Nat]
      /\ \A d \in Clients \ {c} : pack'[d] = pack[d] /\ clock'[d] = clock[d]
      /\ q <= n - cp[c] /\ clock'[c] <= n + m - q
      /\ \A i \in 1 .. q :
            pack'[c][i].lamport \in Nat /\ pack'[c][i].lamport <= n + m - q + i
    BY <1>3 DEF Pulled
<1>5. q \in Nat
    BY <1>4, LenFact
<1>6. /\ IsSeq(log') /\ Len(log') = Len(log) + Len(local[c])
      /\ \A i \in 1 .. Len(log) : log'[i] = log[i]
      /\ \A i \in 1 .. Len(local[c]) : log'[Len(log) + i] = local[c][i]
    BY <1>1, <1>2, ConcatFacts
<1>7. \A s \in 1 .. Len(log') : log'[s].lamport \in Nat /\ log'[s].lamport <= s
    <2> SUFFICES ASSUME NEW s \in 1 .. Len(log')
                 PROVE  log'[s].lamport \in Nat /\ log'[s].lamport <= s
        OBVIOUS
    <2>1. CASE s <= Len(log)
        <3>1. s \in 1 .. Len(log)
            BY <1>2, <1>6, <2>1
        <3>2. log'[s] = log[s]
            BY <1>6, <3>1
        <3>3. log[s].lamport \in Nat /\ log[s].lamport <= s
            BY <3>1 DEF ClockIndInv, ClockType, LamportBound, Lamports
        <3> QED BY <3>2, <3>3
    <2>2. CASE s > Len(log)
        <3> DEFINE i == s - Len(log)
        <3>1. i \in 1 .. Len(local[c]) /\ s = Len(log) + i
            BY <1>2, <1>6, <2>2
        <3> HIDE DEF i
        <3>2. log'[s] = local[c][i]
            BY <1>6, <3>1
        <3>3. local[c][i].lamport \in Nat /\ local[c][i].lamport <= cp[c] + i
            BY <3>1 DEF ClockIndInv, ClockType, ClockInv, Lamports
        <3> QED BY <1>2, <3>1, <3>2, <3>3
    <2>3. s <= Len(log) \/ s > Len(log)
        BY <1>2, <1>6
    <2> QED BY <2>1, <2>2, <2>3
<1>8. /\ local'[c] = <<>> /\ \A d \in Clients \ {c} : local'[d] = local[d]
      /\ cp'[c] = n + m /\ \A d \in Clients \ {c} : cp'[d] = cp[d]
    BY <1>1 DEF ClockIndInv, ClockType
<1>9. ClockType'
    <2>1. cp' \in [Clients -> Nat]
        BY <1>1, <1>2 DEF ClockIndInv, ClockType
    <2>2. local' = [d \in Clients |-> local'[d]]
        BY <1>1 DEF ClockIndInv, ClockType
    <2>3. IsSeq(log') /\ Lamports(log')
        BY <1>6, <1>7 DEF Lamports
    <2>4. \A d \in Clients : IsSeq(local'[d]) /\ Lamports(local'[d])
        <3>1. Lamports(<<>>)
            BY EmptyFacts DEF Lamports
        <3> QED BY <1>8, <3>1, EmptyFacts DEF ClockIndInv, ClockType
    <2>5. \A d \in Clients : IsSeq(pack'[d]) /\ Lamports(pack'[d])
        BY <1>4 DEF ClockIndInv, ClockType, Lamports
    <2> QED BY <1>4, <2>1, <2>2, <2>3, <2>4, <2>5 DEF ClockType
<1>10. LamportBound'
    BY <1>7 DEF LamportBound
<1>11. ClockInv'
    <2> SUFFICES ASSUME NEW d \in Clients
                 PROVE  /\ cp'[d] <= Len(log')
                        /\ Len(pack'[d]) <= cp'[d]
                        /\ clock'[d] <= cp'[d] - Len(pack'[d]) + Len(local'[d])
                        /\ \A i \in 1 .. Len(local'[d]) : local'[d][i].lamport <= cp'[d] + i
                        /\ \A i \in 1 .. Len(pack'[d]) :
                              pack'[d][i].lamport <= cp'[d] - Len(pack'[d]) + i
        BY DEF ClockInv
    <2>1. CASE d = c
        <3>1. Len(local'[c]) = 0
            BY <1>8, EmptyFacts
        <3>2. cp'[c] <= Len(log')
            BY <1>2, <1>6, <1>8
        <3>3. q <= cp'[c]
            BY <1>2, <1>4, <1>5, <1>8
        <3>4. clock'[c] <= cp'[c] - q + Len(local'[c])
            <4>1. clock'[c] <= cp'[c] - q
                BY <1>4, <1>8
            <4>2. cp'[c] - q + Len(local'[c]) = cp'[c] - q
                <5>1. cp'[c] \in Nat
                    BY <1>2, <1>8
                <5> HIDE DEF q
                <5> QED BY <1>5, <3>1, <5>1
            <4> QED BY <4>1, <4>2
        <3>5. \A i \in 1 .. q : pack'[c][i].lamport <= cp'[c] - q + i
            BY <1>4, <1>8
        <3>6. \A i \in 1 .. Len(local'[c]) : local'[c][i].lamport <= cp'[c] + i
            BY <3>1
        <3> QED BY <2>1, <3>2, <3>3, <3>4, <3>5, <3>6
    <2>2. CASE d # c
        <3>1. cp[d] \in Nat /\ cp[d] <= Len(log)
            BY DEF ClockIndInv, ClockInv, ClockType
        <3>2. cp'[d] <= Len(log')
            BY <1>2, <1>6, <1>8, <2>2, <3>1
        <3> QED BY <1>4, <1>8, <2>2, <3>2 DEF ClockIndInv, ClockInv
    <2> QED BY <2>1, <2>2
<1> QED BY <1>9, <1>10, <1>11 DEF ClockIndInv

\* ApplyChange raises the clock by one or to the lamport of the change, which
\* is bounded by the place of the change.
LEMMA ApplyStep ==
    ASSUME ClockIndInv, NEW c \in Clients, ApplyChange(c)
    PROVE  ClockIndInv'
<1> DEFINE p == pack[c]
           l == SyncLamport(clock[c], Head(p).lamport)
<1>1. /\ clock' = [clock EXCEPT ![c] = l]
      /\ pack' = [pack EXCEPT ![c] = Tail(p)]
      /\ UNCHANGED <<log, cp, local>>
      /\ p # <<>>
    BY DEF ApplyChange
<1>2. /\ IsSeq(p) /\ Lamports(p) /\ cp[c] \in Nat /\ clock[c] \in Nat
      /\ Len(p) \in Nat /\ Len(local[c]) \in Nat /\ Len(p) <= cp[c]
    BY LenFact DEF ClockIndInv, ClockType, ClockInv
<1>3. /\ Len(p) >= 1 /\ Head(p) = p[1] /\ IsSeq(Tail(p)) /\ Len(Tail(p)) = Len(p) - 1
      /\ \A i \in 1 .. (Len(p) - 1) : Tail(p)[i] = p[i + 1]
    BY <1>1, <1>2, TailFacts
<1>4. /\ \A i \in 1 .. Len(p) : p[i].lamport \in Nat /\ p[i].lamport <= cp[c] - Len(p) + i
      /\ clock[c] <= cp[c] - Len(p) + Len(local[c])
    BY <1>2 DEF ClockIndInv, ClockInv, Lamports
<1>5. l \in Nat /\ l <= cp[c] - (Len(p) - 1) + Len(local[c])
    <2>1. Head(p).lamport \in Nat /\ Head(p).lamport <= cp[c] - Len(p) + 1
        BY <1>2, <1>3, <1>4
    <2> DEFINE h == Head(p).lamport
    <2>2. l = IF clock[c] < h THEN h ELSE clock[c] + 1
        BY DEF SyncLamport
    <2>3. h \in Nat /\ h <= cp[c] - Len(p) + 1
        BY <2>1
    <2> DEFINE n == Len(p)
               m == Len(local[c])
               k == clock[c]
               s == cp[c]
    <2>4. n \in Nat /\ m \in Nat /\ k \in Nat /\ s \in Nat /\ k <= s - n + m
        BY <1>2, <1>4
    <2>5. l = IF k < h THEN h ELSE k + 1
        BY <2>2
    <2> HIDE DEF h, l, p, n, m, k, s
    <2>6. CASE k < h
        BY <2>3, <2>4, <2>5, <2>6 DEF n, m, s
    <2>7. CASE ~(k < h)
        BY <2>3, <2>4, <2>5, <2>7 DEF n, m, s
    <2> QED BY <2>6, <2>7
<1>6. \A i \in 1 .. (Len(p) - 1) :
        Tail(p)[i].lamport \in Nat /\ Tail(p)[i].lamport <= cp[c] - (Len(p) - 1) + i
    <2> TAKE i \in 1 .. (Len(p) - 1)
    <2>1. i + 1 \in 1 .. Len(p) /\ Tail(p)[i] = p[i + 1]
        BY <1>2, <1>3
    <2>2. p[i + 1].lamport \in Nat /\ p[i + 1].lamport <= cp[c] - Len(p) + (i + 1)
        BY <1>4, <2>1
    <2>4. i \in Int /\ cp[c] \in Int /\ Len(p) \in Int
        BY <1>2
    <2>3. cp[c] - Len(p) + (i + 1) = cp[c] - (Len(p) - 1) + i
        BY <2>4
    <2> QED BY <2>1, <2>2, <2>3
<1> HIDE DEF l
<1>7. /\ clock'[c] = l /\ \A d \in Clients \ {c} : clock'[d] = clock[d]
      /\ pack'[c] = Tail(p) /\ \A d \in Clients \ {c} : pack'[d] = pack[d]
    BY <1>1 DEF ClockIndInv, ClockType
<1>8. ClockType'
    BY <1>1, <1>2, <1>3, <1>5, <1>6, <1>7 DEF ClockIndInv, ClockType, Lamports
<1>9. LamportBound'
    BY <1>1 DEF ClockIndInv, LamportBound
<1>10. ClockInv'
    <2> SUFFICES ASSUME NEW d \in Clients
                 PROVE  /\ cp[d] <= Len(log)
                        /\ Len(pack'[d]) <= cp[d]
                        /\ clock'[d] <= cp[d] - Len(pack'[d]) + Len(local[d])
                        /\ \A i \in 1 .. Len(local[d]) : local[d][i].lamport <= cp[d] + i
                        /\ \A i \in 1 .. Len(pack'[d]) :
                              pack'[d][i].lamport <= cp[d] - Len(pack'[d]) + i
        BY <1>1 DEF ClockInv
    <2>1. CASE d = c
        <3>1. Len(pack'[c]) = Len(p) - 1 /\ Len(pack'[c]) <= cp[c]
            BY <1>2, <1>3, <1>7
        <3>2. clock'[c] <= cp[c] - Len(pack'[c]) + Len(local[c])
            BY <1>5, <1>7, <3>1
        <3>3. \A i \in 1 .. Len(pack'[c]) : pack'[c][i].lamport <= cp[c] - Len(pack'[c]) + i
            BY <1>6, <1>7, <3>1
        <3> QED BY <2>1, <3>1, <3>2, <3>3 DEF ClockIndInv, ClockInv
    <2>2. CASE d # c
        BY <1>7, <2>2 DEF ClockIndInv, ClockInv
    <2> QED BY <2>1, <2>2
<1> QED BY <1>8, <1>9, <1>10 DEF ClockIndInv

\* The bounds on the clocks and the changes of every replica hold always: no
\* order of edits, pulled changes and snapshots lets a clock run ahead of what
\* its replica has executed.
THEOREM ClocksBounded == Spec => [](LamportBound /\ ClockInv)
<1>1. Init => ClockIndInv
    BY EmptyFacts DEF Init, ClockIndInv, ClockType, ClockInv, LamportBound, Lamports
<1>2. ClockIndInv /\ [Next]_vars => ClockIndInv'
    <2> SUFFICES ASSUME ClockIndInv, [Next]_vars
                 PROVE  ClockIndInv'
        OBVIOUS
    <2>1. ASSUME NEW c \in Clients, Update(c)
          PROVE  ClockIndInv'
        BY <2>1, UpdateStep
    <2>2. ASSUME NEW c \in Clients, Sync(c)
          PROVE  ClockIndInv'
        BY <2>2, SyncStep
    <2>3. ASSUME NEW c \in Clients, ApplyChange(c)
          PROVE  ClockIndInv'
        BY <2>3, ApplyStep
    <2>4. ASSUME NEW c \in Clients, Collect(c)
          PROVE  ClockIndInv'
        BY <2>4 DEF Collect, ClockIndInv, ClockType, ClockInv, LamportBound
    <2>5. CASE UNCHANGED vars
        BY <2>5 DEF vars, ClockIndInv, ClockType, ClockInv, LamportBound
    <2> QED BY <2>1, <2>2, <2>3, <2>4, <2>5 DEF Next, ClientStep
<1>3. ClockIndInv => LamportBound /\ ClockInv
    BY DEF ClockIndInv
<1> QED BY <1>1, <1>2, <1>3, PTL DEF Spec

\* For any element, any number of clients and any changes, no lamport in the
\* log is above its server seq, so a clock synced with the server seq of a
\* snapshot is ahead of every ticket in the snapshot.
THEOREM LamportsBounded == Spec => []LamportBound
BY ClocksBounded, PTL

-----------------------------------------------------------------------------
(***************************************************************************)
(* What every replica executes                                             *)
(***************************************************************************)

\* change.ID: no two changes have the same lamport and actor.
SameId(e, f) == e.lamport = f.lamport /\ e.actor = f.actor

\* The changes of S are changes of T, of every client the first ones.
Complete(S, T) ==
    /\ S \subseteq T
    /\ \A f \in T, g \in S : f.actor = g.actor /\ f.lamport < g.lamport => f \in S

\* What a property of the values needs.  R are the pairs of a value and the set
\* of changes that were executed to reach it, W the pairs of a change and a set of
\* changes that has all its author had executed.
Sound(R, W) ==
    /\ <<Empty, {}>> \in R
    /\ \A v, S : <<v, S>> \in R =>
        <<Decoded(v), S>> \in R /\ <<GarbageCollect(v, InitialTicket), S>> \in R
    /\ \A e, S, T : <<e, S>> \in W /\ Complete(S, T) /\ T \subseteq Change => <<e, T>> \in W
    /\ \A v, S, c, l, op :
        /\ <<v, S>> \in R /\ S \subseteq Change
        /\ c \in Clients /\ l \in Nat \ {0} /\ \A f \in S : f.lamport < l
        /\ op \in Operations(v, TicketOf(l, c))
        => /\ [op |-> op, actor |-> c, lamport |-> l] \in Change
           /\ <<[op |-> op, actor |-> c, lamport |-> l], S>> \in W
    /\ \A v, S, e :
        /\ <<v, S>> \in R /\ S \subseteq Change
        /\ <<e, S>> \in W /\ e \in Change /\ \A f \in S : ~SameId(e, f)
        /\ ~Fails(v, e.op, At(e))
        => <<Execute(v, e.op, At(e)), S \cup {e}>> \in R

\* The operations of such changes do not fail on such values.
NeverFails(R, W) ==
    \A v, S, e :
        <<v, S>> \in R /\ S \subseteq Change /\ <<e, S>> \in W /\ e \in Change
        => ~Fails(v, e.op, At(e))

-----------------------------------------------------------------------------
(***************************************************************************)
(* The inductive invariant                                                 *)
(***************************************************************************)

\* All changes are well-typed.
ChangesInv ==
    /\ \A s \in 1 .. Len(log) : log[s] \in Change
    /\ \A c \in Clients : \A i \in 1 .. Len(local[c]) : local[c][i] \in Change

\* No two changes of the log have the same ID, those of a client are in the order of
\* their lamports, and the client has received them.
LogIdsInv ==
    /\ \A s, t \in 1 .. Len(log) : SameId(log[s], log[t]) => s = t
    /\ \A s, t \in 1 .. Len(log) :
            s < t /\ log[s].actor = log[t].actor => log[s].lamport < log[t].lamport
    /\ \A c \in Clients : \A s \in 1 .. Len(log) : log[s].actor = c =>
        /\ s <= cp[c]
        /\ \A i \in 1 .. Len(local[c]) : log[s].lamport < local[c][i].lamport

\* The local changes are the client's own, in the order of their lamports.
LocalInv ==
    \A c \in Clients :
        /\ \A i \in 1 .. Len(local[c]) : local[c][i].actor = c
        /\ \A i, j \in 1 .. Len(local[c]) : i < j => local[c][i].lamport < local[c][j].lamport

\* What is left of a pack are the last changes before the k the client pushed.
PackOf(c, k) ==
    /\ k + Len(pack[c]) <= cp[c]
    /\ \A s \in (cp[c] - k + 1) .. cp[c] : log[s].actor = c
    /\ \A i \in 1 .. Len(pack[c]) :
        /\ pack[c][i] = log[cp[c] - k - Len(pack[c]) + i]
        /\ pack[c][i].actor # c
PackInv ==
    \A c \in Clients :
        /\ pack[c] # <<>> => local[c] = <<>>
        /\ \E k \in Nat : PackOf(c, k)

\* A clock is not behind any change its replica has executed.
AheadInv == \A c \in Clients : \A e \in Executed(c) : e.lamport <= clock[c]

\* Before every change in the log come those its author had executed.
LogBefore(s) == {log[t] : t \in 1 .. (s - 1)}
LocalBefore(c, i) == {log[s] : s \in 1 .. cp[c]} \cup {local[c][j] : j \in 1 .. (i - 1)}
GroundInv(W) ==
    /\ \A s \in 1 .. Len(log) : <<log[s], LogBefore(s)>> \in W
    /\ \A c \in Clients : \A i \in 1 .. Len(local[c]) : <<local[c][i], LocalBefore(c, i)>> \in W

\* Without collection no minimum is ever above 0.
SyncedInv == \A c \in Clients : synced[c] = 0 /\ min[c] \in {Nil, 0}

\* The value of every replica that runs is one its changes lead to.
ValuesInv(R) == \A c \in Clients : c \notin dead => <<data[c], Executed(c)>> \in R

Shape == /\ data = [c \in Clients |-> data[c]]
         /\ synced = [c \in Clients |-> synced[c]]
         /\ min = [c \in Clients |-> min[c]]

OrderInv ==
    ClockIndInv /\ Shape /\ LogIdsInv /\ LocalInv /\ PackInv /\ AheadInv /\ SyncedInv

\* So it is for all that a property of the values may need, and where no operation
\* fails every replica runs.
ExecutionsInv ==
    \A R, W : Sound(R, W) =>
        ChangesInv /\ GroundInv(W) /\ ValuesInv(R) /\ (NeverFails(R, W) => NoFatal)

ExecInv == OrderInv /\ ExecutionsInv

-----------------------------------------------------------------------------
(***************************************************************************)
(* Naturals and Replay                                                     *)
(***************************************************************************)

\* Every nonempty set of naturals has a least element.
LEMMA LeastNatural ==
    ASSUME NEW T, T \subseteq Nat, T # {}
    PROVE  \E m \in T : \A n \in T : m <= n
<1> DEFINE R == OpToRel(<, Nat)
<1>1. IsWellFoundedOn(R, Nat)
    BY NatLessThanWellFounded
<1>2. \A x, y \in Nat : <<y, x>> \in R <=> y < x
    BY DEF OpToRel
<1> HIDE DEF R
<1>3. \E x \in T : \A y \in T : ~(<<y, x>> \in R)
    BY <1>1, WFMin
<1>4. PICK x \in T : \A y \in T : ~(<<y, x>> \in R)
    BY <1>3
<1>5. \A y \in T : ~(y < x)
    BY <1>2, <1>4
<1>6. \A y \in T : x <= y
    BY <1>5
<1> QED BY <1>6

\* Induction, for a set: what holds of 0 and of the successor of whatever it holds
\* of, up to a bound, holds up to the bound.
LEMMA BoundedInduction ==
    ASSUME NEW n \in Nat, NEW T, 0 \in T, \A i \in 1 .. n : i - 1 \in T => i \in T
    PROVE  \A i \in 0 .. n : i \in T
<1> DEFINE B == {i \in 0 .. n : i \notin T}
<1> SUFFICES ASSUME B # {} PROVE FALSE
    OBVIOUS
<1>1. B \subseteq Nat
    OBVIOUS
<1>2. PICK m \in B : \A i \in B : m <= i
    BY <1>1, LeastNatural
<1>3. m \in 1 .. n /\ m - 1 \in 0 .. n
    BY <1>2
<1>4. m - 1 \in T
    BY <1>2, <1>3
<1> QED BY <1>2, <1>3, <1>4

\* Replay goes through the changes one by one.
LEMMA ReplayFcn ==
    ASSUME NEW v, NEW q, Len(q) \in Nat
    PROVE  \E f : /\ f[0] = [value |-> v, failed |-> FALSE]
                  /\ \A i \in 1 .. Len(q) : f[i] = ReplayStep(f[i - 1], q[i])
                  /\ Replay(v, q) = f[Len(q)]
<1> DEFINE Step(x, i) == IF i = 0 THEN [value |-> v, failed |-> FALSE]
                                  ELSE ReplayStep(x[i - 1], q[i])
           P(f, n) == f = [i \in 0 .. n |-> Step(f, i)]
           T == {n \in Nat : \E f : P(f, n)}
<1>1. 0 \in T
    <2> DEFINE g == [i \in 0 .. 0 |-> [value |-> v, failed |-> FALSE]]
    <2>1. P(g, 0)
        OBVIOUS
    <2> QED BY <2>1
<1>2. ASSUME NEW n \in 1 .. Len(q), n - 1 \in T
      PROVE  n \in T
    <2>1. PICK f : P(f, n - 1)
        BY <1>2
    <2> DEFINE g == [i \in 0 .. n |-> Step(f, i)]
    <2>2. \A i \in 0 .. (n - 1) : f[i] = Step(f, i) /\ g[i] = Step(f, i)
        <3> HIDE DEF Step
        <3> QED BY <1>2, <2>1
    <2>3. \A i \in 0 .. n : i # 0 => i - 1 \in 0 .. (n - 1)
        BY <1>2
    <2>4. \A i \in 0 .. n : Step(g, i) = Step(f, i)
        <3> HIDE DEF g
        <3> QED BY <2>2, <2>3
    <2>5. P(g, n)
        <3> HIDE DEF Step
        <3> QED BY <2>4
    <2>6. n \in Nat
        BY <1>2
    <2>7. \E x : P(x, n)
        <3> HIDE DEF P, g
        <3> QED BY <2>5
    <2> HIDE DEF P
    <2> QED BY <2>6, <2>7
<1>3. Len(q) \in T
    <2>1. \A i \in 1 .. Len(q) : i - 1 \in T => i \in T
        <3> HIDE DEF T
        <3> QED BY <1>2
    <2> HIDE DEF T
    <2>2. \A i \in 0 .. Len(q) : i \in T
        BY <1>1, <2>1, BoundedInduction
    <2> QED BY <2>2
<1> DEFINE h == CHOOSE x : P(x, Len(q))
<1>4. P(h, Len(q))
    BY <1>3
<1>5. Replay(v, q) = h[Len(q)]
    BY DEF Replay
<1>6. \A i \in 0 .. Len(q) : h[i] = Step(h, i)
    <2> HIDE DEF Step, h
    <2> QED BY <1>4
<1> HIDE DEF h
<1>7. h[0] = [value |-> v, failed |-> FALSE]
    <2>1. 0 \in 0 .. Len(q)
        OBVIOUS
    <2>2. h[0] = Step(h, 0)
        <3> HIDE DEF Step
        <3> QED BY <1>6, <2>1
    <2> QED BY <2>2, Zenon
<1>8. \A i \in 1 .. Len(q) : h[i] = ReplayStep(h[i - 1], q[i])
    BY <1>6
<1> QED BY <1>5, <1>7, <1>8

\* One change of a replay.
LEMMA ReplayStepFacts ==
    ASSUME NEW r, NEW e, DOMAIN r = {"value", "failed"}
    PROVE  /\ DOMAIN ReplayStep(r, e) = {"value", "failed"}
           /\ r.failed \/ Fails(r.value, e.op, At(e)) => ReplayStep(r, e).failed
           /\ ~r.failed /\ ~Fails(r.value, e.op, At(e)) =>
                /\ ~ReplayStep(r, e).failed
                /\ ReplayStep(r, e).value = Execute(r.value, e.op, At(e))
BY DEF ReplayStep

\* The changes of S and the first n of q.
Joined(S, q, n) == S \cup {q[j] : j \in 1 .. n}

\* A replay from a sound value, of changes whose authors had executed no more than
\* comes before them, gives a sound value if no operation fails.
LEMMA ReplaySound ==
    ASSUME NEW R, NEW W, Sound(R, W),
           NEW v, NEW S, <<v, S>> \in R, S \subseteq Change,
           NEW q, IsSeq(q),
           \A i \in 1 .. Len(q) : q[i] \in Change,
           \A i \in 1 .. Len(q) : <<q[i], Joined(S, q, i - 1)>> \in W,
           \A i \in 1 .. Len(q) : \A e \in S : ~SameId(q[i], e),
           \A i, j \in 1 .. Len(q) : SameId(q[i], q[j]) => i = j
    PROVE  /\ Replay(v, q).failed \/ <<Replay(v, q).value, Joined(S, q, Len(q))>> \in R
           /\ NeverFails(R, W) => ~Replay(v, q).failed
<1> USE DEF Joined
<1>1. Len(q) \in Nat
    BY LenFact
<1>2. PICK f : /\ f[0] = [value |-> v, failed |-> FALSE]
               /\ \A i \in 1 .. Len(q) : f[i] = ReplayStep(f[i - 1], q[i])
               /\ Replay(v, q) = f[Len(q)]
    BY <1>1, ReplayFcn
<1> DEFINE U(n) == S \cup {q[j] : j \in 1 .. n}
           Good(n) == /\ DOMAIN f[n] = {"value", "failed"}
                      /\ f[n].failed \/ <<f[n].value, U(n)>> \in R
                      /\ NeverFails(R, W) => ~f[n].failed
           T == {n \in Nat : Good(n)}
<1>3. 0 \in T
    <2>1. U(0) = S
        OBVIOUS
    <2>2. DOMAIN f[0] = {"value", "failed"} /\ f[0].value = v /\ ~f[0].failed
        BY <1>2
    <2>3. Good(0)
        <3> HIDE DEF U
        <3> QED BY <2>1, <2>2
    <2> HIDE DEF Good
    <2> QED BY <2>3
<1>4. ASSUME NEW n \in 1 .. Len(q), n - 1 \in T
      PROVE  n \in T
    <2> DEFINE r == f[n - 1]
    <2>1. f[n] = ReplayStep(r, q[n]) /\ n \in Nat
        BY <1>2, <1>4
    <2>2. /\ DOMAIN r = {"value", "failed"} /\ (r.failed \/ <<r.value, U(n - 1)>> \in R)
          /\ NeverFails(R, W) => ~r.failed
        <3> HIDE DEF U
        <3>1. Good(n - 1)
            <4> HIDE DEF Good
            <4> QED BY <1>4
        <3> QED BY <3>1
    <2> HIDE DEF r
    <2>3. DOMAIN f[n] = {"value", "failed"}
        BY <2>1, <2>2, ReplayStepFacts
    <2>6. U(n - 1) \subseteq Change /\ q[n] \in Change /\ <<q[n], U(n - 1)>> \in W
        OBVIOUS
    <2>4. CASE r.failed \/ Fails(r.value, q[n].op, At(q[n]))
        <3>1. f[n].failed
            BY <2>1, <2>2, <2>4, ReplayStepFacts
        <3>2. ~NeverFails(R, W)
            <4> HIDE DEF U
            <4> QED BY <2>2, <2>4, <2>6 DEF NeverFails
        <3> QED BY <2>1, <2>3, <3>1, <3>2
    <2>5. CASE ~r.failed /\ ~Fails(r.value, q[n].op, At(q[n]))
        <3>1. /\ f[n].value = Execute(r.value, q[n].op, At(q[n])) /\ <<r.value, U(n - 1)>> \in R
              /\ ~f[n].failed
            BY <2>1, <2>2, <2>5, ReplayStepFacts
        <3>3. \A e \in U(n - 1) : ~SameId(q[n], e)
            <4> SUFFICES ASSUME NEW j \in 1 .. (n - 1)
                         PROVE  ~SameId(q[n], q[j])
                OBVIOUS
            <4>1. j \in 1 .. Len(q) /\ n # j
                BY <1>1
            <4> QED BY <4>1
        <3>5. U(n) = U(n - 1) \cup {q[n]}
            <4>1. 1 .. n = (1 .. (n - 1)) \cup {n}
                BY <2>1
            <4> QED BY <4>1
        <3>6. <<f[n].value, U(n - 1) \cup {q[n]}>> \in R
            <4> HIDE DEF U, T, Good
            <4> QED BY <2>5, <2>6, <3>1, <3>3 DEF Sound
        <3> QED BY <2>1, <2>3, <3>1, <3>5, <3>6
    <2> QED BY <2>4, <2>5
<1>5. Len(q) \in T
    <2>1. \A i \in 1 .. Len(q) : i - 1 \in T => i \in T
        <3> HIDE DEF T
        <3> QED BY <1>4
    <2> HIDE DEF T
    <2>2. \A i \in 0 .. Len(q) : i \in T
        BY <1>1, <1>3, <2>1, BoundedInduction
    <2> QED BY <1>1, <2>2
<1>6. Good(Len(q))
    <2> HIDE DEF Good
    <2> QED BY <1>5
<1> HIDE DEF U
<1>7. /\ f[Len(q)].failed \/ <<f[Len(q)].value, U(Len(q))>> \in R
      /\ NeverFails(R, W) => ~f[Len(q)].failed
    BY <1>6
<1> QED BY <1>2, <1>7 DEF U

-----------------------------------------------------------------------------
(***************************************************************************)
(* Tickets                                                                 *)
(***************************************************************************)

\* Tickets are ordered by their lamports first.
LEMMA TicketOrder ==
    ASSUME NEW a \in Clients, NEW b \in Clients, NEW k \in Nat, NEW l \in Nat, k < l
    PROVE  TicketOf(k, a) < TicketOf(l, b)
<1> DEFINE j == l - k - 1
<1>1. j \in Nat /\ l = k + 1 + j
    OBVIOUS
<1> HIDE DEF j
<1>2. N \in Nat /\ a \in Nat /\ b \in Nat /\ a <= N /\ 1 <= b
    BY NAssumption DEF Clients
<1>3. l * (N + 1) = k * (N + 1) + (N + 1) + j * (N + 1)
    BY <1>1, <1>2
<1>4. k * (N + 1) \in Nat /\ j * (N + 1) \in Nat
    BY <1>1, <1>2
<1> DEFINE x == k * (N + 1)
           y == j * (N + 1)
<1>5. TicketOf(k, a) = x + a /\ TicketOf(l, b) = x + (N + 1) + y + b
    BY <1>3 DEF TicketOf
<1>6. x \in Nat /\ y \in Nat
    BY <1>4
<1> HIDE DEF x, y
<1>7. x + a < x + (N + 1) + y + b
    BY <1>2, <1>6
<1> QED BY <1>5, <1>7

\* A ticket belongs to one change ID.
LEMMA TicketUnique ==
    ASSUME NEW e \in Change, NEW f \in Change, At(e) = At(f)
    PROVE  SameId(e, f)
<1> DEFINE k == e.lamport
           l == f.lamport
<1>1. e.actor \in Clients /\ f.actor \in Clients /\ k \in Nat /\ l \in Nat
    BY DEF Change
<1>2. TicketOf(k, e.actor) \in Nat /\ TicketOf(k, e.actor) = TicketOf(l, f.actor)
    <2>1. TicketOf(k, e.actor) \in Nat
        <3>1. N \in Nat /\ e.actor \in Nat
            BY <1>1, NAssumption DEF Clients
        <3> HIDE DEF k
        <3> QED BY <1>1, <3>1 DEF TicketOf
    <2> QED BY <2>1 DEF At
<1> HIDE DEF k, l
<1>3. ~(k < l)
    BY <1>1, <1>2, TicketOrder
<1>4. ~(l < k)
    BY <1>1, <1>2, TicketOrder
<1>5. k = l
    BY <1>1, <1>3, <1>4
<1>6. e.actor = f.actor
    <2>1. k * (N + 1) + e.actor = k * (N + 1) + f.actor
        BY <1>2, <1>5 DEF TicketOf
    <2>2. k * (N + 1) \in Nat /\ e.actor \in Nat /\ f.actor \in Nat
        BY <1>1, NAssumption DEF Clients
    <2> QED BY <2>1, <2>2
<1> QED BY <1>5, <1>6 DEF SameId, k, l

\* Tickets are positive.
LEMMA TicketType ==
    ASSUME NEW l \in Nat \ {0}, NEW c \in Clients
    PROVE  TicketOf(l, c) \in Nat \ {0}
<1>1. N \in Nat /\ c \in Nat /\ c >= 1
    BY NAssumption DEF Clients
<1>2. l * (N + 1) \in Nat
    BY <1>1
<1> QED BY <1>1, <1>2 DEF TicketOf

-----------------------------------------------------------------------------
(***************************************************************************)
(* What a replica has executed                                             *)
(***************************************************************************)

\* The sequences of a client are sequences.
LEMMA ClientFacts ==
    ASSUME ClockIndInv, NEW c \in Clients
    PROVE  /\ IsSeq(log) /\ IsSeq(local[c]) /\ IsSeq(pack[c])
           /\ Len(log) \in Nat /\ Len(local[c]) \in Nat /\ Len(pack[c]) \in Nat
           /\ cp[c] \in Nat /\ cp[c] <= Len(log) /\ clock[c] \in Nat
           /\ DOMAIN local[c] = 1 .. Len(local[c]) /\ DOMAIN pack[c] = 1 .. Len(pack[c])
<1>1. /\ IsSeq(log) /\ IsSeq(local[c]) /\ IsSeq(pack[c])
      /\ cp[c] \in Nat /\ cp[c] <= Len(log) /\ clock[c] \in Nat
    BY DEF ClockIndInv, ClockType, ClockInv
<1>2. Len(log) \in Nat /\ Len(local[c]) \in Nat /\ Len(pack[c]) \in Nat
    BY <1>1, LenFact
<1>3. DOMAIN local[c] = 1 .. Len(local[c]) /\ DOMAIN pack[c] = 1 .. Len(pack[c])
    BY <1>1 DEF IsSeq
<1> QED BY <1>1, <1>2, <1>3

\* The changes of a client whose pack is empty.
OfLogAndLocal(c) == {log[s] : s \in 1 .. cp[c]} \cup {local[c][i] : i \in 1 .. Len(local[c])}

LEMMA DomainFacts ==
    ASSUME NEW q, IsSeq(q)
    PROVE  DOMAIN q = 1 .. Len(q)
BY DEF IsSeq

LEMMA ExecutedReady ==
    ASSUME ClockIndInv, NEW c \in Clients, pack[c] = <<>>
    PROVE  Executed(c) = OfLogAndLocal(c)
<1>1. DOMAIN pack[c] = {} /\ DOMAIN local[c] = 1 .. Len(local[c])
    BY ClientFacts, EmptyFacts
<1> QED BY <1>1 DEF Executed, OfLogAndLocal

\* The same after a step.
LEMMA ExecutedReadyNext ==
    ASSUME ClockIndInv', NEW c \in Clients, pack'[c] = <<>>
    PROVE  Executed(c)' = OfLogAndLocal(c)'
<1>1. DOMAIN pack'[c] = {}
    BY EmptyFacts, DomainFacts
<1>2. DOMAIN local'[c] = 1 .. Len(local'[c])
    BY DomainFacts DEF ClockIndInv, ClockType
<1> QED BY <1>1, <1>2 DEF Executed, OfLogAndLocal

\* The changes of a client whose pack may have some left.
LEMMA ExecutedPack ==
    ASSUME ClockIndInv, LogIdsInv, NEW c \in Clients, NEW k \in Nat, PackOf(c, k)
    PROVE  Executed(c) = {log[s] : s \in 1 .. (cp[c] - k - Len(pack[c]))}
                         \cup {log[s] : s \in (cp[c] - k + 1) .. cp[c]}
                         \cup {local[c][i] : i \in 1 .. Len(local[c])}
<1> DEFINE n == cp[c]
           m == Len(pack[c])
           P == {pack[c][i] : i \in 1 .. m}
           Q == {log[s] : s \in (n - k - m + 1) .. (n - k)}
           A == {log[s] : s \in 1 .. (n - k - m)}
           B == {log[s] : s \in (n - k + 1) .. n}
<1>1. /\ n \in Nat /\ m \in Nat /\ n <= Len(log) /\ Len(log) \in Nat /\ k + m <= n
      /\ DOMAIN local[c] = 1 .. Len(local[c]) /\ DOMAIN pack[c] = 1 .. m
    BY ClientFacts DEF PackOf
<1>2. \A i \in 1 .. m : pack[c][i] = log[n - k - m + i]
    BY DEF PackOf
<1> HIDE DEF n, m
<1>3. P = Q
    <2>1. ASSUME NEW i \in 1 .. m
          PROVE  pack[c][i] \in Q
        <3>1. n - k - m + i \in (n - k - m + 1) .. (n - k)
            BY <1>1
        <3> QED BY <1>2, <3>1
    <2>2. ASSUME NEW s \in (n - k - m + 1) .. (n - k)
          PROVE  log[s] \in P
        <3> DEFINE i == s - (n - k - m)
        <3>1. i \in 1 .. m /\ n - k - m + i = s
            BY <1>1
        <3> HIDE DEF i
        <3> QED BY <1>2, <3>1
    <2> QED BY <2>1, <2>2
<1>4. \A s, t \in 1 .. n : log[s] = log[t] => s = t
    <2> SUFFICES ASSUME NEW s \in 1 .. n, NEW t \in 1 .. n, log[s] = log[t]
                 PROVE  s = t
        OBVIOUS
    <2>1. s \in 1 .. Len(log) /\ t \in 1 .. Len(log)
        BY <1>1
    <2> QED BY <2>1 DEF LogIdsInv, SameId
<1>5. {log[s] : s \in 1 .. n} \ Q = A \cup B
    <2>1. ASSUME NEW s \in 1 .. n
          PROVE  \/ s \in 1 .. (n - k - m) /\ s \notin (n - k - m + 1) .. (n - k)
                 \/ s \in (n - k + 1) .. n /\ s \notin (n - k - m + 1) .. (n - k)
                 \/ /\ s \in (n - k - m + 1) .. (n - k) /\ s \notin 1 .. (n - k - m)
                    /\ s \notin (n - k + 1) .. n
        BY <1>1
    <2>2. /\ 1 .. (n - k - m) \subseteq 1 .. n /\ (n - k + 1) .. n \subseteq 1 .. n
          /\ (n - k - m + 1) .. (n - k) \subseteq 1 .. n
        BY <1>1
    <2> QED BY <1>4, <2>1, <2>2
<1>6. Executed(c) = ({log[s] : s \in 1 .. n} \ P) \cup {local[c][i] : i \in 1 .. Len(local[c])}
    BY <1>1 DEF Executed, n
<1> QED BY <1>3, <1>5, <1>6 DEF n, m

\* What a replica has executed does not change when others append to the log.
LEMMA ExecutedSame ==
    ASSUME ClockIndInv, NEW d \in Clients,
           pack'[d] = pack[d], local'[d] = local[d], cp'[d] = cp[d],
           \A s \in 1 .. Len(log) : log'[s] = log[s]
    PROVE  Executed(d)' = Executed(d)
<1>1. cp[d] \in Nat /\ cp[d] <= Len(log) /\ Len(log) \in Nat
    BY ClientFacts
<1>2. {log'[s] : s \in 1 .. cp[d]} = {log[s] : s \in 1 .. cp[d]}
    BY <1>1
<1> QED BY <1>2 DEF Executed

\* They are changes.
LEMMA ExecutedType ==
    ASSUME ClockIndInv, ChangesInv, NEW c \in Clients
    PROVE  Executed(c) \subseteq Change
<1>1. /\ cp[c] \in Nat /\ cp[c] <= Len(log) /\ Len(log) \in Nat
      /\ DOMAIN local[c] = 1 .. Len(local[c])
    BY ClientFacts
<1> QED BY <1>1 DEF Executed, ChangesInv

-----------------------------------------------------------------------------
(***************************************************************************)
(* Update                                                                  *)
(***************************************************************************)

\* What Update changes: the new change is the next one of its client.
Updated(c, e) ==
    /\ e.actor = c /\ e.lamport = clock[c] + 1
    /\ UNCHANGED <<log, synced, cp, pack, min>>
    /\ clock'[c] = clock[c] + 1
    /\ \A d \in Clients \ {c} :
          clock'[d] = clock[d] /\ local'[d] = local[d] /\ data'[d] = data[d]
    /\ Len(local'[c]) = Len(local[c]) + 1
    /\ \A i \in 1 .. Len(local[c]) : local'[c][i] = local[c][i]
    /\ local'[c][Len(local[c]) + 1] = e
    /\ Shape'
    /\ dead \subseteq dead'
    /\ c \notin dead' =>
          ~Fails(data[c], e.op, At(e)) /\ data'[c] = Execute(data[c], e.op, At(e))
    /\ ~Fails(data[c], e.op, At(e)) => UNCHANGED dead

LEMMA UpdateFacts ==
    ASSUME OrderInv, NEW c \in Clients, Update(c)
    PROVE  \E op \in Operations(data[c], TicketOf(clock[c] + 1, c)) :
              Updated(c, [op |-> op, actor |-> c, lamport |-> clock[c] + 1])
<1>1. PICK op \in Operations(data[c], TicketOf(clock[c] + 1, c)) :
        LET change == [op |-> op, actor |-> c, lamport |-> clock[c] + 1]
        IN  ExecuteOn(c, change) /\ local' = [local EXCEPT ![c] = Append(@, change)]
    BY DEF Update
<1> DEFINE e == [op |-> op, actor |-> c, lamport |-> clock[c] + 1]
<1>2. ExecuteOn(c, e) /\ local' = [local EXCEPT ![c] = Append(@, e)]
    BY <1>1
<1>3. e.actor = c /\ e.lamport = clock[c] + 1
    OBVIOUS
<1> HIDE DEF e
<1>4. clock' = [clock EXCEPT ![c] = @ + 1] /\ UNCHANGED <<log, synced, cp, pack, min>>
    BY DEF Update
<1>5. /\ clock'[c] = clock[c] + 1 /\ local'[c] = Append(local[c], e)
      /\ \A d \in Clients \ {c} : clock'[d] = clock[d] /\ local'[d] = local[d]
    BY <1>2, <1>4 DEF OrderInv, ClockIndInv, ClockType
<1>6. IsSeq(local[c])
    BY ClientFacts DEF OrderInv
<1>7. /\ Len(local'[c]) = Len(local[c]) + 1
      /\ \A i \in 1 .. Len(local[c]) : local'[c][i] = local[c][i]
      /\ local'[c][Len(local[c]) + 1] = e
    BY <1>5, <1>6, AppendFacts
<1>8. /\ dead \subseteq dead'
      /\ \A d \in Clients \ {c} : data'[d] = data[d]
      /\ c \notin dead' =>
            ~Fails(data[c], e.op, At(e)) /\ data'[c] = Execute(data[c], e.op, At(e))
      /\ ~Fails(data[c], e.op, At(e)) => UNCHANGED dead
    BY <1>2 DEF ExecuteOn, OrderInv, Shape
<1>9. Shape'
    BY <1>2, <1>4 DEF ExecuteOn, OrderInv, Shape
<1>10. Updated(c, e)
    BY <1>3, <1>4, <1>5, <1>7, <1>8, <1>9 DEF Updated
<1> QED BY <1>10 DEF e

\* The lamport of the new change is above those of all the replica has executed.
LEMMA UpdateOrder ==
    ASSUME OrderInv, ClockIndInv', NEW c \in Clients, pack[c] = <<>>, NEW e, Updated(c, e)
    PROVE  /\ OrderInv'
           /\ Executed(c)' = Executed(c) \cup {e}
           /\ \A d \in Clients \ {c} : Executed(d)' = Executed(d)
           /\ \A f \in Executed(c) : f.lamport < e.lamport
<1> USE DEF OrderInv
<1>1. /\ Executed(c) = OfLogAndLocal(c)
      /\ Len(log) \in Nat /\ Len(local[c]) \in Nat /\ clock[c] \in Nat /\ cp[c] \in Nat
      /\ IsSeq(log) /\ IsSeq(local[c]) /\ cp[c] <= Len(log)
    BY ExecutedReady, ClientFacts
<1>2. /\ UNCHANGED <<log, cp, pack>> /\ local'[c][Len(local[c]) + 1] = e
      /\ Len(local'[c]) = Len(local[c]) + 1
      /\ \A i \in 1 .. Len(local[c]) : local'[c][i] = local[c][i]
      /\ \A d \in Clients \ {c} : local'[d] = local[d] /\ clock'[d] = clock[d]
      /\ e.actor = c /\ e.lamport = clock[c] + 1 /\ clock'[c] = clock[c] + 1
    BY DEF Updated
<1>3. \A f \in Executed(c) : f.lamport \in Nat /\ f.lamport < e.lamport
    <2>1. \A f \in Executed(c) : f.lamport \in Nat
        <3>1. \A s \in 1 .. cp[c] : s \in 1 .. Len(log)
            BY <1>1
        <3> QED BY <1>1, <3>1 DEF OfLogAndLocal, ClockIndInv, ClockType, Lamports
    <2>2. \A f \in Executed(c) : f.lamport <= clock[c]
        BY DEF AheadInv
    <2> QED BY <1>1, <1>2, <2>1, <2>2
<1>4. Executed(c)' = Executed(c) \cup {e}
    <2>1. Executed(c)' = OfLogAndLocal(c)'
        <3>1. pack'[c] = <<>>
            BY <1>2
        <3> QED BY <3>1, ExecutedReadyNext
    <2>2. 1 .. Len(local'[c]) = (1 .. Len(local[c])) \cup {Len(local[c]) + 1}
        BY <1>1, <1>2
    <2>3. {local'[c][i] : i \in 1 .. Len(local'[c])} =
            {local[c][i] : i \in 1 .. Len(local[c])} \cup {e}
        <3> DEFINE n == Len(local[c])
        <3>1. /\ 1 .. Len(local'[c]) = (1 .. n) \cup {n + 1} /\ local'[c][n + 1] = e
              /\ \A i \in 1 .. n : local'[c][i] = local[c][i]
            BY <1>2, <2>2
        <3> HIDE DEF n
        <3>2. {local'[c][i] : i \in 1 .. Len(local'[c])} = {local[c][i] : i \in 1 .. n} \cup {e}
            BY <3>1
        <3> QED BY <3>2 DEF n
    <2>4. {log'[s] : s \in 1 .. cp'[c]} = {log[s] : s \in 1 .. cp[c]}
        BY <1>2
    <2> QED BY <1>1, <2>1, <2>3, <2>4 DEF OfLogAndLocal
<1>5. \A d \in Clients \ {c} : Executed(d)' = Executed(d)
    BY <1>2, ExecutedSame
<1>6. LogIdsInv'
    <2> SUFFICES ASSUME NEW d \in Clients, NEW s \in 1 .. Len(log), log[s].actor = d,
                        NEW i \in 1 .. Len(local'[d])
                 PROVE  s <= cp[d] /\ log[s].lamport < local'[d][i].lamport
        BY <1>2 DEF LogIdsInv
    <2>1. s <= cp[d] /\ (i \in 1 .. Len(local[d]) => log[s].lamport < local[d][i].lamport)
        BY DEF LogIdsInv
    <2>2. CASE d # c \/ i \in 1 .. Len(local[d])
        BY <1>2, <2>1, <2>2
    <2>3. CASE d = c /\ i = Len(local[c]) + 1
        <3>1. s \in 1 .. cp[c]
            BY <1>1, <2>1, <2>3
        <3>2. log[s] \in Executed(c)
            BY <1>1, <3>1 DEF OfLogAndLocal
        <3> QED BY <1>2, <1>3, <2>1, <2>3, <3>2
    <2>4. d = c => i \in 1 .. Len(local[d]) \/ i = Len(local[c]) + 1
        BY <1>1, <1>2
    <2> QED BY <2>2, <2>3, <2>4
<1>7. LocalInv'
    <2> SUFFICES ASSUME NEW d \in Clients
                 PROVE  /\ \A i \in 1 .. Len(local'[d]) : local'[d][i].actor = d
                        /\ \A i, j \in 1 .. Len(local'[d]) :
                              i < j => local'[d][i].lamport < local'[d][j].lamport
        BY DEF LocalInv
    <2>1. CASE d # c
        BY <1>2, <2>1 DEF LocalInv
    <2>2. CASE d = c
        <3>1. ASSUME NEW i \in 1 .. Len(local'[c])
              PROVE  local'[c][i].actor = c
            <4>1. i \in 1 .. Len(local[c]) \/ i = Len(local[c]) + 1
                BY <1>1, <1>2
            <4> QED BY <1>2, <4>1 DEF LocalInv
        <3>2. ASSUME NEW i \in 1 .. Len(local'[c]), NEW j \in 1 .. Len(local'[c]), i < j
              PROVE  local'[c][i].lamport < local'[c][j].lamport
            <4>1. i \in 1 .. Len(local[c])
                BY <1>1, <1>2, <3>2
            <4>2. CASE j \in 1 .. Len(local[c])
                BY <1>2, <3>2, <4>1, <4>2 DEF LocalInv
            <4>3. CASE j = Len(local[c]) + 1
                <5>1. local[c][i] \in Executed(c)
                    BY <1>1, <4>1 DEF OfLogAndLocal
                <5> QED BY <1>2, <1>3, <4>1, <4>3, <5>1
            <4> QED BY <1>1, <1>2, <4>2, <4>3
        <3> QED BY <2>2, <3>1, <3>2
    <2> QED BY <2>1, <2>2
<1>8. PackInv'
    <2> SUFFICES ASSUME NEW d \in Clients
                 PROVE  /\ pack[d] # <<>> => local'[d] = <<>>
                        /\ \E k \in Nat : PackOf(d, k)'
        BY <1>2 DEF PackInv
    <2>1. \E k \in Nat : PackOf(d, k)
        BY DEF PackInv
    <2>2. \A k \in Nat : PackOf(d, k)' <=> PackOf(d, k)
        BY <1>2 DEF PackOf
    <2>3. pack[d] # <<>> => local'[d] = <<>>
        BY <1>2 DEF PackInv
    <2> QED BY <2>1, <2>2, <2>3
<1>9. AheadInv'
    <2> SUFFICES ASSUME NEW d \in Clients, NEW f \in Executed(d)'
                 PROVE  f.lamport <= clock'[d]
        BY DEF AheadInv
    <2>1. CASE d # c
        BY <1>2, <1>5, <2>1 DEF AheadInv
    <2>2. CASE d = c
        <3>1. f \in Executed(c) \/ f = e
            BY <1>4, <2>2
        <3> QED BY <1>1, <1>2, <1>3, <2>2, <3>1
    <2> QED BY <2>1, <2>2
<1>10. Shape' /\ SyncedInv'
    BY DEF Updated, SyncedInv
<1> QED BY <1>3, <1>4, <1>5, <1>6, <1>7, <1>8, <1>9, <1>10

\* The author of the new change had executed all the replica has.
LEMMA UpdateValues ==
    ASSUME OrderInv, ClockIndInv', NEW R, NEW W, Sound(R, W),
           ChangesInv, GroundInv(W), ValuesInv(R), NEW c \in Clients, Update(c)
    PROVE  /\ ChangesInv' /\ GroundInv(W)' /\ ValuesInv(R)'
           /\ NeverFails(R, W) => UNCHANGED dead
<1>1. PICK op \in Operations(data[c], TicketOf(clock[c] + 1, c)) :
        Updated(c, [op |-> op, actor |-> c, lamport |-> clock[c] + 1])
    BY UpdateFacts
<1> DEFINE e == [op |-> op, actor |-> c, lamport |-> clock[c] + 1]
           S == Executed(c)
<1>2. pack[c] = <<>> /\ c \notin dead
    BY DEF Update, Ready
<1>3. /\ OrderInv' /\ Executed(c)' = S \cup {e}
      /\ \A d \in Clients \ {c} : Executed(d)' = Executed(d)
      /\ \A f \in S : f.lamport < e.lamport
    <2>1. Updated(c, e)
        BY <1>1
    <2> HIDE DEF e
    <2> QED BY <1>2, <2>1, UpdateOrder
<1>4. /\ clock[c] \in Nat /\ cp[c] \in Nat /\ cp[c] <= Len(log)
      /\ Len(log) \in Nat /\ Len(local[c]) \in Nat /\ S = OfLogAndLocal(c)
    BY <1>2, ClientFacts, ExecutedReady DEF OrderInv
<1>5. S \subseteq Change /\ <<data[c], S>> \in R
    BY <1>2, ExecutedType DEF OrderInv, ValuesInv
<1>6. e \in Change /\ <<e, S>> \in W
    <2> DEFINE l == clock[c] + 1
    <2>1. l \in Nat \ {0} /\ \A f \in S : f.lamport < l
        BY <1>3, <1>4
    <2>2. /\ [op |-> op, actor |-> c, lamport |-> l] \in Change
          /\ <<[op |-> op, actor |-> c, lamport |-> l], S>> \in W
        <3>1. op \in Operations(data[c], TicketOf(l, c))
            BY <1>1
        <3> HIDE DEF l, S
        <3> QED BY <1>5, <2>1, <3>1 DEF Sound
    <2> QED BY <2>2
<1>7. /\ log' = log /\ cp' = cp /\ Len(local'[c]) = Len(local[c]) + 1
      /\ \A i \in 1 .. Len(local[c]) : local'[c][i] = local[c][i]
      /\ local'[c][Len(local[c]) + 1] = e
      /\ \A d \in Clients \ {c} : local'[d] = local[d] /\ data'[d] = data[d]
      /\ dead \subseteq dead'
      /\ c \notin dead' =>
            ~Fails(data[c], e.op, At(e)) /\ data'[c] = Execute(data[c], e.op, At(e))
      /\ ~Fails(data[c], e.op, At(e)) => UNCHANGED dead
    BY <1>1 DEF Updated
<1> HIDE DEF e
<1>8. \A i \in 1 .. Len(local'[c]) : i \in 1 .. Len(local[c]) \/ i = Len(local[c]) + 1
    BY <1>4, <1>7
<1>9. ChangesInv'
    <2>1. \A i \in 1 .. Len(local'[c]) : local'[c][i] \in Change
        BY <1>6, <1>7, <1>8 DEF ChangesInv
    <2> QED BY <1>7, <2>1 DEF ChangesInv
<1>10. GroundInv(W)'
    <2>1. \A s \in 1 .. Len(log') : <<log'[s], LogBefore(s)'>> \in W
        BY <1>7 DEF GroundInv, LogBefore
    <2>2. ASSUME NEW d \in Clients, NEW i \in 1 .. Len(local'[d])
          PROVE  <<local'[d][i], LocalBefore(d, i)'>> \in W
        <3>1. CASE d # c
            <4>1. local'[d] = local[d]
                BY <1>7, <3>1
            <4>2. LocalBefore(d, i)' = LocalBefore(d, i)
                BY <1>7, <4>1 DEF LocalBefore
            <4> QED BY <4>1, <4>2 DEF GroundInv
        <3>2. CASE d = c /\ i \in 1 .. Len(local[c])
            <4>1. \A j \in 1 .. (i - 1) : local'[c][j] = local[c][j]
                BY <1>4, <1>7, <3>2
            <4>2. LocalBefore(c, i)' = LocalBefore(c, i)
                BY <1>7, <4>1 DEF LocalBefore
            <4> QED BY <1>7, <3>2, <4>2 DEF GroundInv
        <3>3. CASE d = c /\ i = Len(local[c]) + 1
            <4>1. i - 1 = Len(local[c])
                BY <1>4, <3>3
            <4>2. LocalBefore(c, i)' = S
                <5>1. {log'[s] : s \in 1 .. cp'[c]} = {log[s] : s \in 1 .. cp[c]}
                    BY <1>7
                <5>2. {local'[c][j] : j \in 1 .. (i - 1)} = {local[c][j] : j \in 1 .. Len(local[c])}
                    BY <1>7, <4>1
                <5> QED BY <1>4, <5>1, <5>2 DEF LocalBefore, OfLogAndLocal
            <4> QED BY <1>6, <1>7, <3>3, <4>2
        <3> QED BY <1>8, <3>1, <3>2, <3>3
    <2> QED BY <2>1, <2>2 DEF GroundInv
<1>11. ValuesInv(R)'
    <2> SUFFICES ASSUME NEW d \in Clients, d \notin dead'
                 PROVE  <<data'[d], Executed(d)'>> \in R
        BY DEF ValuesInv
    <2>1. CASE d # c
        BY <1>3, <1>7, <2>1 DEF ValuesInv
    <2>2. CASE d = c
        <3>1. \A f \in S : ~SameId(e, f)
            <4>1. \A f \in S : f.lamport \in Nat
                BY <1>5 DEF Change
            <4> QED BY <1>3, <4>1 DEF SameId
        <3>2. <<Execute(data[c], e.op, At(e)), S \cup {e}>> \in R
            <4> HIDE DEF S
            <4> QED BY <1>5, <1>6, <1>7, <2>2, <3>1 DEF Sound
        <3> QED BY <1>3, <1>7, <2>2, <3>2
    <2> QED BY <2>1, <2>2
<1>12. NeverFails(R, W) => UNCHANGED dead
    <2> HIDE DEF S
    <2> QED BY <1>5, <1>6, <1>7 DEF NeverFails
<1> QED BY <1>9, <1>10, <1>11, <1>12

\* A step that leaves the log, the checkpoints and the local changes alone.
LEMMA GroundSame ==
    ASSUME NEW W, GroundInv(W), UNCHANGED <<log, cp, local>>
    PROVE  GroundInv(W)'
<1>1. \A s : LogBefore(s)' = LogBefore(s)
    BY DEF LogBefore
<1>2. \A c, i : LocalBefore(c, i)' = LocalBefore(c, i)
    BY DEF LocalBefore
<1> QED BY <1>1, <1>2 DEF GroundInv

-----------------------------------------------------------------------------
(***************************************************************************)
(* ApplyChange                                                             *)
(***************************************************************************)

\* What ApplyChange changes: the change is the one in the log before the rest of
\* the pack, whose author had executed no more than what is before it in the log.
Applied(c, k, p) ==
    /\ p \in 1 .. Len(log) /\ p <= cp[c]
    /\ local[c] = <<>> /\ local' = local
    /\ Executed(c)' = Executed(c) \cup {log[p]}
    /\ LogBefore(p) \subseteq Executed(c)
    /\ Executed(c) \subseteq {log[s] : s \in (1 .. Len(log)) \ {p}}
    /\ PackOf(c, k)'
    /\ UNCHANGED <<log, synced, cp, min>>
    /\ clock'[c] = SyncLamport(clock[c], log[p].lamport)
    /\ \A d \in Clients \ {c} :
          clock'[d] = clock[d] /\ pack'[d] = pack[d] /\ data'[d] = data[d]
    /\ Shape'
    /\ dead \subseteq dead'
    /\ c \notin dead' => /\ ~Fails(data[c], log[p].op, At(log[p]))
                         /\ data'[c] = Execute(data[c], log[p].op, At(log[p]))
    /\ ~Fails(data[c], log[p].op, At(log[p])) => UNCHANGED dead

LEMMA ApplyFacts ==
    ASSUME OrderInv, ClockIndInv', NEW c \in Clients, ApplyChange(c)
    PROVE  \E k \in Nat, p \in Nat : Applied(c, k, p)
<1> USE DEF OrderInv
<1>1. PICK k \in Nat : PackOf(c, k)
    BY DEF PackInv
<1> DEFINE q == pack[c]
           n == cp[c]
           m == Len(q)
           p == n - k - m + 1
<1>2. /\ n \in Nat /\ m \in Nat /\ n <= Len(log) /\ Len(log) \in Nat /\ IsSeq(q)
    BY ClientFacts
<1>3. q # <<>> /\ local[c] = <<>> /\ pack' = [pack EXCEPT ![c] = Tail(q)]
    BY DEF ApplyChange, PackInv
<1>4. /\ m >= 1 /\ Head(q) = q[1] /\ IsSeq(Tail(q)) /\ Len(Tail(q)) = m - 1
      /\ \A i \in 1 .. (m - 1) : Tail(q)[i] = q[i + 1]
    BY <1>2, <1>3, TailFacts
<1>5. pack'[c] = Tail(q) /\ \A d \in Clients \ {c} : pack'[d] = pack[d]
    BY <1>3 DEF ClockIndInv, ClockType
<1>6. /\ k + m <= n
      /\ \A s \in (n - k + 1) .. n : log[s].actor = c
      /\ \A i \in 1 .. m : q[i] = log[n - k - m + i] /\ q[i].actor # c
    BY <1>1 DEF PackOf
<1>7. p \in 1 .. Len(log) /\ p <= n /\ p <= n - k /\ p \in Nat
    BY <1>2, <1>4, <1>6
<1>8. Head(q) = log[p]
    <2> HIDE DEF m, n, q
    <2> QED BY <1>2, <1>4, <1>6
<1>9. UNCHANGED <<log, synced, cp, local, min>>
    BY DEF ApplyChange
<1>10. PackOf(c, k)'
    <2> HIDE DEF m, n, q, p
    <2>1. k + Len(Tail(q)) <= n
        BY <1>2, <1>4, <1>6
    <2>2. ASSUME NEW i \in 1 .. Len(Tail(q))
          PROVE  /\ Tail(q)[i] = log[n - k - Len(Tail(q)) + i]
                 /\ Tail(q)[i].actor # c
        <3>1. i \in 1 .. (m - 1) /\ i + 1 \in 1 .. m /\ n - k - m + (i + 1) = n - k - (m - 1) + i
            BY <1>2, <1>4, <1>6
        <3>2. Tail(q)[i] = q[i + 1]
            BY <1>4, <3>1
        <3>3. q[i + 1] = log[n - k - m + (i + 1)] /\ q[i + 1].actor # c
            BY <1>6, <3>1
        <3> QED BY <1>4, <3>1, <3>2, <3>3
    <2> QED BY <1>5, <1>6, <1>9, <2>1, <2>2 DEF PackOf, n
<1> DEFINE A == {log[s] : s \in 1 .. (p - 1)}
           B == {log[s] : s \in (n - k + 1) .. n}
<1>11. Executed(c) = A \cup B
    <2>1. Executed(c) = {log[s] : s \in 1 .. (n - k - m)} \cup B
                        \cup {local[c][i] : i \in 1 .. Len(local[c])}
        BY <1>1, ExecutedPack
    <2>2. Len(local[c]) = 0
        BY <1>3, EmptyFacts
    <2>3. p - 1 = n - k - m
        BY <1>2
    <2> HIDE DEF n, m, p
    <2> QED BY <2>1, <2>2, <2>3
<1>12. Executed(c)' = Executed(c) \cup {log[p]}
    <2>1. Executed(c)' = {log[s] : s \in 1 .. p} \cup B
        <3>1. Executed(c)' = ({log[s] : s \in 1 .. n} \ {Tail(q)[i] : i \in 1 .. (m - 1)})
            <4>1. DOMAIN Tail(q) = 1 .. (m - 1)
                BY <1>4, DomainFacts
            <4>2. DOMAIN local[c] = {}
                BY <1>3, EmptyFacts, DomainFacts
            <4> QED BY <1>5, <1>9, <4>1, <4>2 DEF Executed
        <3>2. {Tail(q)[i] : i \in 1 .. (m - 1)} = {log[s] : s \in (p + 1) .. (n - k)}
            <4> HIDE DEF n, m, q
            <4>1. ASSUME NEW i \in 1 .. (m - 1)
                  PROVE  Tail(q)[i] \in {log[s] : s \in (p + 1) .. (n - k)}
                <5>1. i + 1 \in 1 .. m /\ n - k - m + (i + 1) \in (p + 1) .. (n - k)
                    BY <1>2, <1>4, <1>6
                <5> QED BY <1>4, <1>6, <5>1
            <4>2. ASSUME NEW s \in (p + 1) .. (n - k)
                  PROVE  log[s] \in {Tail(q)[i] : i \in 1 .. (m - 1)}
                <5> DEFINE i == s - p
                <5>1. i \in 1 .. (m - 1) /\ i + 1 \in 1 .. m /\ n - k - m + (i + 1) = s
                    BY <1>2, <1>4, <1>6
                <5>2. Tail(q)[i] = log[s]
                    BY <1>4, <1>6, <5>1
                <5> QED BY <5>1, <5>2
            <4> QED BY <4>1, <4>2
        <3>3. \A s, t \in 1 .. n : log[s] = log[t] => s = t
            <4>1. \A s \in 1 .. n : s \in 1 .. Len(log)
                BY <1>2
            <4> QED BY <4>1 DEF LogIdsInv, SameId
        <3>4. /\ 1 .. p \subseteq 1 .. n /\ (n - k + 1) .. n \subseteq 1 .. n
              /\ (p + 1) .. (n - k) \subseteq 1 .. n
              /\ \A s \in 1 .. n : \/ s \in 1 .. p /\ s \notin (p + 1) .. (n - k)
                                   \/ s \in (n - k + 1) .. n /\ s \notin (p + 1) .. (n - k)
                                   \/ /\ s \in (p + 1) .. (n - k)
                                      /\ s \notin 1 .. p /\ s \notin (n - k + 1) .. n
            <4> HIDE DEF n, m
            <4> QED BY <1>2, <1>4, <1>6, <1>7
        <3>5. {log[s] : s \in 1 .. n} \ {log[s] : s \in (p + 1) .. (n - k)} =
                {log[s] : s \in 1 .. p} \cup {log[s] : s \in (n - k + 1) .. n}
            <4> HIDE DEF n, m, p
            <4> QED BY <3>3, <3>4
        <3> HIDE DEF p, q, m, n
        <3> QED BY <3>1, <3>2, <3>5
    <2>2. 1 .. p = (1 .. (p - 1)) \cup {p}
        <3> HIDE DEF p
        <3> QED BY <1>7
    <2> HIDE DEF p, n
    <2> QED BY <1>11, <2>1, <2>2
<1>13. LogBefore(p) \subseteq Executed(c)
    BY <1>11 DEF LogBefore
<1>14. Executed(c) \subseteq {log[s] : s \in (1 .. Len(log)) \ {p}}
    <2> HIDE DEF m
    <2>1. \A s \in 1 .. (p - 1) : s \in (1 .. Len(log)) \ {p}
        BY <1>7, <1>2
    <2>2. \A s \in (n - k + 1) .. n : s \in (1 .. Len(log)) \ {p}
        BY <1>7, <1>2, <1>6
    <2> HIDE DEF n, p
    <2> QED BY <1>11, <2>1, <2>2
<1> HIDE DEF q, n, m, p, A, B
<1>15. ExecuteOn(c, log[p]) /\ clock' = [clock EXCEPT ![c] = SyncLamport(@, log[p].lamport)]
    BY <1>8 DEF ApplyChange, q
<1>16. /\ clock'[c] = SyncLamport(clock[c], log[p].lamport)
       /\ \A d \in Clients \ {c} : clock'[d] = clock[d]
    BY <1>15 DEF ClockIndInv, ClockType
<1>17. /\ dead \subseteq dead' /\ Shape'
       /\ \A d \in Clients \ {c} : data'[d] = data[d]
       /\ c \notin dead' => /\ ~Fails(data[c], log[p].op, At(log[p]))
                            /\ data'[c] = Execute(data[c], log[p].op, At(log[p]))
       /\ ~Fails(data[c], log[p].op, At(log[p])) => UNCHANGED dead
    BY <1>9, <1>15 DEF ExecuteOn, Shape
<1> QED BY <1>3, <1>5, <1>7, <1>9, <1>10, <1>12, <1>13, <1>14, <1>16, <1>17 DEF Applied, n

\* The clock follows the change.
LEMMA ApplyOrder ==
    ASSUME OrderInv, ClockIndInv', NEW c \in Clients, NEW k \in Nat, NEW p \in Nat,
           Applied(c, k, p)
    PROVE  /\ OrderInv'
           /\ \A d \in Clients \ {c} : Executed(d)' = Executed(d)
<1> USE DEF OrderInv
<1>1. \A d \in Clients \ {c} : Executed(d)' = Executed(d)
    BY ExecutedSame DEF Applied
<1>2. LogIdsInv' /\ LocalInv'
    BY DEF Applied, LogIdsInv, LocalInv
<1>3. PackInv'
    <2> SUFFICES ASSUME NEW d \in Clients
                 PROVE  (pack'[d] # <<>> => local'[d] = <<>>) /\ \E j \in Nat : PackOf(d, j)'
        BY DEF PackInv
    <2>1. CASE d = c
        BY <2>1 DEF Applied
    <2>2. CASE d # c
        <3>1. pack'[d] = pack[d] /\ log' = log /\ cp' = cp /\ local' = local
            BY <2>2 DEF Applied
        <3>2. \E j \in Nat : PackOf(d, j)
            BY DEF PackInv
        <3>3. \A j \in Nat : PackOf(d, j)' <=> PackOf(d, j)
            BY <3>1 DEF PackOf
        <3> QED BY <3>1, <3>2, <3>3 DEF PackInv
    <2> QED BY <2>1, <2>2
<1>4. AheadInv'
    <2> SUFFICES ASSUME NEW d \in Clients, NEW f \in Executed(d)'
                 PROVE  f.lamport <= clock'[d]
        BY DEF AheadInv
    <2>1. CASE d # c
        BY <1>1, <2>1 DEF AheadInv, Applied
    <2>2. CASE d = c
        <3> DEFINE l == log[p].lamport
        <3>1. /\ l \in Nat /\ clock[c] \in Nat
              /\ clock'[c] = SyncLamport(clock[c], l)
              /\ f \in Executed(c) \/ f.lamport = l
            BY <2>2 DEF ClockIndInv, ClockType, Lamports, Applied
        <3>2. f \in Executed(c) => f.lamport <= clock[c] /\ f.lamport \in Nat
            <4>1. \A s \in 1 .. Len(log) : log[s].lamport \in Nat
                BY DEF ClockIndInv, ClockType, Lamports
            <4> QED BY <4>1 DEF AheadInv, Applied
        <3> HIDE DEF l
        <3>3. clock[c] <= SyncLamport(clock[c], l) /\ l <= SyncLamport(clock[c], l)
            BY <3>1 DEF SyncLamport
        <3>4. SyncLamport(clock[c], l) \in Nat
            BY <3>1 DEF SyncLamport
        <3> QED BY <2>2, <3>1, <3>2, <3>3, <3>4
    <2> QED BY <2>1, <2>2
<1>5. Shape' /\ SyncedInv'
    BY DEF Applied, SyncedInv
<1> QED BY <1>1, <1>2, <1>3, <1>4, <1>5

LEMMA ApplyValues ==
    ASSUME OrderInv, ClockIndInv', NEW R, NEW W, Sound(R, W),
           ChangesInv, GroundInv(W), ValuesInv(R), NEW c \in Clients, ApplyChange(c)
    PROVE  /\ ChangesInv' /\ GroundInv(W)' /\ ValuesInv(R)'
           /\ NeverFails(R, W) => UNCHANGED dead
<1>1. PICK k \in Nat, p \in Nat : Applied(c, k, p)
    BY ApplyFacts
<1> DEFINE e == log[p]
           S == Executed(c)
<1>2. c \notin dead
    BY DEF ApplyChange
<1>3. \A d \in Clients \ {c} : Executed(d)' = Executed(d)
    BY <1>1, ApplyOrder
<1>4. p \in 1 .. Len(log) /\ log' = log /\ local' = local /\ cp' = cp
    BY <1>1 DEF Applied
<1>5. S \subseteq Change /\ <<data[c], S>> \in R /\ e \in Change
    BY <1>2, <1>4, ExecutedType DEF OrderInv, ValuesInv, ChangesInv
<1>6. <<e, S>> \in W
    <2>1. <<e, LogBefore(p)>> \in W /\ LogBefore(p) \subseteq S
        BY <1>1, <1>4 DEF GroundInv, Applied
    <2>2. Complete(LogBefore(p), S)
        <3> SUFFICES ASSUME NEW f \in S, NEW g \in LogBefore(p),
                            f.actor = g.actor, f.lamport < g.lamport
                     PROVE  f \in LogBefore(p)
            BY <2>1 DEF Complete
        <3>1. PICK t \in 1 .. (p - 1) : g = log[t]
            BY DEF LogBefore
        <3>2. PICK s \in 1 .. Len(log) : f = log[s]
            BY <1>1 DEF Applied
        <3>3. p \in Nat /\ Len(log) \in Nat /\ t \in 1 .. Len(log)
            BY <1>4, ClientFacts DEF OrderInv
        <3>4. log[s].lamport \in Nat /\ log[t].lamport \in Nat
            BY <3>3 DEF OrderInv, ClockIndInv, ClockType, Lamports
        <3>5. ~(t < s) /\ s # t
            BY <3>1, <3>2, <3>3, <3>4 DEF OrderInv, LogIdsInv
        <3>6. s \in 1 .. (p - 1)
            BY <3>3, <3>5
        <3> QED BY <3>2, <3>6 DEF LogBefore
    <2> HIDE DEF S, e
    <2> QED BY <1>5, <2>1, <2>2 DEF Sound
<1>7. \A f \in S : ~SameId(e, f)
    <2>1. S \subseteq {log[s] : s \in (1 .. Len(log)) \ {p}}
        BY <1>1 DEF Applied
    <2> HIDE DEF S
    <2> QED BY <1>4, <2>1 DEF OrderInv, LogIdsInv
<1>8. ChangesInv'
    BY <1>4 DEF ChangesInv
<1>9. GroundInv(W)'
    BY <1>4, GroundSame
<1>10. ValuesInv(R)'
    <2> SUFFICES ASSUME NEW d \in Clients, d \notin dead'
                 PROVE  <<data'[d], Executed(d)'>> \in R
        BY DEF ValuesInv
    <2>1. CASE d # c
        BY <1>1, <1>3, <2>1 DEF ValuesInv, Applied
    <2>2. CASE d = c
        <3>1. /\ ~Fails(data[c], e.op, At(e)) /\ data'[c] = Execute(data[c], e.op, At(e))
              /\ Executed(c)' = S \cup {e}
            BY <1>1, <2>2 DEF Applied
        <3>2. <<Execute(data[c], e.op, At(e)), S \cup {e}>> \in R
            <4> HIDE DEF S, e
            <4> QED BY <1>5, <1>6, <1>7, <3>1 DEF Sound
        <3> QED BY <2>2, <3>1, <3>2
    <2> QED BY <2>1, <2>2
<1>11. NeverFails(R, W) => UNCHANGED dead
    <2>1. ~Fails(data[c], e.op, At(e)) => UNCHANGED dead
        BY <1>1 DEF Applied
    <2> HIDE DEF S, e
    <2> QED BY <1>5, <1>6, <2>1 DEF NeverFails
<1> QED BY <1>8, <1>9, <1>10, <1>11

-----------------------------------------------------------------------------
(***************************************************************************)
(* Collect                                                                 *)
(***************************************************************************)

\* Nothing that was removed is at or before the initial ticket.
LEMMA CollectOrder ==
    ASSUME OrderInv, ClockIndInv', NEW c \in Clients, Collect(c)
    PROVE  /\ OrderInv'
           /\ \A d \in Clients : Executed(d)' = Executed(d)
           /\ data'[c] = GarbageCollect(data[c], InitialTicket)
           /\ \A d \in Clients \ {c} : data'[d] = data[d]
<1> USE DEF OrderInv
<1>1. /\ data' = [data EXCEPT ![c] = GarbageCollect(@, MinSyncedTicket(min[c]))]
      /\ min' = [min EXCEPT ![c] = Nil]
      /\ UNCHANGED <<log, synced, clock, cp, local, pack, dead>>
      /\ min[c] # Nil
    BY DEF Collect
<1>2. \A d \in Clients : Executed(d)' = Executed(d)
    BY <1>1 DEF Executed
<1>3. MinSyncedTicket(min[c]) = InitialTicket
    BY <1>1 DEF SyncedInv, MinSyncedTicket
<1>4. /\ data'[c] = GarbageCollect(data[c], InitialTicket)
      /\ \A d \in Clients \ {c} : data'[d] = data[d]
    BY <1>1, <1>3 DEF Shape
<1>5. Shape' /\ SyncedInv'
    BY <1>1 DEF Shape, SyncedInv
<1>6. LogIdsInv' /\ LocalInv' /\ AheadInv'
    BY <1>1, <1>2 DEF LogIdsInv, LocalInv, AheadInv
<1>7. PackInv'
    BY <1>1 DEF PackInv, PackOf
<1> QED BY <1>2, <1>4, <1>5, <1>6, <1>7

LEMMA CollectValues ==
    ASSUME OrderInv, ClockIndInv', NEW R, NEW W, Sound(R, W),
           ChangesInv, GroundInv(W), ValuesInv(R), NEW c \in Clients, Collect(c)
    PROVE  ChangesInv' /\ GroundInv(W)' /\ ValuesInv(R)'
<1>1. /\ \A d \in Clients : Executed(d)' = Executed(d)
      /\ data'[c] = GarbageCollect(data[c], InitialTicket)
      /\ \A d \in Clients \ {c} : data'[d] = data[d]
    BY CollectOrder
<1>2. UNCHANGED <<log, cp, local, dead>>
    BY DEF Collect
<1>3. ChangesInv' /\ GroundInv(W)'
    BY <1>2, GroundSame DEF ChangesInv
<1>4. ValuesInv(R)'
    <2> SUFFICES ASSUME NEW d \in Clients, d \notin dead
                 PROVE  <<data'[d], Executed(d)>> \in R
        BY <1>1, <1>2 DEF ValuesInv
    <2>1. <<data[d], Executed(d)>> \in R
        BY DEF ValuesInv
    <2>2. \A v, S : <<v, S>> \in R => <<GarbageCollect(v, InitialTicket), S>> \in R
        BY DEF Sound
    <2> QED BY <1>1, <2>1, <2>2
<1> QED BY <1>3, <1>4

-----------------------------------------------------------------------------
(***************************************************************************)
(* Sync                                                                    *)
(***************************************************************************)

\* What Sync changes whether it pulls changes or a snapshot.
Pushed(c) ==
    /\ Len(log') = Len(log) + Len(local[c])
    /\ \A s \in 1 .. Len(log) : log'[s] = log[s]
    /\ \A i \in 1 .. Len(local[c]) : log'[Len(log) + i] = local[c][i]
    /\ cp'[c] = Len(log) + Len(local[c])
    /\ local'[c] = <<>>
    /\ \A d \in Clients \ {c} :
          /\ cp'[d] = cp[d] /\ local'[d] = local[d] /\ pack'[d] = pack[d]
          /\ clock'[d] = clock[d] /\ data'[d] = data[d]
    /\ Shape' /\ SyncedInv'
    /\ dead \subseteq dead'

LEMMA SyncFacts ==
    ASSUME OrderInv, ClockIndInv', ~Collecting, NEW c \in Clients, Sync(c)
    PROVE  Pushed(c)
<1> USE DEF OrderInv
<1>1. /\ log' = log \o local[c]
      /\ synced' = synced
      /\ cp' = [cp EXCEPT ![c] = Len(log) + Len(local[c])]
      /\ local' = [local EXCEPT ![c] = <<>>]
      /\ min' = [min EXCEPT ![c] = MinSynced(synced')]
      /\ PullChanges(c) \/ PullSnapshot(c)
    BY DEF Sync
<1>2. IsSeq(log) /\ IsSeq(local[c])
    BY ClientFacts
<1>3. /\ Len(log') = Len(log) + Len(local[c])
      /\ \A s \in 1 .. Len(log) : log'[s] = log[s]
      /\ \A i \in 1 .. Len(local[c]) : log'[Len(log) + i] = local[c][i]
    BY <1>1, <1>2, ConcatFacts
<1>4. /\ cp'[c] = Len(log) + Len(local[c]) /\ local'[c] = <<>>
      /\ \A d \in Clients \ {c} : cp'[d] = cp[d] /\ local'[d] = local[d]
    BY <1>1 DEF ClockIndInv, ClockType
<1>5. /\ \A d \in Clients \ {c} :
            pack'[d] = pack[d] /\ clock'[d] = clock[d] /\ data'[d] = data[d]
      /\ data' = [d \in Clients |-> data'[d]]
      /\ dead \subseteq dead'
    <2>1. CASE PullChanges(c)
        BY <2>1 DEF PullChanges, ClockIndInv, ClockType, Shape
    <2>2. CASE PullSnapshot(c)
        BY <2>2 DEF PullSnapshot, ClockIndInv, ClockType, Shape
    <2> QED BY <1>1, <2>1, <2>2
<1>6. MinSynced(synced') = 0
    <2>1. {synced'[d] : d \in Clients} = {0}
        BY <1>1 DEF SyncedInv
    <2>2. \A d \in Clients : 0 <= synced'[d]
        BY <1>1 DEF SyncedInv
    <2> QED BY <2>1, <2>2 DEF MinSynced
<1>7. Shape' /\ SyncedInv'
    BY <1>1, <1>5, <1>6 DEF Shape, SyncedInv
<1> QED BY <1>3, <1>4, <1>5, <1>7 DEF Pushed

\* Whatever it pulls, the log keeps distinct changes.
LEMMA SyncOrder ==
    ASSUME OrderInv, ClockIndInv', NEW c \in Clients, pack[c] = <<>>, Pushed(c)
    PROVE  /\ LogIdsInv' /\ LocalInv'
           /\ \A d \in Clients \ {c} :
                /\ Executed(d)' = Executed(d)
                /\ pack'[d] # <<>> => local'[d] = <<>>
                /\ \E k \in Nat : PackOf(d, k)'
<1> USE DEF OrderInv
<1> DEFINE n == Len(log)
           m == Len(local[c])
<1>1. n \in Nat /\ m \in Nat /\ cp[c] \in Nat /\ cp[c] <= n /\ IsSeq(log) /\ IsSeq(local[c])
    BY ClientFacts
<1>2. /\ Len(log') = n + m
      /\ \A s \in 1 .. n : log'[s] = log[s]
      /\ \A i \in 1 .. m : log'[n + i] = local[c][i]
      /\ cp'[c] = n + m /\ local'[c] = <<>>
    BY DEF Pushed
<1>3. ASSUME NEW s \in 1 .. Len(log'), s \notin 1 .. n
      PROVE  s - n \in 1 .. m /\ log'[s] = local[c][s - n] /\ log'[s].actor = c
    <2> HIDE DEF n, m
    <2>1. s - n \in 1 .. m /\ s = n + (s - n)
        BY <1>1, <1>2, <1>3
    <2>2. log'[s] = local[c][s - n]
        BY <1>2, <2>1
    <2> QED BY <2>1, <2>2 DEF LocalInv, m
<1> HIDE DEF n, m
<1>4. \A s, t \in 1 .. Len(log') : SameId(log'[s], log'[t]) => s = t
    <2> SUFFICES ASSUME NEW s \in 1 .. Len(log'), NEW t \in 1 .. Len(log'),
                        SameId(log'[s], log'[t])
                 PROVE  s = t
        OBVIOUS
    <2>1. CASE s \in 1 .. n /\ t \in 1 .. n
        BY <1>2, <2>1 DEF LogIdsInv, n
    <2>2. ASSUME NEW x \in 1 .. n, NEW y \in 1 .. Len(log'), y \notin 1 .. n,
                 SameId(log[x], log'[y])
          PROVE  FALSE
        <3>1. y - n \in 1 .. m /\ log'[y] = local[c][y - n] /\ log[x].actor = c
            BY <1>3, <2>2 DEF SameId
        <3>2. log[x].lamport < local[c][y - n].lamport /\ log[x].lamport \in Nat
            BY <3>1 DEF LogIdsInv, n, m, ClockIndInv, ClockType, Lamports
        <3> QED BY <2>2, <3>1, <3>2 DEF SameId
    <2>3. CASE s \in 1 .. n /\ t \notin 1 .. n
        BY <1>2, <2>2, <2>3
    <2>4. CASE s \notin 1 .. n /\ t \in 1 .. n
        BY <1>2, <2>2, <2>4 DEF SameId
    <2>5. CASE s \notin 1 .. n /\ t \notin 1 .. n
        <3> DEFINE i == s - n
                   j == t - n
        <3>1. i \in 1 .. m /\ j \in 1 .. m /\ local[c][i].lamport = local[c][j].lamport
            BY <1>3, <2>5 DEF SameId
        <3>2. local[c][i].lamport \in Nat
            BY <3>1 DEF m, ClockIndInv, ClockType, Lamports
        <3>3. \A x, y \in 1 .. m : x < y => local[c][x].lamport < local[c][y].lamport
            BY DEF LocalInv, m
        <3>4. i = j
            <4> HIDE DEF i, j
            <4> QED BY <1>1, <3>1, <3>2, <3>3
        <3> QED BY <1>1, <1>2, <3>4
    <2> QED BY <2>1, <2>3, <2>4, <2>5
<1>8. ASSUME NEW s \in 1 .. Len(log'), NEW t \in 1 .. Len(log'),
             s < t, log'[s].actor = log'[t].actor
      PROVE  log'[s].lamport < log'[t].lamport
    <2>1. CASE t \in 1 .. n
        <3>1. s \in 1 .. n
            BY <1>1, <1>2, <1>8, <2>1
        <3> QED BY <1>2, <1>8, <2>1, <3>1 DEF LogIdsInv, n
    <2>2. CASE s \in 1 .. n /\ t \notin 1 .. n
        <3>1. t - n \in 1 .. m /\ log'[t] = local[c][t - n] /\ log[s].actor = c
            BY <1>2, <1>3, <1>8, <2>2
        <3> QED BY <1>2, <2>2, <3>1 DEF LogIdsInv, n, m
    <2>3. CASE s \notin 1 .. n /\ t \notin 1 .. n
        <3> DEFINE i == s - n
                   j == t - n
        <3>1. /\ i \in 1 .. m /\ j \in 1 .. m /\ i < j
              /\ log'[s] = local[c][i] /\ log'[t] = local[c][j]
            BY <1>1, <1>2, <1>3, <1>8, <2>3
        <3>2. \A x, y \in 1 .. m : x < y => local[c][x].lamport < local[c][y].lamport
            BY DEF LocalInv, m
        <3> HIDE DEF i, j
        <3> QED BY <3>1, <3>2
    <2> QED BY <2>1, <2>2, <2>3
<1>5. LogIdsInv'
    <2> SUFFICES ASSUME NEW d \in Clients, NEW s \in 1 .. Len(log'), log'[s].actor = d
                 PROVE  /\ s <= cp'[d]
                        /\ \A i \in 1 .. Len(local'[d]) :
                              log'[s].lamport < local'[d][i].lamport
        BY <1>4, <1>8 DEF LogIdsInv
    <2>1. CASE d = c
        <3>1. s <= n + m
            BY <1>1, <1>2
        <3> QED BY <1>2, <2>1, <3>1, EmptyFacts
    <2>2. CASE d # c
        <3>1. s \in 1 .. n /\ log[s].actor = d
            BY <1>2, <1>3, <2>2
        <3> QED BY <1>2, <2>2, <3>1 DEF LogIdsInv, Pushed, n
    <2> QED BY <2>1, <2>2
<1>6. LocalInv'
    <2> SUFFICES ASSUME NEW d \in Clients
                 PROVE  /\ \A i \in 1 .. Len(local'[d]) : local'[d][i].actor = d
                        /\ \A i, j \in 1 .. Len(local'[d]) :
                              i < j => local'[d][i].lamport < local'[d][j].lamport
        BY DEF LocalInv
    <2>1. CASE d = c
        BY <1>2, <2>1, EmptyFacts
    <2>2. CASE d # c
        <3>1. local'[d] = local[d]
            BY <2>2 DEF Pushed
        <3> QED BY <3>1 DEF LocalInv
    <2> QED BY <2>1, <2>2
<1>7. ASSUME NEW d \in Clients \ {c}
      PROVE  /\ Executed(d)' = Executed(d)
             /\ pack'[d] # <<>> => local'[d] = <<>>
             /\ \E k \in Nat : PackOf(d, k)'
    <2>1. /\ pack'[d] = pack[d] /\ local'[d] = local[d] /\ cp'[d] = cp[d]
          /\ \A s \in 1 .. Len(log) : log'[s] = log[s]
        BY DEF Pushed
    <2>2. Executed(d)' = Executed(d)
        BY <2>1, ExecutedSame
    <2>3. PICK k \in Nat : PackOf(d, k)
        BY DEF PackInv
    <2>4. cp[d] \in Nat /\ cp[d] <= Len(log) /\ Len(log) \in Nat /\ Len(pack[d]) \in Nat
        BY ClientFacts
    <2>5. \A s \in (cp[d] - k + 1) .. cp[d] : s \in 1 .. Len(log)
        BY <2>3, <2>4 DEF PackOf
    <2>6. \A i \in 1 .. Len(pack[d]) : cp[d] - k - Len(pack[d]) + i \in 1 .. Len(log)
        <3> DEFINE p == Len(pack[d])
                   q == cp[d]
                   z == Len(log)
        <3>1. k + p <= q /\ p \in Nat /\ q \in Nat /\ z \in Nat /\ q <= z
            BY <2>3, <2>4 DEF PackOf
        <3> HIDE DEF p, q, z
        <3>2. \A i \in 1 .. p : q - k - p + i \in 1 .. z
            BY <3>1
        <3> QED BY <3>2 DEF p, q, z
    <2>7. PackOf(d, k)'
        BY <2>1, <2>3, <2>5, <2>6 DEF PackOf
    <2>8. pack'[d] # <<>> => local'[d] = <<>>
        BY <2>1 DEF PackInv
    <2> QED BY <2>2, <2>7, <2>8
<1> QED BY <1>5, <1>6, <1>7

\* Before a pushed change come all the changes its author had executed, and of every
\* client no earlier ones that the author lacks.
LEMMA LocalComplete ==
    ASSUME OrderInv, NEW c \in Clients, Pushed(c), LogIdsInv', ClockIndInv',
           NEW i \in 1 .. Len(local[c])
    PROVE  Complete(LocalBefore(c, i), {log'[s] : s \in 1 .. (Len(log) + i - 1)})
<1> USE DEF OrderInv
<1> DEFINE n == Len(log)
           m == Len(local[c])
           T == {log'[s] : s \in 1 .. (n + i - 1)}
<1>1. n \in Nat /\ m \in Nat /\ cp[c] \in Nat /\ cp[c] <= n /\ i \in 1 .. m
    BY ClientFacts
<1>2. /\ Len(log') = n + m
      /\ \A s \in 1 .. n : log'[s] = log[s]
      /\ \A j \in 1 .. m : log'[n + j] = local[c][j]
    BY DEF Pushed
<1>4. \A j \in 1 .. m : local[c][j].actor = c
    BY DEF LocalInv
<1>5. \A s \in 1 .. n : log[s].actor = c => s <= cp[c]
    BY DEF LogIdsInv
<1>6. \A s, t \in 1 .. (n + m) : s < t /\ log'[s].actor = log'[t].actor
                              => log'[s].lamport < log'[t].lamport
    BY <1>2 DEF LogIdsInv
<1>7. \A s \in 1 .. (n + m) : log'[s].lamport \in Nat
    BY <1>2 DEF ClockIndInv, ClockType, Lamports
<1>8. LocalBefore(c, i) = {log[s] : s \in 1 .. cp[c]} \cup {local[c][j] : j \in 1 .. (i - 1)}
    BY DEF LocalBefore
<1> HIDE DEF n, m
<1>9. ASSUME NEW t \in 1 .. (n + i - 1), t \in 1 .. cp[c] \/ t > n
      PROVE  log'[t] \in LocalBefore(c, i)
    <2>1. CASE t \in 1 .. cp[c]
        BY <1>1, <1>2, <1>8, <2>1
    <2>2. CASE t > n
        <3>1. t - n \in 1 .. (i - 1) /\ t - n \in 1 .. m /\ t = n + (t - n)
            BY <1>1, <2>2
        <3> QED BY <1>2, <1>8, <3>1
    <2> QED BY <1>9, <2>1, <2>2
<1>10. ASSUME NEW g \in LocalBefore(c, i)
       PROVE  \E t \in 1 .. (n + i - 1) : g = log'[t] /\ (t \in 1 .. cp[c] \/ t > n)
    <2>1. CASE \E s \in 1 .. cp[c] : g = log[s]
        <3>1. PICK s \in 1 .. cp[c] : g = log[s]
            BY <2>1
        <3>2. s \in 1 .. (n + i - 1) /\ s \in 1 .. n
            BY <1>1
        <3> QED BY <1>2, <3>1, <3>2
    <2>2. CASE \E j \in 1 .. (i - 1) : g = local[c][j]
        <3>1. PICK j \in 1 .. (i - 1) : g = local[c][j]
            BY <2>2
        <3>2. j \in 1 .. m /\ n + j \in 1 .. (n + i - 1) /\ n + j > n
            BY <1>1
        <3> QED BY <1>2, <3>1, <3>2
    <2> QED BY <1>8, <2>1, <2>2
<1>11. LocalBefore(c, i) \subseteq T
    BY <1>10
<1>12. ASSUME NEW f \in T, NEW g \in LocalBefore(c, i),
              f.actor = g.actor, f.lamport < g.lamport
       PROVE  f \in LocalBefore(c, i)
    <2>1. PICK s \in 1 .. (n + i - 1) : f = log'[s]
        OBVIOUS
    <2>2. PICK t \in 1 .. (n + i - 1) : g = log'[t] /\ (t \in 1 .. cp[c] \/ t > n)
        BY <1>10
    <2>3. s \in 1 .. (n + m) /\ t \in 1 .. (n + m)
        BY <1>1
    <2>4. ~(t < s) /\ s # t
        BY <1>6, <1>7, <1>12, <2>1, <2>2, <2>3
    <2>5. s < t
        BY <2>4
    <2>6. CASE s > n
        BY <1>9, <2>1, <2>6
    <2>7. CASE t \in 1 .. cp[c]
        <3>1. s \in 1 .. cp[c]
            BY <1>1, <2>5, <2>7
        <3> QED BY <1>9, <2>1, <3>1
    <2>8. CASE ~(s > n) /\ t > n
        <3>1. s \in 1 .. n /\ t - n \in 1 .. m /\ t = n + (t - n)
            BY <1>1, <2>3, <2>8
        <3>2. g.actor = c
            BY <1>2, <1>4, <2>2, <3>1
        <3>3. s \in 1 .. cp[c]
            BY <1>1, <1>2, <1>5, <1>12, <2>1, <3>1, <3>2
        <3> QED BY <1>9, <2>1, <3>3
    <2> QED BY <2>2, <2>6, <2>7, <2>8
<1> QED BY <1>11, <1>12 DEF Complete, n

\* The changes keep what their authors had executed before them.
LEMMA SyncGround ==
    ASSUME OrderInv, ClockIndInv', LogIdsInv', NEW c \in Clients, pack[c] = <<>>, Pushed(c),
           NEW R, NEW W, Sound(R, W), ChangesInv, GroundInv(W)
    PROVE  ChangesInv' /\ GroundInv(W)'
<1> USE DEF OrderInv
<1> DEFINE n == Len(log)
           m == Len(local[c])
<1>1. n \in Nat /\ m \in Nat /\ cp[c] \in Nat /\ cp[c] <= n /\ IsSeq(log) /\ IsSeq(local[c])
    BY ClientFacts
<1>2. /\ Len(log') = n + m
      /\ \A s \in 1 .. n : log'[s] = log[s]
      /\ \A i \in 1 .. m : log'[n + i] = local[c][i]
      /\ cp'[c] = n + m /\ local'[c] = <<>>
      /\ \A d \in Clients \ {c} : local'[d] = local[d] /\ cp'[d] = cp[d]
    BY DEF Pushed
<1>3. ASSUME NEW s \in 1 .. Len(log'), s \notin 1 .. n
      PROVE  s - n \in 1 .. m /\ s = n + (s - n) /\ log'[s] = local[c][s - n]
    <2> HIDE DEF n, m
    <2>1. s - n \in 1 .. m /\ s = n + (s - n)
        BY <1>1, <1>2, <1>3
    <2> QED BY <1>2, <2>1
<1>4. ChangesInv'
    <2>1. \A s \in 1 .. Len(log') : log'[s] \in Change
        BY <1>2, <1>3 DEF ChangesInv
    <2> QED BY <1>2, <2>1, EmptyFacts DEF ChangesInv
<1>5. \A s \in 1 .. Len(log') : LogBefore(s)' \subseteq Change
    <2>1. \A s \in 1 .. Len(log') : \A t \in 1 .. (s - 1) : t \in 1 .. Len(log')
        BY <1>1, <1>2
    <2> QED BY <1>4, <2>1 DEF LogBefore, ChangesInv
<1>6. ASSUME NEW s \in 1 .. Len(log')
      PROVE  <<log'[s], LogBefore(s)'>> \in W
    <2>1. CASE s \in 1 .. n
        <3>1. LogBefore(s)' = LogBefore(s)
            <4>1. \A t \in 1 .. (s - 1) : log'[t] = log[t]
                BY <1>1, <1>2, <2>1
            <4> QED BY <4>1 DEF LogBefore
        <3> QED BY <1>2, <2>1, <3>1 DEF GroundInv
    <2>2. CASE s \notin 1 .. n
        <3> DEFINE i == s - n
        <3>1. i \in 1 .. m /\ s = n + i /\ log'[s] = local[c][i]
            BY <1>3, <2>2
        <3> HIDE DEF i
        <3>2. Complete(LocalBefore(c, i), LogBefore(s)')
            <4>1. Complete(LocalBefore(c, i), {log'[t] : t \in 1 .. (n + i - 1)})
                BY <1>2, <3>1, LocalComplete
            <4> HIDE DEF n, m
            <4>2. LogBefore(s)' = {log'[t] : t \in 1 .. (n + i - 1)}
                BY <1>1, <3>1 DEF LogBefore
            <4> QED BY <4>1, <4>2
        <3>3. <<local[c][i], LocalBefore(c, i)>> \in W
            BY <3>1 DEF GroundInv, m
        <3> QED BY <1>5, <3>1, <3>2, <3>3 DEF Sound
    <2> QED BY <2>1, <2>2
<1>7. ASSUME NEW d \in Clients, NEW i \in 1 .. Len(local'[d])
      PROVE  <<local'[d][i], LocalBefore(d, i)'>> \in W
    <2>1. d # c
        BY <1>2, <1>7, EmptyFacts
    <2>2. cp[d] \in Nat /\ cp[d] <= n
        BY ClientFacts
    <2>3. local'[d] = local[d] /\ cp'[d] = cp[d]
        BY <1>2, <2>1
    <2>4. LocalBefore(d, i)' = LocalBefore(d, i)
        <3>1. \A t \in 1 .. cp[d] : log'[t] = log[t]
            <4> HIDE DEF n
            <4> QED BY <1>1, <1>2, <2>2
        <3> QED BY <2>3, <3>1 DEF LocalBefore
    <2> QED BY <2>3, <2>4 DEF GroundInv
<1> QED BY <1>4, <1>6, <1>7 DEF GroundInv

\* The pulled changes are those between the old checkpoint and the pushed ones.
LEMMA SyncChanges ==
    ASSUME OrderInv, ClockIndInv', NEW c \in Clients, pack[c] = <<>>, Pushed(c),
           LogIdsInv', PullChanges(c)
    PROVE  /\ \E k \in Nat : PackOf(c, k)'
           /\ Executed(c)' = Executed(c)
<1> USE DEF OrderInv
<1> DEFINE n == Len(log)
           m == Len(local[c])
           q == SubSeq(log, cp[c] + 1, n)
<1>1. n \in Nat /\ m \in Nat /\ cp[c] \in Nat /\ cp[c] <= n /\ IsSeq(log) /\ IsSeq(local[c])
    BY ClientFacts
<1>2. /\ Len(log') = n + m
      /\ \A s \in 1 .. n : log'[s] = log[s]
      /\ \A i \in 1 .. m : log'[n + i] = local[c][i]
      /\ cp'[c] = n + m /\ local'[c] = <<>>
    BY DEF Pushed
<1>3. pack'[c] = q
    BY DEF PullChanges, ClockIndInv, ClockType
<1>4. /\ Len(q) = n - cp[c]
      /\ \A i \in 1 .. (n - cp[c]) : q[i] = log[cp[c] + i]
    <2> HIDE DEF q
    <2>1. /\ Len(SubSeq(log, cp[c] + 1, Len(log))) = Len(log) - cp[c]
          /\ \A i \in 1 .. (Len(log) - cp[c]) :
                SubSeq(log, cp[c] + 1, Len(log))[i] = log[cp[c] + i]
        BY <1>1, SubSeqFacts, Zenon
    <2> QED BY <2>1 DEF q
<1> HIDE DEF q, n, m
<1>5. ASSUME NEW k \in Nat, k = m
      PROVE  PackOf(c, k)'
    <2>1. k + Len(pack'[c]) <= cp'[c]
        BY <1>1, <1>2, <1>3, <1>4, <1>5
    <2>2. ASSUME NEW s \in (cp'[c] - k + 1) .. cp'[c]
          PROVE  log'[s].actor = c
        <3> DEFINE i == s - n
        <3>1. i \in 1 .. m /\ s = n + i
            <4>1. cp'[c] = n + k /\ k = m /\ n \in Nat
                BY <1>1, <1>2, <1>5
            <4> QED BY <1>5, <4>1
        <3> HIDE DEF i
        <3> QED BY <1>2, <3>1 DEF LocalInv, m
    <2>3. ASSUME NEW i \in 1 .. Len(pack'[c])
          PROVE  /\ pack'[c][i] = log'[cp'[c] - k - Len(pack'[c]) + i]
                 /\ pack'[c][i].actor # c
        <3>1. /\ i \in 1 .. (n - cp[c]) /\ cp[c] + i \in 1 .. n /\ ~(cp[c] + i <= cp[c])
              /\ cp'[c] - k - Len(pack'[c]) + i = cp[c] + i
            <4> DEFINE x == cp[c]
            <4>1. /\ Len(pack'[c]) = n - x /\ cp'[c] = n + k
                  /\ x \in Nat /\ n \in Nat /\ x <= n /\ i \in 1 .. (n - x)
                BY <1>1, <1>2, <1>3, <1>4, <1>5
            <4> HIDE DEF x
            <4>2. /\ x + i \in 1 .. n /\ ~(x + i <= x)
                  /\ (n + k) - k - (n - x) + i = x + i
                BY <4>1
            <4> QED BY <4>1, <4>2 DEF x
        <3>2. q[i] = log[cp[c] + i] /\ log'[cp[c] + i] = log[cp[c] + i]
            BY <1>2, <1>4, <3>1
        <3>3. log[cp[c] + i].actor # c
            BY <3>1 DEF LogIdsInv, n
        <3> QED BY <1>3, <3>1, <3>2, <3>3
    <2> QED BY <2>1, <2>2, <2>3 DEF PackOf
<1>6. \E k \in Nat : PackOf(c, k)'
    BY <1>1, <1>5
<1>7. Executed(c) = OfLogAndLocal(c)
    BY ExecutedReady
<1>8. Executed(c)' = {log'[s] : s \in 1 .. (n + m)} \ {log'[s] : s \in (cp[c] + 1) .. n}
    <2>1. DOMAIN pack'[c] = 1 .. (n - cp[c]) /\ DOMAIN local'[c] = {}
        <3>1. DOMAIN pack'[c] = 1 .. Len(pack'[c])
            BY DomainFacts DEF ClockIndInv, ClockType
        <3>2. DOMAIN local'[c] = {}
            BY <1>2, EmptyFacts, DomainFacts
        <3> QED BY <1>3, <1>4, <3>1, <3>2
    <2>2. {q[i] : i \in 1 .. (n - cp[c])} = {log'[s] : s \in (cp[c] + 1) .. n}
        <3>1. ASSUME NEW i \in 1 .. (n - cp[c])
              PROVE  q[i] \in {log'[s] : s \in (cp[c] + 1) .. n}
            <4>1. cp[c] + i \in (cp[c] + 1) .. n /\ cp[c] + i \in 1 .. n
                BY <1>1
            <4> QED BY <1>2, <1>4, <4>1
        <3>2. ASSUME NEW s \in (cp[c] + 1) .. n
              PROVE  log'[s] \in {q[i] : i \in 1 .. (n - cp[c])}
            <4> DEFINE i == s - cp[c]
            <4>1. i \in 1 .. (n - cp[c]) /\ cp[c] + i = s /\ s \in 1 .. n
                BY <1>1
            <4>2. q[i] = log'[s]
                BY <1>2, <1>4, <4>1
            <4> QED BY <4>1, <4>2
        <3> QED BY <3>1, <3>2
    <2> QED BY <1>2, <1>3, <2>1, <2>2 DEF Executed
<1>9. \A s, t \in 1 .. (n + m) : log'[s] = log'[t] => s = t
    BY <1>2 DEF LogIdsInv, SameId
<1>10. {log'[s] : s \in 1 .. (n + m)} \ {log'[s] : s \in (cp[c] + 1) .. n} =
        {log'[s] : s \in 1 .. cp[c]} \cup {log'[s] : s \in (n + 1) .. (n + m)}
    <2>1. /\ 1 .. cp[c] \subseteq 1 .. (n + m) /\ (n + 1) .. (n + m) \subseteq 1 .. (n + m)
          /\ (cp[c] + 1) .. n \subseteq 1 .. (n + m)
          /\ \A s \in 1 .. (n + m) :
                \/ s \in 1 .. cp[c] /\ s \notin (cp[c] + 1) .. n
                \/ s \in (n + 1) .. (n + m) /\ s \notin (cp[c] + 1) .. n
                \/ /\ s \in (cp[c] + 1) .. n
                   /\ s \notin 1 .. cp[c] /\ s \notin (n + 1) .. (n + m)
        BY <1>1
    <2> QED BY <1>9, <2>1
<1>11. {log'[s] : s \in 1 .. cp[c]} = {log[s] : s \in 1 .. cp[c]}
    BY <1>1, <1>2
<1>12. {log'[s] : s \in (n + 1) .. (n + m)} = {local[c][i] : i \in 1 .. m}
    <2>1. \A i \in 1 .. m : n + i \in (n + 1) .. (n + m)
        BY <1>1
    <2>2. \A s \in (n + 1) .. (n + m) : s - n \in 1 .. m /\ n + (s - n) = s
        BY <1>1
    <2>3. \A s \in (n + 1) .. (n + m) : log'[s] = local[c][s - n]
        BY <1>2, <2>2
    <2> QED BY <1>2, <2>1, <2>2, <2>3
<1>13. Executed(c)' = Executed(c)
    BY <1>7, <1>8, <1>10, <1>11, <1>12 DEF OfLogAndLocal, m
<1> QED BY <1>6, <1>13

\* A snapshot leaves nothing to apply.
LEMMA SyncSnapshot ==
    ASSUME OrderInv, ClockIndInv', NEW c \in Clients, pack[c] = <<>>, Pushed(c),
           PullSnapshot(c)
    PROVE  /\ \E k \in Nat : PackOf(c, k)'
           /\ Executed(c)' = {log[s] : s \in 1 .. Len(log)}
                             \cup {local[c][i] : i \in 1 .. Len(local[c])}
           /\ \A f \in Executed(c)' : f.lamport <= clock'[c]
<1> USE DEF OrderInv
<1> DEFINE n == Len(log)
           m == Len(local[c])
<1>1. /\ n \in Nat /\ m \in Nat /\ cp[c] \in Nat /\ cp[c] <= n /\ IsSeq(log) /\ IsSeq(local[c])
      /\ clock[c] \in Nat
    BY ClientFacts
<1>2. /\ Len(log') = n + m
      /\ \A s \in 1 .. n : log'[s] = log[s]
      /\ \A i \in 1 .. m : log'[n + i] = local[c][i]
      /\ cp'[c] = n + m /\ local'[c] = <<>>
    BY DEF Pushed
<1>3. pack'[c] = <<>> /\ clock'[c] = SyncLamport(clock[c], n + m)
    BY DEF PullSnapshot, ClockIndInv, ClockType
<1> HIDE DEF n, m
<1>4. PackOf(c, 0)'
    <2>1. Len(pack'[c]) = 0
        BY <1>3, EmptyFacts
    <2>2. cp'[c] \in Nat
        BY <1>1, <1>2
    <2> QED BY <2>1, <2>2 DEF PackOf
<1>5. Executed(c)' = {log'[s] : s \in 1 .. (n + m)}
    <2>1. Executed(c)' = OfLogAndLocal(c)'
        BY <1>3, ExecutedReadyNext
    <2> QED BY <1>2, <2>1, EmptyFacts DEF OfLogAndLocal
<1>6. Executed(c)' = {log[s] : s \in 1 .. n} \cup {local[c][i] : i \in 1 .. m}
    <2>1. 1 .. (n + m) = (1 .. n) \cup ((n + 1) .. (n + m))
        BY <1>1
    <2>2. \A i \in 1 .. m : n + i \in (n + 1) .. (n + m)
        BY <1>1
    <2>3. \A s \in (n + 1) .. (n + m) : s - n \in 1 .. m /\ n + (s - n) = s
        BY <1>1
    <2>4. \A s \in (n + 1) .. (n + m) : log'[s] = local[c][s - n]
        BY <1>2, <2>3
    <2>5. {log'[s] : s \in (n + 1) .. (n + m)} = {local[c][i] : i \in 1 .. m}
        BY <1>2, <2>2, <2>3, <2>4
    <2> QED BY <1>2, <1>5, <2>1, <2>5
<1>7. \A f \in Executed(c)' : f.lamport <= clock'[c]
    <2>1. n + m <= SyncLamport(clock[c], n + m) /\ SyncLamport(clock[c], n + m) \in Nat
        BY <1>1 DEF SyncLamport
    <2>2. \A s \in 1 .. (n + m) : log'[s].lamport <= s /\ log'[s].lamport \in Nat
        BY <1>2 DEF ClockIndInv, LamportBound, ClockType, Lamports
    <2>3. \A s \in 1 .. (n + m) : log'[s].lamport <= SyncLamport(clock[c], n + m)
        <3> DEFINE k == SyncLamport(clock[c], n + m)
        <3> HIDE DEF k
        <3>1. n + m <= k /\ k \in Nat
            BY <2>1 DEF k
        <3> QED BY <1>1, <2>2, <3>1 DEF k
    <2> QED BY <1>3, <1>5, <2>3
<1>8. 0 \in Nat
    OBVIOUS
<1> QED BY <1>4, <1>6, <1>7, <1>8 DEF n, m

\* The snapshot is what the changes in the log lead to, and the local changes are
\* executed on top of it.
LEMMA SnapshotReplay ==
    ASSUME OrderInv, NEW c \in Clients, pack[c] = <<>>,
           NEW R, NEW W, Sound(R, W), ChangesInv, GroundInv(W),
           LogIdsInv', ClockIndInv', Pushed(c), NEW snapshot \in Snapshot
    PROVE  /\ \/ Replay(snapshot, local[c]).failed
              \/ <<Replay(snapshot, local[c]).value,
                   Joined({log[s] : s \in 1 .. Len(log)}, local[c], Len(local[c]))>> \in R
           /\ NeverFails(R, W) => ~Replay(snapshot, local[c]).failed
<1> USE DEF OrderInv
<1> DEFINE S == {log[s] : s \in 1 .. Len(log)}
<1>1. /\ IsSeq(log) /\ IsSeq(local[c]) /\ Len(log) \in Nat /\ Len(local[c]) \in Nat
      /\ cp[c] \in Nat /\ cp[c] <= Len(log)
    BY ClientFacts
<1>3. ~Replay(Empty, log).failed /\ snapshot = Decoded(Replay(Empty, log).value)
    BY DEF Snapshot
<1>4. /\ \A i \in 1 .. Len(log) : LogBefore(i) = Joined({}, log, i - 1)
      /\ S = Joined({}, log, Len(log))
    BY DEF LogBefore, Joined
<1>5. <<Replay(Empty, log).value, S>> \in R
    <2>1. <<Empty, {}>> \in R
        BY DEF Sound
    <2>2. \A i \in 1 .. Len(log) : <<log[i], Joined({}, log, i - 1)>> \in W
        BY <1>4 DEF GroundInv
    <2>3. \A i, j \in 1 .. Len(log) : SameId(log[i], log[j]) => i = j
        BY DEF LogIdsInv
    <2>4. \A i \in 1 .. Len(log) : log[i] \in Change
        BY DEF ChangesInv
    <2> DEFINE none == {}
    <2>7. /\ <<Empty, none>> \in R /\ none \subseteq Change
          /\ \A i \in 1 .. Len(log) : \A e \in none : ~SameId(log[i], e)
          /\ \A i \in 1 .. Len(log) : <<log[i], Joined(none, log, i - 1)>> \in W
        BY <2>1, <2>2
    <2> HIDE DEF S, none
    <2>8. <<Replay(Empty, log).value, Joined(none, log, Len(log))>> \in R
        BY <1>1, <1>3, <2>3, <2>4, <2>7, ReplaySound
    <2>6. <<Replay(Empty, log).value, Joined({}, log, Len(log))>> \in R
        BY <2>8 DEF none
    <2> QED BY <1>4, <2>6
<1>6. <<snapshot, S>> \in R
    BY <1>3, <1>5 DEF Sound
<1>7. S \subseteq Change
    BY DEF ChangesInv
<1>8. \A i \in 1 .. Len(local[c]) : local[c][i] \in Change
    BY DEF ChangesInv
<1>9. \A i \in 1 .. Len(local[c]) : <<local[c][i], Joined(S, local[c], i - 1)>> \in W
    <2> SUFFICES ASSUME NEW i \in 1 .. Len(local[c])
                 PROVE  <<local[c][i], Joined(S, local[c], i - 1)>> \in W
        OBVIOUS
    <2> DEFINE U == S \cup {local[c][j] : j \in 1 .. (i - 1)}
    <2>1. Complete(LocalBefore(c, i), U)
        <3> DEFINE n == Len(log)
                   T == {log'[s] : s \in 1 .. (n + i - 1)}
        <3>1. Complete(LocalBefore(c, i), T)
            BY LocalComplete
        <3>2. T = U
            <4>1. n \in Nat /\ i \in Nat /\ i >= 1 /\ i - 1 <= Len(local[c])
                BY <1>1
            <4>2. /\ \A s \in 1 .. n : log'[s] = log[s]
                  /\ \A j \in 1 .. Len(local[c]) : log'[n + j] = local[c][j]
                BY DEF Pushed
            <4>4. U = {log[s] : s \in 1 .. n} \cup {local[c][j] : j \in 1 .. (i - 1)}
                OBVIOUS
            <4> HIDE DEF n, U, S
            <4>5. ASSUME NEW s \in 1 .. (n + i - 1)
                  PROVE  log'[s] \in U
                <5>1. CASE s \in 1 .. n
                    BY <4>2, <4>4, <5>1
                <5>2. CASE s \notin 1 .. n
                    <6>1. s - n \in 1 .. (i - 1) /\ s - n \in 1 .. Len(local[c])
                          /\ s = n + (s - n)
                        BY <1>1, <4>1, <5>2
                    <6> QED BY <4>2, <4>4, <6>1
                <5> QED BY <5>1, <5>2
            <4>6. \A s \in 1 .. n : log[s] \in T
                BY <4>1, <4>2
            <4>7. \A j \in 1 .. (i - 1) : local[c][j] \in T
                <5>1. \A j \in 1 .. (i - 1) :
                        n + j \in 1 .. (n + i - 1) /\ j \in 1 .. Len(local[c])
                    BY <1>1, <4>1
                <5> QED BY <4>2, <5>1
            <4> QED BY <4>4, <4>5, <4>6, <4>7
        <3> HIDE DEF U, T
        <3> QED BY <3>1, <3>2
    <2>2. U \subseteq Change
        <3>1. \A j \in 1 .. (i - 1) : j \in 1 .. Len(local[c])
            BY <1>1
        <3> QED BY <1>7, <1>8, <3>1
    <2>3. <<local[c][i], LocalBefore(c, i)>> \in W
        BY DEF GroundInv
    <2> HIDE DEF U
    <2>4. <<local[c][i], U>> \in W
        BY <2>1, <2>2, <2>3 DEF Sound
    <2> QED BY <2>4 DEF U, Joined
<1> DEFINE n == Len(log)
<1>10. /\ Len(log') = n + Len(local[c])
       /\ \A s \in 1 .. n : log'[s] = log[s]
       /\ \A i \in 1 .. Len(local[c]) : log'[n + i] = local[c][i]
    BY DEF Pushed
<1>11. \A i \in 1 .. Len(local[c]) : \A e \in S : ~SameId(local[c][i], e)
    <2> SUFFICES ASSUME NEW i \in 1 .. Len(local[c]), NEW s \in 1 .. n, SameId(local[c][i], log[s])
                 PROVE  FALSE
        OBVIOUS
    <2>1. SameId(log'[n + i], log'[s])
        BY <1>10
    <2>2. n + i \in 1 .. Len(log') /\ s \in 1 .. Len(log') /\ n + i # s
        BY <1>1, <1>10
    <2> HIDE DEF n
    <2> QED BY <2>1, <2>2 DEF LogIdsInv
<1>12. \A i, j \in 1 .. Len(local[c]) : SameId(local[c][i], local[c][j]) => i = j
    <2> SUFFICES ASSUME NEW i \in 1 .. Len(local[c]), NEW j \in 1 .. Len(local[c]),
                        SameId(local[c][i], local[c][j])
                 PROVE  i = j
        OBVIOUS
    <2>1. SameId(log'[n + i], log'[n + j])
        BY <1>10
    <2>2. n + i \in 1 .. Len(log') /\ n + j \in 1 .. Len(log') /\ n \in Nat
        BY <1>1, <1>10
    <2> HIDE DEF n
    <2>3. n + i = n + j
        BY <2>1, <2>2 DEF LogIdsInv
    <2> QED BY <2>2, <2>3
<1> HIDE DEF S, n
<1>13. /\ \/ Replay(snapshot, local[c]).failed
          \/ <<Replay(snapshot, local[c]).value, Joined(S, local[c], Len(local[c]))>> \in R
       /\ NeverFails(R, W) => ~Replay(snapshot, local[c]).failed
    BY <1>1, <1>6, <1>7, <1>8, <1>9, <1>11, <1>12, ReplaySound
<1> QED BY <1>13 DEF S

LEMMA SnapshotValue ==
    ASSUME OrderInv, NEW c \in Clients, pack[c] = <<>>,
           NEW R, NEW W, Sound(R, W), ChangesInv, GroundInv(W),
           LogIdsInv', ClockIndInv', Pushed(c), PullSnapshot(c)
    PROVE  /\ c \notin dead' =>
                <<data'[c], {log[s] : s \in 1 .. Len(log)}
                            \cup {local[c][i] : i \in 1 .. Len(local[c])}>> \in R
           /\ NeverFails(R, W) => UNCHANGED dead
<1>1. PICK mine \in {Replay(snapshot, local[c]) : snapshot \in Snapshot} :
        IF mine.failed
        THEN dead' = dead \cup {c} /\ UNCHANGED data
        ELSE data' = [data EXCEPT ![c] = mine.value] /\ UNCHANGED dead
    BY DEF PullSnapshot
<1>2. PICK snapshot \in Snapshot : mine = Replay(snapshot, local[c])
    BY <1>1
<1> DEFINE S == {log[s] : s \in 1 .. Len(log)}
<1>3. /\ mine.failed \/ <<mine.value, Joined(S, local[c], Len(local[c]))>> \in R
      /\ NeverFails(R, W) => ~mine.failed
    BY <1>2, SnapshotReplay
<1>4. ASSUME c \notin dead'
      PROVE  <<data'[c], Joined(S, local[c], Len(local[c]))>> \in R
    <2>1. ~mine.failed /\ data'[c] = mine.value
        BY <1>1, <1>4 DEF OrderInv, Shape
    <2> HIDE DEF S
    <2> QED BY <1>3, <2>1
<1>5. NeverFails(R, W) => UNCHANGED dead
    BY <1>1, <1>3
<1> QED BY <1>4, <1>5 DEF Joined, S

LEMMA SyncOrderInv ==
    ASSUME OrderInv, ClockIndInv', ~Collecting, NEW c \in Clients, Sync(c)
    PROVE  OrderInv'
<1> USE DEF OrderInv
<1>1. pack[c] = <<>> /\ (PullChanges(c) \/ PullSnapshot(c))
    BY DEF Sync, Ready
<1>2. Pushed(c)
    BY SyncFacts
<1>3. /\ LogIdsInv' /\ LocalInv'
      /\ \A d \in Clients \ {c} :
            /\ Executed(d)' = Executed(d)
            /\ pack'[d] # <<>> => local'[d] = <<>>
            /\ \E k \in Nat : PackOf(d, k)'
    BY <1>1, <1>2, SyncOrder
<1>4. /\ \E k \in Nat : PackOf(c, k)'
      /\ \A f \in Executed(c)' : f.lamport <= clock'[c]
    <2>1. CASE PullChanges(c)
        <3>1. (\E k \in Nat : PackOf(c, k)') /\ Executed(c)' = Executed(c)
            BY <1>1, <1>2, <1>3, <2>1, SyncChanges
        <3>2. clock' = clock
            BY <2>1 DEF PullChanges
        <3> QED BY <3>1, <3>2 DEF AheadInv
    <2>2. CASE PullSnapshot(c)
        BY <1>1, <1>2, <2>2, SyncSnapshot
    <2> QED BY <1>1, <2>1, <2>2
<1>5. PackInv'
    BY <1>2, <1>3, <1>4 DEF PackInv, Pushed
<1>6. AheadInv'
    <2> SUFFICES ASSUME NEW d \in Clients
                 PROVE  \A f \in Executed(d)' : f.lamport <= clock'[d]
        BY DEF AheadInv
    <2>1. CASE d = c
        BY <1>4, <2>1
    <2>2. CASE d # c
        BY <1>2, <1>3, <2>2 DEF AheadInv, Pushed
    <2> QED BY <2>1, <2>2
<1> QED BY <1>2, <1>3, <1>5, <1>6 DEF Pushed

LEMMA SyncValues ==
    ASSUME OrderInv, ClockIndInv', ~Collecting, NEW R, NEW W, Sound(R, W),
           ChangesInv, GroundInv(W), ValuesInv(R), NEW c \in Clients, Sync(c)
    PROVE  /\ ChangesInv' /\ GroundInv(W)' /\ ValuesInv(R)'
           /\ NeverFails(R, W) => UNCHANGED dead
<1>1. pack[c] = <<>> /\ c \notin dead /\ (PullChanges(c) \/ PullSnapshot(c))
    BY DEF Sync, Ready
<1>2. Pushed(c)
    BY SyncFacts
<1>3. LogIdsInv' /\ \A d \in Clients \ {c} : Executed(d)' = Executed(d)
    BY <1>1, <1>2, SyncOrder
<1>4. ChangesInv' /\ GroundInv(W)'
    BY <1>1, <1>2, <1>3, SyncGround
<1>5. /\ c \notin dead' => <<data'[c], Executed(c)'>> \in R
      /\ NeverFails(R, W) => UNCHANGED dead
    <2>1. CASE PullChanges(c)
        <3>1. Executed(c)' = Executed(c) /\ data' = data /\ dead' = dead
            BY <1>1, <1>2, <1>3, <2>1, SyncChanges DEF PullChanges
        <3> QED BY <1>1, <3>1 DEF ValuesInv
    <2>2. CASE PullSnapshot(c)
        <3>1. Executed(c)' = {log[s] : s \in 1 .. Len(log)}
                             \cup {local[c][i] : i \in 1 .. Len(local[c])}
            BY <1>1, <1>2, <2>2, SyncSnapshot
        <3>2. /\ c \notin dead' =>
                    <<data'[c], {log[s] : s \in 1 .. Len(log)}
                                \cup {local[c][i] : i \in 1 .. Len(local[c])}>> \in R
              /\ NeverFails(R, W) => UNCHANGED dead
            BY <1>1, <1>2, <1>3, <2>2, SnapshotValue
        <3> QED BY <3>1, <3>2
    <2> QED BY <1>1, <2>1, <2>2
<1>6. ValuesInv(R)'
    <2> SUFFICES ASSUME NEW d \in Clients, d \notin dead'
                 PROVE  <<data'[d], Executed(d)'>> \in R
        BY DEF ValuesInv
    <2>1. CASE d = c
        BY <1>5, <2>1
    <2>2. CASE d # c
        BY <1>2, <1>3, <2>2 DEF ValuesInv, Pushed
    <2> QED BY <2>1, <2>2
<1> QED BY <1>4, <1>5, <1>6

-----------------------------------------------------------------------------
(***************************************************************************)
(* The theorem                                                             *)
(***************************************************************************)

LEMMA ExecInit == Init => ExecInv
<1> SUFFICES ASSUME Init PROVE ExecInv
    OBVIOUS
<1>1. ClockIndInv
    BY EmptyFacts DEF Init, ClockIndInv, ClockType, ClockInv, LamportBound, Lamports
<1>2. /\ log = <<>> /\ \A c \in Clients : local[c] = <<>> /\ pack[c] = <<>> /\ cp[c] = 0
      /\ \A c \in Clients : data[c] = Empty /\ synced[c] = 0 /\ min[c] = Nil
    BY DEF Init
<1>3. \A c \in Clients : Executed(c) = {}
    BY <1>1, <1>2, ExecutedReady, EmptyFacts DEF OfLogAndLocal
<1>4. Shape /\ SyncedInv
    BY <1>2 DEF Init, Shape, SyncedInv
<1>5. LogIdsInv /\ LocalInv /\ AheadInv
    BY <1>2, <1>3, EmptyFacts DEF LogIdsInv, LocalInv, AheadInv
<1>6. PackInv
    <2> SUFFICES ASSUME NEW c \in Clients PROVE PackOf(c, 0)
        BY <1>2 DEF PackInv
    <2> QED BY <1>2, EmptyFacts DEF PackOf
<1>7. ASSUME NEW R, NEW W, Sound(R, W)
      PROVE  ChangesInv /\ GroundInv(W) /\ ValuesInv(R) /\ NoFatal
    <2>3. NoFatal
        BY DEF Init, NoFatal
    <2>1. ChangesInv /\ GroundInv(W)
        BY <1>2, EmptyFacts DEF ChangesInv, GroundInv
    <2>2. <<Empty, {}>> \in R
        BY <1>7 DEF Sound
    <2> QED BY <1>2, <1>3, <2>1, <2>2, <2>3 DEF ValuesInv
<1> QED BY <1>1, <1>4, <1>5, <1>6, <1>7 DEF ExecInv, OrderInv, ExecutionsInv

LEMMA ExecNext ==
    ASSUME ExecInv, ~Collecting, [Next]_vars
    PROVE  ExecInv'
<1> USE DEF ExecInv
<1>1. ClockIndInv'
    <2>1. ClockIndInv
        BY DEF OrderInv
    <2>2. CASE UNCHANGED vars
        BY <2>1, <2>2 DEF vars, ClockIndInv, ClockType, ClockInv, LamportBound
    <2>3. ASSUME NEW c \in Clients, ClientStep(c)
          PROVE  ClockIndInv'
        <3>1. CASE Update(c)
            BY <2>1, <3>1, UpdateStep
        <3>2. CASE Sync(c)
            BY <2>1, <3>2, SyncStep
        <3>3. CASE ApplyChange(c)
            BY <2>1, <3>3, ApplyStep
        <3>4. CASE Collect(c)
            BY <2>1, <3>4 DEF Collect, ClockIndInv, ClockType, ClockInv, LamportBound
        <3> QED BY <2>3, <3>1, <3>2, <3>3, <3>4 DEF ClientStep
    <2> QED BY <2>2, <2>3 DEF Next
<1>2. ASSUME NEW c \in Clients, Update(c)
      PROVE  ExecInv'
    <2>1. pack[c] = <<>>
        BY <1>2 DEF Update, Ready
    <2>2. OrderInv'
        <3>1. PICK op : Updated(c, [op |-> op, actor |-> c, lamport |-> clock[c] + 1])
            BY <1>2, UpdateFacts
        <3> QED BY <1>1, <2>1, <3>1, UpdateOrder
    <2>3. ExecutionsInv'
        BY <1>1, <1>2, UpdateValues DEF ExecutionsInv, NoFatal
    <2> QED BY <2>2, <2>3
<1>3. ASSUME NEW c \in Clients, Sync(c)
      PROVE  ExecInv'
    <2>1. OrderInv'
        BY <1>1, <1>3, SyncOrderInv
    <2>2. ExecutionsInv'
        BY <1>1, <1>3, SyncValues DEF ExecutionsInv, NoFatal
    <2> QED BY <2>1, <2>2
<1>4. ASSUME NEW c \in Clients, ApplyChange(c)
      PROVE  ExecInv'
    <2>1. OrderInv'
        <3>1. PICK k \in Nat, p \in Nat : Applied(c, k, p)
            BY <1>1, <1>4, ApplyFacts
        <3> QED BY <1>1, <3>1, ApplyOrder
    <2>2. ExecutionsInv'
        BY <1>1, <1>4, ApplyValues DEF ExecutionsInv, NoFatal
    <2> QED BY <2>1, <2>2
<1>5. ASSUME NEW c \in Clients, Collect(c)
      PROVE  ExecInv'
    <2>1. OrderInv'
        BY <1>1, <1>5, CollectOrder
    <2>2. ExecutionsInv'
        <3>1. UNCHANGED dead
            BY <1>5 DEF Collect
        <3> QED BY <1>1, <1>5, <3>1, CollectValues DEF ExecutionsInv, NoFatal
    <2> QED BY <2>1, <2>2
<1>6. CASE UNCHANGED vars
    <2>1. UNCHANGED <<log, synced, data, clock, cp, local, pack, min, dead>>
        BY <1>6 DEF vars
    <2>2. \A c : Executed(c)' = Executed(c)
        BY <2>1 DEF Executed
    <2>3. OrderInv'
        BY <1>1, <2>1, <2>2
           DEF OrderInv, Shape, LogIdsInv, LocalInv, PackInv, PackOf, AheadInv, SyncedInv
    <2>4. ASSUME NEW R, NEW W, Sound(R, W)
          PROVE  /\ ChangesInv' /\ GroundInv(W)' /\ ValuesInv(R)'
                 /\ NeverFails(R, W) => NoFatal'
        <3>1. ChangesInv /\ GroundInv(W) /\ ValuesInv(R) /\ (NeverFails(R, W) => NoFatal)
            BY <2>4 DEF ExecutionsInv
        <3> QED BY <2>1, <2>2, <3>1, GroundSame DEF ChangesInv, ValuesInv, NoFatal
    <2> QED BY <2>3, <2>4 DEF ExecutionsInv
<1> QED BY <1>2, <1>3, <1>4, <1>5, <1>6 DEF Next, ClientStep

\* In an instance that does not collect, every replica that runs has executed each
\* change once and after what the change's author had executed: its value is in
\* every set of values that is closed under such executions.  Whether the changes
\* came one by one or in a snapshot makes no difference.
THEOREM Execution == ASSUME ~Collecting PROVE Spec => []ExecInv
<1>1. Init => ExecInv
    BY ExecInit
<1>2. ExecInv /\ [Next]_vars => ExecInv'
    BY ExecNext
<1> QED BY <1>1, <1>2, PTL DEF Spec

\* Replicas that have executed the same changes.
LEMMA SameExecuted ==
    ASSUME ExecInv, NEW c \in Clients, NEW d \in Clients, SameChanges(c, d)
    PROVE  /\ c \notin dead /\ d \notin dead
           /\ Executed(c) = Executed(d)
           /\ \A e \in Executed(c) : \E s \in DOMAIN log : e = log[s]
<1>1. /\ c \notin dead /\ d \notin dead /\ pack[c] = <<>> /\ pack[d] = <<>>
      /\ local[c] = <<>> /\ local[d] = <<>> /\ cp[c] = cp[d]
    BY DEF SameChanges, Ready
<1>2. Executed(c) = OfLogAndLocal(c) /\ Executed(d) = OfLogAndLocal(d)
    BY <1>1, ExecutedReady DEF ExecInv, OrderInv
<1>3. /\ OfLogAndLocal(c) = {log[s] : s \in 1 .. cp[c]}
      /\ OfLogAndLocal(d) = {log[s] : s \in 1 .. cp[c]}
    BY <1>1, EmptyFacts DEF OfLogAndLocal
<1>4. DOMAIN log = 1 .. Len(log) /\ cp[c] \in Nat /\ cp[c] <= Len(log) /\ Len(log) \in Nat
    BY ClientFacts, DomainFacts DEF ExecInv, OrderInv
<1>5. 1 .. cp[c] \subseteq DOMAIN log
    BY <1>4
<1> QED BY <1>1, <1>2, <1>3, <1>5
=============================================================================
