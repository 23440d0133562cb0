---------------------------- MODULE PubSubProofs ----------------------------
(***************************************************************************)
(* Proofs about PubSub, for any number of streams, pushers and clients:    *)
(* type correctness; NoSendOnClosed, the absence of the panic of a send on *)
(* a closed channel; and PeersAgree, where a client opens one stream.      *)
(***************************************************************************)
EXTENDS PubSub, TLAPS, SequenceTheorems

\* A thread that publishes holds the mutex for reading, so that no writer
\* changes the map below it; one that does not is in the middle of no send.
ReadersInv == \A t \in Threads : IF pc[t] = "publish" THEN t \in readers ELSE target[t] = None

IndInv == TypeOK /\ ReadersInv /\ NoSendOnClosed

-----------------------------------------------------------------------------
\* What a channel of one event holds after a send and after a receive.
LEMMA ChannelFacts ==
    ASSUME NEW q \in Seq(Event)
    PROVE  /\ \A e \in Event : Len(q) < Capacity => Append(q, e) \in Seq(Event)
                                                    /\ Len(Append(q, e)) <= Capacity
           /\ q # <<>> /\ Len(q) <= Capacity =>
                /\ Head(q) \in Event
                /\ Tail(q) \in Seq(Event)
                /\ Len(Tail(q)) <= Capacity
BY DEF Capacity

\* Publish keeps the types.
LEMMA PublishType ==
    ASSUME TypeOK, NEW t \in Threads, Publish(t)
    PROVE  TypeOK'
<1> USE ThreadsAssumption, OwnerAssumption, NoneAssumption
<1>1. CASE PublishBegin(t)
    <2>1. todo' \in [Threads -> SUBSET Streams]
        BY <1>1 DEF PublishBegin, TypeOK
    <2>2. event' \in [Threads -> {"changed", "watched", "unwatched"}]
        BY <1>1 DEF PublishBegin, TypeOK
    <2> QED BY <1>1, <2>1, <2>2 DEF PublishBegin, TypeOK, Goto
<1>2. CASE PublishPick(t)
    BY <1>2 DEF PublishPick, TypeOK
<1>3. CASE PublishSend(t)
    <2> DEFINE s == target[t]
               e == [type |-> event[t], publisher |-> Owner[t], thread |-> t]
    <2>1. s \in Streams /\ e \in Event
        BY <1>3 DEF PublishSend, TypeOK, Event
    <2>2. Len(events[s]) < Capacity /\ events' = [events EXCEPT ![s] = Append(@, e)]
        BY <1>3 DEF PublishSend
    <2> HIDE DEF s, e
    <2>3. Append(events[s], e) \in Seq(Event) /\ Len(Append(events[s], e)) <= Capacity
        BY <2>1, <2>2, ChannelFacts DEF TypeOK
    <2>4. events' \in [Streams -> Seq(Event)] /\ \A q \in Streams : Len(events'[q]) <= Capacity
        BY <2>1, <2>2, <2>3 DEF TypeOK
    <2> QED BY <1>3, <2>4 DEF PublishSend, TypeOK
<1>4. CASE PublishEnd(t)
    <2>1. /\ snapLock' \in Pushers \cup {None}
          /\ readers' \subseteq Threads
        BY <1>4 DEF PublishEnd, TypeOK
    <2>2. pc' \in [Threads -> {"off", "subscribe", "watched", "publish", "init", "loop",
                              "unsubscribe", "unwatched", "changed", "over"}]
        BY <1>4 DEF PublishEnd, TypeOK, Goto
    <2> QED BY <1>4, <2>1, <2>2 DEF PublishEnd, TypeOK
<1> QED BY <1>1, <1>2, <1>3, <1>4 DEF Publish

\* The steps of a stream keep the types.
LEMMA StreamType ==
    ASSUME TypeOK, NEW s \in Streams, StreamStep(s)
    PROVE  TypeOK'
<1> USE OwnerAssumption
<1>0. s \in Threads /\ Owner[s] \in Clients
    BY DEF Threads
<1>1. CASE Watch(s)
    BY <1>0, <1>1 DEF Watch, Goto, TypeOK
<1>6. CASE Leave(s)
    <2>1. events[s] # <<>> => Tail(events[s]) \in Seq(Event) /\ Len(Tail(events[s])) <= Capacity
        BY ChannelFacts DEF TypeOK
    <2>2. events' \in [Streams -> Seq(Event)] /\ \A q \in Streams : Len(events'[q]) <= Capacity
        BY <1>6, <2>1 DEF Leave, TypeOK
    <2> QED BY <1>0, <1>6, <2>2 DEF Leave, Goto, TypeOK
<1>7. CASE Disconnect(s)
    <2>1. conn' \in [Streams -> {"none", "open", "closed"}]
        BY <1>7 DEF Disconnect, TypeOK
    <2> QED BY <1>7, <2>1 DEF Disconnect, TypeOK
<1>8. CASE LockAnnounce(s)
    BY <1>0, <1>8 DEF LockAnnounce, TypeOK
<1>2. CASE Subscribe(s)
    <2>1. {Owner[o] : o \in subs \cup {s}} \subseteq Clients
        BY DEF TypeOK, Threads
    <2> QED BY <1>0, <1>2, <2>1 DEF Subscribe, Goto, TypeOK
<1>3. CASE Unsubscribe(s)
    <2>1. events' \in [Streams -> Seq(Event)] /\ \A q \in Streams : Len(events'[q]) <= Capacity
        BY <1>3 DEF Unsubscribe, TypeOK, Capacity
    <2> QED BY <1>0, <1>3, <2>1 DEF Unsubscribe, Goto, TypeOK
<1>4. CASE SendInitialization(s)
    BY <1>0, <1>4 DEF SendInitialization, Goto, TypeOK
<1>5. CASE SendEvent(s)
    <2>1. /\ Head(events[s]) \in Event
          /\ Tail(events[s]) \in Seq(Event) /\ Len(Tail(events[s])) <= Capacity
        BY <1>5, ChannelFacts DEF SendEvent, TypeOK
    <2>2. events' \in [Streams -> Seq(Event)] /\ \A q \in Streams : Len(events'[q]) <= Capacity
        BY <1>5, <2>1 DEF SendEvent, TypeOK
    <2>3. peers' \in [Clients -> SUBSET Clients]
        BY <1>0, <1>5, <2>1 DEF SendEvent, TypeOK, Event
    <2>4. got' \in [Streams -> SUBSET Threads]
        BY <1>5, <2>1 DEF SendEvent, TypeOK, Event
    <2> QED BY <1>5, <2>2, <2>3, <2>4 DEF SendEvent, TypeOK
<1> QED BY <1>1, <1>2, <1>3, <1>4, <1>5, <1>6, <1>7, <1>8 DEF StreamStep

\* Every step keeps the types.
LEMMA TypeStep ==
    ASSUME TypeOK, [Next]_vars
    PROVE  TypeOK'
<1>1. CASE \E t \in Threads : Publish(t)
    BY <1>1, PublishType
<1>2. CASE \E s \in Streams : StreamStep(s)
    BY <1>2, StreamType
<1>3. ASSUME NEW p \in Pushers, PushBegin(p)
      PROVE  TypeOK'
    BY <1>3 DEF PushBegin, Goto, TypeOK, Threads
<1>4. CASE UNCHANGED vars
    BY <1>4 DEF vars, TypeOK
<1> QED BY <1>1, <1>2, <1>3, <1>4 DEF Next

\* Every value of every variable has its type, and no channel holds more than
\* its one event.
THEOREM TypeCorrect == Spec => []TypeOK
<1>1. Init => TypeOK
    BY DEF Init, TypeOK, Capacity, Threads
<1>2. TypeOK /\ [Next]_vars => TypeOK'
    BY TypeStep
<1> QED BY <1>1, <1>2, PTL DEF Spec

-----------------------------------------------------------------------------
\* Publish takes the read lock before it copies the subscriptions and sends
\* only to those it has copied.
LEMMA PublishSafe ==
    ASSUME IndInv, NEW t \in Threads, Publish(t)
    PROVE  ReadersInv' /\ NoSendOnClosed'
<1> USE DEF IndInv, ReadersInv, NoSendOnClosed, TypeOK
<1>1. CASE PublishBegin(t)
    <2>1. target[t] = None
        BY <1>1 DEF PublishBegin
    <2> QED BY <1>1, <2>1 DEF PublishBegin, Goto
<1>2. CASE PublishPick(t)
    BY <1>2 DEF PublishPick
<1>3. CASE PublishSend(t)
    BY <1>3 DEF PublishSend
<1>4. CASE PublishEnd(t)
    BY <1>4 DEF PublishEnd, Goto
<1> QED BY <1>1, <1>2, <1>3, <1>4 DEF Publish

\* The writers change the map only when no thread publishes.
LEMMA StreamSafe ==
    ASSUME IndInv, NEW s \in Streams, StreamStep(s)
    PROVE  ReadersInv' /\ NoSendOnClosed'
<1> USE DEF IndInv, ReadersInv, NoSendOnClosed, TypeOK
<1>0. s \in Threads
    BY DEF Threads
<1>1. CASE Watch(s) \/ Leave(s) \/ SendInitialization(s)
    BY <1>0, <1>1 DEF Watch, Leave, SendInitialization, Goto
<1>2. CASE Disconnect(s) \/ LockAnnounce(s) \/ SendEvent(s)
    BY <1>2 DEF Disconnect, LockAnnounce, SendEvent
<1>3. CASE Subscribe(s) \/ Unsubscribe(s)
    <2>1. \A t \in Threads : pc[t] # "publish"
        BY <1>3 DEF Subscribe, Unsubscribe
    <2>2. \A t \in Threads : pc'[t] # "publish"
        BY <1>0, <1>3, <2>1 DEF Subscribe, Unsubscribe, Goto
    <2>3. \A t \in Threads : target'[t] = None
        BY <1>3, <2>1 DEF Subscribe, Unsubscribe
    <2> QED BY <2>2, <2>3
<1> QED BY <1>1, <1>2, <1>3 DEF StreamStep

\* Every step keeps the lock's discipline.
LEMMA IndStep ==
    ASSUME IndInv, [Next]_vars
    PROVE  IndInv'
<1> SUFFICES ReadersInv' /\ NoSendOnClosed'
    BY TypeStep DEF IndInv
<1>1. CASE \E t \in Threads : Publish(t)
    BY <1>1, PublishSafe
<1>2. CASE \E s \in Streams : StreamStep(s)
    BY <1>2, StreamSafe
<1>3. ASSUME NEW p \in Pushers, PushBegin(p)
      PROVE  ReadersInv' /\ NoSendOnClosed'
    BY <1>3 DEF PushBegin, Goto, IndInv, ReadersInv, NoSendOnClosed, TypeOK, Threads
<1>4. CASE UNCHANGED vars
    BY <1>4 DEF vars, IndInv, ReadersInv, NoSendOnClosed
<1> QED BY <1>1, <1>2, <1>3, <1>4 DEF Next

\* For any number of threads, Publish never sends on a closed channel: the
\* read lock keeps Unsubscribe out while a subscription is still to be sent to.
THEOREM NeverSendsOnClosed == Spec => []NoSendOnClosed
<1>1. Init => IndInv
    <2>1. Init => TypeOK
        BY DEF Init, TypeOK, Capacity, Threads
    <2> QED BY <2>1 DEF Init, IndInv, ReadersInv, NoSendOnClosed
<1>2. IndInv /\ [Next]_vars => IndInv'
    BY IndStep
<1>3. IndInv => NoSendOnClosed
    BY DEF IndInv
<1> QED BY <1>1, <1>2, <1>3, PTL DEF Spec

-----------------------------------------------------------------------------
(***************************************************************************)
(* The peers of the clients that watch                                     *)
(***************************************************************************)

\* Which streams are subscribed, and what a thread publishes.
SubsInv ==
    /\ \A s \in Streams :
        /\ pc[s] # "changed"
        /\ s \in subs <=> \/ pc[s] \in {"watched", "init", "loop", "unsubscribe"}
                          \/ pc[s] = "publish" /\ event[s] = "watched"
        /\ pc[s] = "publish" => event[s] # "changed"
    /\ \A p \in Pushers : /\ pc[p] \in {"off", "changed", "publish", "over"}
                          /\ pc[p] = "publish" => event[p] = "changed"

\* An event goes to other clients' streams, once to each.
AddressInv ==
    \A t \in Threads :
        /\ target[t] \notin todo[t]
        /\ \A s \in todo[t] : Owner[s] # Owner[t]
        /\ target[t] # None => Owner[target[t]] # Owner[t]

\* An event in a channel tells of the thread that published it.
ChannelInv ==
    \A s \in Streams :
        /\ pc[s] \in {"off", "subscribe"} => events[s] = <<>>
        /\ events[s] # <<>> =>
            LET e == Head(events[s])
            IN  /\ e.publisher = Owner[e.thread]
                /\ e.publisher # Owner[s]
                /\ e.type = "changed" <=> e.thread \notin Streams

\* The stream tells its client of the peers from Subscribe to the end of its loop.
Telling(s) == pc[s] \in {"watched", "init", "loop"} \/ (pc[s] = "publish" /\ event[s] = "watched")

\* The peers of its client: the list of Subscribe, until it is sent.
View(s) == IF pc[s] = "loop" THEN peers[Owner[s]] ELSE found[s]

\* The news of stream o, watched or unwatched, that stream s has still to get.
Due(o, s) ==
    \/ pc[o] \in {"watched", "unwatched"}
    \/ pc[o] = "publish" /\ (s \in todo[o] \/ target[o] = s)

News(o, s) == events[s] # <<>> /\ Head(events[s]).thread = o

\* The list and the news that are still to come add up to the subscriptions.
ViewInv(s) ==
    Telling(s) =>
        /\ Owner[s] \in View(s)
        /\ View(s) \subseteq {Owner[o] : o \in Streams}
        /\ \A o \in Streams \ {s} : ~Due(o, s) =>
                IF News(o, s) THEN (Head(events[s]).type = "watched") <=> (o \in subs)
                              ELSE (Owner[o] \in View(s)) <=> (o \in subs)

\* Until its stream has told a client, it knows no peers.
PeersInv ==
    \A s \in Streams :
        pc[s] \in {"off", "subscribe", "watched", "init"} \/ (pc[s] = "publish" /\ event[s] = "watched")
        => peers[Owner[s]] = {}

WatchInv ==
    /\ SubsInv /\ AddressInv /\ ChannelInv /\ PeersInv
    /\ \A s \in Streams : ViewInv(s)

\* Handlers that subscribe and leave publish it, goroutines publish changes.
LEMMA SubsStep ==
    ASSUME TypeOK, SubsInv, [Next]_vars
    PROVE  SubsInv'
<1> USE ThreadsAssumption DEF SubsInv, TypeOK, Threads
<1>1. ASSUME NEW t \in Threads, Publish(t) PROVE SubsInv'
    <2>1. CASE PublishBegin(t)
        BY <1>1, <2>1 DEF PublishBegin, Goto
    <2>2. CASE PublishPick(t)
        BY <2>2 DEF PublishPick
    <2>3. CASE PublishSend(t)
        BY <2>3 DEF PublishSend
    <2>4. CASE PublishEnd(t)
        BY <1>1, <2>4 DEF PublishEnd, Goto
    <2> QED BY <1>1, <2>1, <2>2, <2>3, <2>4 DEF Publish
<1>2. ASSUME NEW s \in Streams, StreamStep(s) PROVE SubsInv'
    <2>1. CASE Watch(s)
        BY <2>1 DEF Watch, Goto
    <2>2. CASE Disconnect(s) \/ LockAnnounce(s) \/ SendEvent(s)
        BY <2>2 DEF Disconnect, LockAnnounce, SendEvent
    <2>3. CASE Subscribe(s) \/ Unsubscribe(s)
        BY <2>3 DEF Subscribe, Unsubscribe, Goto
    <2>4. CASE SendInitialization(s)
        BY <2>4 DEF SendInitialization, Goto
    <2>5. CASE Leave(s)
        <3>1. /\ pc[s] \in {"init", "loop"} /\ pc'[s] = "unsubscribe"
              /\ \A t \in Threads \ {s} : pc'[t] = pc[t]
              /\ subs' = subs /\ event' = event
            BY <2>5 DEF Leave, Goto
        <3> QED BY <3>1
    <2> QED BY <1>2, <2>1, <2>2, <2>3, <2>4, <2>5 DEF StreamStep
<1>3. ASSUME NEW p \in Pushers, PushBegin(p) PROVE SubsInv'
    BY <1>3 DEF PushBegin, Goto
<1>4. CASE UNCHANGED vars
    BY <1>4 DEF vars
<1> QED BY <1>1, <1>2, <1>3, <1>4 DEF Next

\* Publish excludes the publisher's own subscription and comes to each once.
LEMMA AddressStep ==
    ASSUME IndInv, AddressInv, [Next]_vars
    PROVE  AddressInv'
<1> USE NoneAssumption DEF IndInv, AddressInv, TypeOK, Threads
<1>1. ASSUME NEW t \in Threads, Publish(t) PROVE AddressInv'
    <2>1. CASE PublishBegin(t)
        <3>1. /\ \A u \in Threads : target'[u] = target[u]
              /\ \A u \in Threads \ {t} : todo'[u] = todo[u]
              /\ todo'[t] = {s \in subs : Owner[s] # Owner[t]}
              /\ target[t] = None
            BY <1>1, <2>1 DEF PublishBegin, ReadersInv
        <3>2. None \notin todo'[t]
            BY <3>1
        <3>3. ASSUME NEW u \in Threads
              PROVE  /\ target'[u] \notin todo'[u]
                     /\ \A s \in todo'[u] : Owner[s] # Owner[u]
                     /\ target'[u] # None => Owner[target'[u]] # Owner[u]
            <4>1. CASE u = t
                BY <3>1, <3>2, <4>1
            <4>2. CASE u # t
                BY <3>1, <4>2
            <4> QED BY <4>1, <4>2
        <3> HIDE DEF IndInv, TypeOK
        <3> QED BY <3>3
    <2>2. CASE PublishPick(t)
        BY <2>2 DEF PublishPick
    <2>3. CASE PublishSend(t)
        BY <2>3 DEF PublishSend
    <2>4. CASE PublishEnd(t)
        BY <2>4 DEF PublishEnd
    <2> QED BY <1>1, <2>1, <2>2, <2>3, <2>4 DEF Publish
<1>2. ASSUME NEW s \in Streams, StreamStep(s) PROVE UNCHANGED <<target, todo>>
    BY <1>2 DEF StreamStep, Watch, Disconnect, LockAnnounce, Subscribe, Unsubscribe, SendInitialization,
                SendEvent, Leave
<1>3. ASSUME NEW p \in Pushers, PushBegin(p) PROVE UNCHANGED <<target, todo>>
    BY <1>3 DEF PushBegin
<1>4. CASE UNCHANGED <<target, todo>>
    BY <1>4
<1> QED BY <1>1, <1>2, <1>3, <1>4 DEF Next, vars

\* What a channel of one event holds before a send and after a receive.
LEMMA OneEvent ==
    ASSUME NEW q \in Seq(Event), Len(q) <= Capacity
    PROVE  /\ q # <<>> => Tail(q) = <<>>
           /\ Len(q) < Capacity => q = <<>>
           /\ \A e \in Event : Len(q) < Capacity => Append(q, e) # <<>> /\ Head(Append(q, e)) = e
<1>1. Len(q) \in Nat /\ (q # <<>> => Len(q) # 0)
    BY LenProperties, EmptySeq
<1>2. ASSUME q # <<>> PROVE Tail(q) = <<>>
    <2>1. Tail(q) \in Seq(Event) /\ Len(Tail(q)) = Len(q) - 1
        BY <1>2, HeadTailProperties
    <2>2. Len(Tail(q)) = 0
        BY <1>1, <1>2, <2>1 DEF Capacity
    <2> QED BY <2>1, <2>2, EmptySeq
<1>3. Len(q) < Capacity => q = <<>>
    BY <1>1 DEF Capacity
<1>4. ASSUME NEW e \in Event, Len(q) < Capacity PROVE Append(q, e) # <<>> /\ Head(Append(q, e)) = e
    <2>1. Len(q) = 0
        BY <1>1, <1>4 DEF Capacity
    <2>2. Append(q, e) # <<>> /\ Append(q, e)[1] = e
        <3>1. Append(q, e) # <<>> /\ Append(q, e)[Len(q) + 1] = e
            BY AppendProperties
        <3>2. Len(q) + 1 = 1
            BY <2>1
        <3> QED BY <3>1, <3>2
    <2> QED BY <2>2
<1> QED BY <1>2, <1>3, <1>4

\* The event a thread sends, and the channel it sends it to.
LEMMA SentEvent ==
    ASSUME IndInv, SubsInv, AddressInv, NEW t \in Threads, PublishSend(t)
    PROVE  LET e == [type |-> event[t], publisher |-> Owner[t], thread |-> t]
               u == target[t]
           IN  /\ u \in subs /\ Owner[u] # Owner[t] /\ t # u
               /\ events[u] = <<>> /\ events'[u] # <<>> /\ Head(events'[u]) = e
               /\ \A s \in Streams \ {u} : events'[s] = events[s]
               /\ e.type = "changed" <=> t \notin Streams
<1> DEFINE e == [type |-> event[t], publisher |-> Owner[t], thread |-> t]
<1> USE OwnerAssumption, ThreadsAssumption
<1>1. PICK u : u = target[t]
    OBVIOUS
<1>2. pc[t] = "publish" /\ u \in subs /\ u \in Streams
    BY <1>1 DEF PublishSend, IndInv, TypeOK, NoSendOnClosed
<1>3. Owner[u] # Owner[t] /\ t # u
    BY <1>1, <1>2, NoneAssumption DEF AddressInv, Threads
<1>4. e \in Event
    BY DEF IndInv, TypeOK, Event
<1>5. events' = [events EXCEPT ![u] = Append(events[u], e)] /\ Len(events[u]) < Capacity
    BY <1>1 DEF PublishSend
<1>6. event[t] = "changed" <=> t \notin Streams
    BY <1>2 DEF SubsInv, Threads
<1>7. events[u] \in Seq(Event) /\ Len(events[u]) <= Capacity /\ events \in [Streams -> Seq(Event)]
    BY <1>2 DEF IndInv, TypeOK
<1> HIDE DEF e
<1>8. events[u] = <<>> /\ events'[u] # <<>> /\ Head(events'[u]) = e
    BY <1>2, <1>4, <1>5, <1>7, OneEvent
<1>9. \A s \in Streams \ {u} : events'[s] = events[s]
    BY <1>5, <1>7
<1> QED BY <1>1, <1>2, <1>3, <1>6, <1>8, <1>9 DEF e

\* A stream that takes its event leaves an empty channel.
LEMMA TakenEvent ==
    ASSUME TypeOK, NEW s \in Streams, events[s] # <<>>, events' = [events EXCEPT ![s] = Tail(@)]
    PROVE  /\ Head(events[s]) \in Event /\ events'[s] = <<>>
           /\ \A u \in Streams \ {s} : events'[u] = events[u]
<1>1. events[s] \in Seq(Event) /\ Len(events[s]) <= Capacity /\ events \in [Streams -> Seq(Event)]
    BY DEF TypeOK
<1> QED BY <1>1, OneEvent, ChannelFacts

\* Nothing is in the channel of a stream that has not subscribed.
LEMMA ChannelStep ==
    ASSUME IndInv, SubsInv, AddressInv, ChannelInv, [Next]_vars
    PROVE  ChannelInv'
<1> DEFINE Told(s) == events[s] # <<>> =>
                          LET e == Head(events[s])
                          IN  /\ e.publisher = Owner[e.thread]
                              /\ e.publisher # Owner[s]
                              /\ e.type = "changed" <=> e.thread \notin Streams
<1>0. TypeOK
    BY DEF IndInv
<1>1. ASSUME \A s \in Streams : pc'[s] \in {"off", "subscribe"} => pc[s] \in {"off", "subscribe"},
             \A s \in Streams : events'[s] = events[s] \/ events'[s] = <<>>
      PROVE  ChannelInv'
    <2>1. ASSUME NEW s \in Streams PROVE pc'[s] \in {"off", "subscribe"} => events'[s] = <<>>
        BY <1>1 DEF ChannelInv
    <2>2. ASSUME NEW s \in Streams PROVE Told(s)'
        BY <1>1 DEF ChannelInv
    <2> QED BY <2>1, <2>2 DEF ChannelInv
<1>2. ASSUME NEW t \in Threads, Publish(t) PROVE ChannelInv'
    <2>1. CASE PublishSend(t)
        <3>1. PICK u : u = target[t]
            OBVIOUS
        <3>2. /\ u \in subs /\ u \in Streams /\ events'[u] # <<>>
              /\ Head(events'[u]) = [type |-> event[t], publisher |-> Owner[t], thread |-> t]
              /\ Owner[u] # Owner[t]
              /\ \A s \in Streams \ {u} : events'[s] = events[s]
              /\ event[t] = "changed" <=> t \notin Streams
            BY <1>0, <2>1, <3>1, SentEvent DEF TypeOK
        <3>3. pc' = pc
            BY <2>1 DEF PublishSend
        <3>4. ASSUME NEW s \in Streams PROVE (pc'[s] \in {"off", "subscribe"} => events'[s] = <<>>) /\ Told(s)'
            <4>1. CASE s = u
                <5>1. pc[u] \notin {"off", "subscribe"}
                    BY <3>2 DEF SubsInv
                <5> QED BY <3>2, <3>3, <4>1, <5>1
            <4>2. CASE s # u
                BY <3>2, <3>3, <4>2 DEF ChannelInv
            <4> QED BY <4>1, <4>2
        <3> QED BY <3>4 DEF ChannelInv
    <2>2. CASE PublishBegin(t) \/ PublishPick(t) \/ PublishEnd(t)
        <3>1. events' = events
            BY <2>2 DEF PublishBegin, PublishPick, PublishEnd
        <3>2. \A s \in Streams : pc'[s] \in {"off", "subscribe"} => pc[s] \in {"off", "subscribe"}
            BY <1>0, <2>2 DEF PublishBegin, PublishPick, PublishEnd, Goto, TypeOK, Threads
        <3> QED BY <1>1, <3>1, <3>2
    <2> QED BY <1>2, <2>1, <2>2 DEF Publish
<1>3. ASSUME NEW u \in Streams, StreamStep(u) PROVE ChannelInv'
    <2>1. \A s \in Streams : pc'[s] \in {"off", "subscribe"} => pc[s] \in {"off", "subscribe"}
        BY <1>0, <1>3 DEF StreamStep, Watch, Disconnect, LockAnnounce, Subscribe, Unsubscribe, SendInitialization,
                          SendEvent, Leave, Goto, TypeOK, Threads
    <2>2. \/ events' = events
          \/ events' = [events EXCEPT ![u] = <<>>]
          \/ events[u] # <<>> /\ events' = [events EXCEPT ![u] = Tail(@)]
        BY <1>3 DEF StreamStep, Watch, Disconnect, LockAnnounce, Subscribe, Unsubscribe, SendInitialization,
                    SendEvent, Leave
    <2>3. \A s \in Streams : events'[s] = events[s] \/ events'[s] = <<>>
        BY <1>0, <2>2, TakenEvent DEF TypeOK
    <2> QED BY <1>1, <2>1, <2>3
<1>4. ASSUME NEW p \in Pushers, PushBegin(p) PROVE ChannelInv'
    BY <1>0, <1>1, <1>4, ThreadsAssumption DEF PushBegin, Goto, TypeOK, Threads
<1>5. CASE UNCHANGED vars
    BY <1>1, <1>5 DEF vars
<1> QED BY <1>2, <1>3, <1>4, <1>5 DEF Next

\* A client whose one stream has told it nothing yet knows no peers.
LEMMA PeersStep ==
    ASSUME IndInv, PeersInv, [Next]_vars, \A o, s \in Streams : Owner[o] = Owner[s] => o = s
    PROVE  PeersInv'
<1> DEFINE Before(s) == \/ pc[s] \in {"off", "subscribe", "watched", "init"}
                        \/ pc[s] = "publish" /\ event[s] = "watched"
<1>0. TypeOK /\ OwnerAssumption
    BY OwnerAssumption DEF IndInv, OwnerAssumption
<1>1. ASSUME \A s \in Streams : Before(s)' => Before(s) /\ peers'[Owner[s]] = peers[Owner[s]]
      PROVE  PeersInv'
    BY <1>1 DEF PeersInv
<1>2. ASSUME NEW t \in Threads, Publish(t) PROVE PeersInv'
    <2>1. peers' = peers
        BY <1>2 DEF Publish, PublishBegin, PublishPick, PublishSend, PublishEnd
    <2>2. ASSUME NEW s \in Streams PROVE Before(s)' => Before(s)
        BY <1>0, <1>2 DEF Publish, PublishBegin, PublishPick, PublishSend, PublishEnd, Goto, TypeOK, Threads
    <2> QED BY <1>1, <2>1, <2>2
<1>3. ASSUME NEW u \in Streams, StreamStep(u) PROVE PeersInv'
    <2>1. CASE SendInitialization(u) \/ SendEvent(u)
        <3>1. pc'[u] = "loop" /\ \A s \in Streams \ {u} : pc'[s] = pc[s] /\ event'[s] = event[s]
            BY <1>0, <2>1 DEF SendInitialization, SendEvent, Goto, TypeOK, Threads
        <3>2. \A d \in Clients \ {Owner[u]} : peers'[d] = peers[d]
            BY <1>0, <2>1 DEF SendInitialization, SendEvent, TypeOK
        <3>3. \A s \in Streams \ {u} : Owner[s] \in Clients \ {Owner[u]}
            BY OwnerAssumption DEF Threads
        <3>4. ASSUME NEW s \in Streams PROVE Before(s)' => Before(s) /\ peers'[Owner[s]] = peers[Owner[s]]
            BY <3>1, <3>2, <3>3
        <3> QED BY <1>1, <3>4
    <2>2. CASE ~SendInitialization(u) /\ ~SendEvent(u)
        <3>1. peers' = peers /\ event' = event
            BY <1>3, <2>2 DEF StreamStep, Watch, Disconnect, LockAnnounce, Subscribe, Unsubscribe, Leave
        <3>2. ASSUME NEW s \in Streams PROVE Before(s)' => Before(s)
            BY <1>0, <1>3, <2>2, <3>1 DEF StreamStep, Watch, Disconnect, LockAnnounce, Subscribe, Unsubscribe, Leave,
                                          Goto, TypeOK, Threads
        <3> QED BY <1>1, <3>1, <3>2
    <2> QED BY <2>1, <2>2
<1>4. ASSUME NEW p \in Pushers, PushBegin(p) PROVE PeersInv'
    BY <1>0, <1>1, <1>4, ThreadsAssumption DEF PushBegin, Goto, TypeOK, Threads
<1>5. CASE UNCHANGED vars
    BY <1>1, <1>5 DEF vars
<1> QED BY <1>2, <1>3, <1>4, <1>5 DEF Next

\* Whatever does not touch the channel and the list of a stream leaves it
\* right, as long as news that were due stay due and the streams that come or
\* go have news due.
LEMMA ViewKept ==
    ASSUME NEW s \in Streams, ViewInv(s),
           Telling(s)' => /\ Telling(s) /\ events'[s] = events[s] /\ View(s)' = View(s)
                          /\ \A o \in Streams \ {s} :
                                Due(o, s)' \/ (~Due(o, s) /\ (o \in subs' <=> o \in subs))
    PROVE  ViewInv(s)'
<1> SUFFICES ASSUME Telling(s)'
             PROVE  /\ Owner[s] \in View(s)'
                    /\ View(s)' \subseteq {Owner[o] : o \in Streams}
                    /\ \A o \in Streams \ {s} : ~Due(o, s)' =>
                            IF News(o, s)' THEN (Head(events'[s]).type = "watched") <=> (o \in subs')
                                           ELSE (Owner[o] \in View(s)') <=> (o \in subs')
    BY DEF ViewInv
<1>1. Owner[s] \in View(s)' /\ View(s)' \subseteq {Owner[o] : o \in Streams}
    BY DEF ViewInv
<1>2. \A o : News(o, s)' <=> News(o, s)
    BY DEF News
<1>3. ASSUME NEW o \in Streams \ {s}, ~Due(o, s)'
      PROVE  IF News(o, s)' THEN (Head(events'[s]).type = "watched") <=> (o \in subs')
                            ELSE (Owner[o] \in View(s)') <=> (o \in subs')
    <2>1. ~Due(o, s) /\ (o \in subs' <=> o \in subs)
        BY <1>3
    <2>2. IF News(o, s) THEN (Head(events[s]).type = "watched") <=> (o \in subs)
                        ELSE (Owner[o] \in View(s)) <=> (o \in subs)
        BY <2>1 DEF ViewInv
    <2> QED BY <1>2, <2>1, <2>2
<1> QED BY <1>1, <1>3

\* Publish tells every stream but the publisher's what has become of it.
LEMMA ViewPublish ==
    ASSUME IndInv, WatchInv, NEW t \in Threads, Publish(t), NEW s \in Streams,
           \A o, u \in Streams : Owner[o] = Owner[u] => o = u
    PROVE  ViewInv(s)'
<1>0. /\ TypeOK /\ SubsInv /\ AddressInv /\ ChannelInv /\ ViewInv(s)
      /\ \A o \in Streams : o \in Threads
      /\ subs' = subs /\ peers' = peers /\ found' = found
    BY DEF IndInv, WatchInv, Threads, Publish, PublishBegin, PublishPick, PublishSend, PublishEnd
<1>1. CASE PublishBegin(t)
    <2>1. /\ pc[t] \in {"watched", "unwatched", "changed"}
          /\ pc'[t] = "publish" /\ event'[t] = pc[t]
          /\ todo'[t] = {u \in subs : Owner[u] # Owner[t]}
          /\ \A u \in Threads \ {t} : pc'[u] = pc[u] /\ event'[u] = event[u] /\ todo'[u] = todo[u]
          /\ target' = target /\ events' = events
        BY <1>0, <1>1 DEF PublishBegin, Goto, TypeOK
    <2>2. Telling(s)' => Telling(s) /\ View(s)' = View(s)
        BY <1>0, <2>1 DEF Telling, View
    <2>3. ASSUME Telling(s)', NEW o \in Streams \ {s} PROVE Due(o, s)' \/ ~Due(o, s)
        <3>1. CASE o = t
            <4>1. s \in subs
                BY <1>0, <2>2, <2>3 DEF SubsInv, Telling
            <4>2. s \in todo'[t]
                BY <2>1, <2>3, <3>1, <4>1
            <4> QED BY <2>1, <3>1, <4>2 DEF Due
        <3>2. CASE o # t
            BY <1>0, <2>1, <3>2 DEF Due
        <3> QED BY <3>1, <3>2
    <2> QED BY <1>0, <2>1, <2>2, <2>3, ViewKept
<1>2. CASE PublishPick(t)
    <2>1. /\ pc' = pc /\ event' = event /\ events' = events
          /\ target[t] = None
          /\ \A u \in Threads \ {t} : todo'[u] = todo[u] /\ target'[u] = target[u]
          /\ \A u \in todo[t] : u \in todo'[t] \/ target'[t] = u
        BY <1>2, <1>0 DEF PublishPick, TypeOK
    <2>2. Telling(s)' => Telling(s) /\ View(s)' = View(s)
        BY <1>0, <2>1 DEF Telling, View
    <2>3. ASSUME NEW o \in Streams \ {s} PROVE Due(o, s)' \/ ~Due(o, s)
        BY <1>0, <2>1, NoneAssumption DEF Due
    <2> QED BY <1>0, <2>1, <2>2, <2>3, ViewKept
<1>3. CASE PublishSend(t)
    <2>1. PICK u : u = target[t]
        OBVIOUS
    <2>2. /\ pc' = pc /\ event' = event /\ todo' = todo
          /\ \A o \in Threads \ {t} : target'[o] = target[o]
        BY <1>0, <1>3 DEF PublishSend, TypeOK
    <2>3. /\ events[u] = <<>> /\ events'[u] # <<>>
          /\ Head(events'[u]) = [type |-> event[t], publisher |-> Owner[t], thread |-> t]
          /\ \A o \in Streams \ {u} : events'[o] = events[o]
        BY <1>0, <1>3, <2>1, SentEvent
    <2>4. Telling(s)' => Telling(s) /\ View(s)' = View(s)
        BY <1>0, <2>2 DEF Telling, View
    <2>5. CASE s # u
        <3>1. ASSUME NEW o \in Streams \ {s} PROVE Due(o, s)' \/ ~Due(o, s)
            BY <1>0, <2>1, <2>2, <2>5 DEF Due
        <3> QED BY <1>0, <2>3, <2>4, <2>5, <3>1, ViewKept
    <2>6. CASE s = u
        <3> SUFFICES ASSUME Telling(s)'
                     PROVE  /\ Owner[s] \in View(s)'
                            /\ View(s)' \subseteq {Owner[o] : o \in Streams}
                            /\ \A o \in Streams \ {s} : ~Due(o, s)' =>
                                    IF News(o, s)' THEN (Head(events'[s]).type = "watched") <=> (o \in subs')
                                                   ELSE (Owner[o] \in View(s)') <=> (o \in subs')
            BY DEF ViewInv
        <3>1. Owner[s] \in View(s)' /\ View(s)' \subseteq {Owner[o] : o \in Streams}
            BY <1>0, <2>4 DEF ViewInv
        <3>2. ASSUME NEW o \in Streams \ {s}, ~Due(o, s)'
              PROVE  IF News(o, s)' THEN (Head(events'[s]).type = "watched") <=> (o \in subs')
                                    ELSE (Owner[o] \in View(s)') <=> (o \in subs')
            <4>1. CASE o = t
                <5>1. News(o, s)' /\ Head(events'[s]).type = event[o]
                    BY <2>3, <2>6, <4>1 DEF News
                <5>2. pc[o] = "publish"
                    BY <1>3, <4>1 DEF PublishSend
                <5>3. event[o] = "watched" <=> o \in subs
                    BY <1>0, <5>2 DEF SubsInv
                <5> QED BY <1>0, <5>1, <5>3
            <4>2. CASE o # t
                <5>1. ~News(o, s) /\ ~News(o, s)'
                    BY <2>3, <2>6, <4>2 DEF News
                <5>2. ~Due(o, s)
                    BY <1>0, <2>2, <3>2, <4>2 DEF Due
                <5>3. Owner[o] \in View(s) <=> o \in subs
                    BY <1>0, <2>4, <5>1, <5>2 DEF ViewInv
                <5> QED BY <1>0, <2>4, <5>1, <5>3
            <4> QED BY <4>1, <4>2
        <3> QED BY <3>1, <3>2
    <2> QED BY <2>5, <2>6
<1>4. CASE PublishEnd(t)
    <2>1. /\ pc[t] = "publish" /\ target[t] = None /\ todo[t] = {}
          /\ pc'[t] = IF event[t] = "watched" THEN "init" ELSE "over"
          /\ \A u \in Threads \ {t} : pc'[u] = pc[u]
          /\ event' = event /\ todo' = todo /\ target' = target /\ events' = events
        BY <1>0, <1>4 DEF PublishEnd, Goto, TypeOK
    <2>2. Telling(s)' => Telling(s) /\ View(s)' = View(s)
        BY <1>0, <2>1 DEF Telling, View
    <2>3. ASSUME NEW o \in Streams \ {s} PROVE Due(o, s)' \/ ~Due(o, s)
        BY <1>0, <2>1, <2>3, NoneAssumption DEF Due
    <2> QED BY <1>0, <2>1, <2>2, <2>3, ViewKept
<1> QED BY <1>1, <1>2, <1>3, <1>4 DEF Publish

\* Subscribe lists the subscriptions it finds under the lock; what changes
\* after that is news.
LEMMA ViewSubscribe ==
    ASSUME IndInv, WatchInv, NEW u \in Streams, Subscribe(u), NEW s \in Streams,
           \A o, v \in Streams : Owner[o] = Owner[v] => o = v
    PROVE  ViewInv(s)'
<1>0. /\ TypeOK /\ SubsInv /\ ChannelInv /\ ViewInv(s)
      /\ \A o \in Streams : o \in Threads
      /\ subs \subseteq Streams
    BY DEF IndInv, WatchInv, TypeOK, Threads
<1>1. /\ pc[u] = "subscribe" /\ pc'[u] = "watched"
      /\ \A v \in Threads \ {u} : pc'[v] = pc[v]
      /\ subs' = subs \cup {u}
      /\ found'[u] = {Owner[o] : o \in subs \cup {u}}
      /\ \A v \in Streams \ {u} : found'[v] = found[v]
      /\ UNCHANGED <<events, event, todo, target, peers>>
    BY <1>0 DEF Subscribe, Goto, TypeOK
<1>2. CASE s = u
    <2> SUFFICES ASSUME Telling(s)'
                 PROVE  /\ Owner[s] \in View(s)'
                        /\ View(s)' \subseteq {Owner[o] : o \in Streams}
                        /\ \A o \in Streams \ {s} : ~Due(o, s)' =>
                                IF News(o, s)' THEN (Head(events'[s]).type = "watched") <=> (o \in subs')
                                               ELSE (Owner[o] \in View(s)') <=> (o \in subs')
        BY DEF ViewInv
    <2>1. View(s)' = {Owner[o] : o \in subs'}
        BY <1>1, <1>2 DEF View
    <2>2. subs' \subseteq Streams /\ s \in subs'
        BY <1>0, <1>1, <1>2
    <2>3. \A o : ~News(o, s)'
        BY <1>0, <1>1, <1>2 DEF ChannelInv, News
    <2> QED BY <2>1, <2>2, <2>3
<1>3. CASE s # u
    <2>1. Telling(s)' => Telling(s) /\ View(s)' = View(s)
        BY <1>0, <1>1, <1>3 DEF Telling, View
    <2>2. ASSUME NEW o \in Streams \ {s} PROVE Due(o, s)' \/ (~Due(o, s) /\ (o \in subs' <=> o \in subs))
        BY <1>0, <1>1 DEF Due
    <2> QED BY <1>0, <1>1, <2>1, <2>2, ViewKept
<1> QED BY <1>2, <1>3

\* An event that a stream sends makes its client's peers what the event says.
LEMMA ViewEvent ==
    ASSUME IndInv, WatchInv, NEW u \in Streams, SendEvent(u), NEW s \in Streams,
           \A o, v \in Streams : Owner[o] = Owner[v] => o = v
    PROVE  ViewInv(s)'
<1> DEFINE e == Head(events[u])
           c == Owner[u]
<1>0. /\ TypeOK /\ SubsInv /\ ChannelInv /\ ViewInv(s) /\ ViewInv(u)
      /\ \A o \in Streams : o \in Threads /\ Owner[o] \in Clients
    BY OwnerAssumption DEF IndInv, WatchInv, Threads
<1>1. /\ pc[u] = "loop" /\ events[u] # <<>>
      /\ events' = [events EXCEPT ![u] = Tail(@)]
      /\ peers' = [peers EXCEPT ![c] = CASE e.type = "watched" -> @ \cup {e.publisher}
                                         [] e.type = "unwatched" -> @ \ {e.publisher}
                                         [] OTHER -> @]
      /\ UNCHANGED <<pc, event, todo, target, subs, found>>
    BY DEF SendEvent
<1>2. /\ e \in Event /\ events'[u] = <<>>
      /\ \A v \in Streams \ {u} : events'[v] = events[v]
    BY <1>0, <1>1, TakenEvent
<1>3. /\ \A d \in Clients \ {c} : peers'[d] = peers[d]
      /\ e.type = "watched" => peers'[c] = peers[c] \cup {e.publisher}
      /\ e.type = "unwatched" => peers'[c] = peers[c] \ {e.publisher}
      /\ e.type = "changed" => peers'[c] = peers[c]
    BY <1>0, <1>1 DEF TypeOK
<1>4. e.publisher = Owner[e.thread] /\ e.publisher # c /\ (e.type = "changed" <=> e.thread \notin Streams)
    BY <1>0, <1>1 DEF ChannelInv
<1>5. e.type \in {"changed", "watched", "unwatched"}
    BY <1>2 DEF Event
<1>6. CASE s # u
    <2>1. Owner[s] \in Clients \ {c}
        BY <1>0, <1>6
    <2>2. Telling(s)' => Telling(s) /\ View(s)' = View(s)
        BY <1>1, <1>3, <2>1 DEF Telling, View
    <2>3. ASSUME NEW o \in Streams \ {s} PROVE Due(o, s)' \/ ~Due(o, s)
        BY <1>1 DEF Due
    <2> QED BY <1>0, <1>1, <1>2, <1>6, <2>2, <2>3, ViewKept
<1>7. CASE s = u
    <2> SUFFICES /\ Owner[s] \in View(s)'
                 /\ View(s)' \subseteq {Owner[o] : o \in Streams}
                 /\ \A o \in Streams \ {s} : ~Due(o, s)' =>
                        IF News(o, s)' THEN (Head(events'[s]).type = "watched") <=> (o \in subs')
                                       ELSE (Owner[o] \in View(s)') <=> (o \in subs')
        BY DEF ViewInv
    <2>1. Telling(s) /\ View(s) = peers[c] /\ View(s)' = peers'[c]
        BY <1>1, <1>7 DEF Telling, View
    <2>2. Owner[s] \in peers[c] /\ peers[c] \subseteq {Owner[o] : o \in Streams}
        BY <1>0, <2>1 DEF ViewInv
    <2> HIDE DEF e, c
    <2>3. Owner[s] \in View(s)'
        BY <1>3, <1>4, <1>5, <1>7, <2>1, <2>2 DEF c
    <2>4. View(s)' \subseteq {Owner[o] : o \in Streams}
        BY <1>3, <1>4, <1>5, <2>1, <2>2
    <2>5. ASSUME NEW o \in Streams \ {s}, ~Due(o, s)'
          PROVE  ~News(o, s)' /\ ((Owner[o] \in View(s)') <=> (o \in subs'))
        <3>1. ~News(o, s)' /\ ~Due(o, s) /\ subs' = subs
            BY <1>1, <1>2, <1>7, <2>5 DEF News, Due
        <3>2. CASE e.thread = o
            <4>1. News(o, s)
                BY <1>1, <1>7, <3>2 DEF News, e
            <4>2. e.type = "watched" <=> o \in subs
                BY <1>0, <1>7, <2>1, <3>1, <4>1 DEF ViewInv, e
            <4> QED BY <1>3, <1>4, <1>5, <2>1, <3>1, <3>2, <4>2
        <3>3. CASE e.thread # o
            <4>1. ~News(o, s)
                BY <1>7, <3>3 DEF News, e
            <4>2. (Owner[o] \in View(s)) <=> (o \in subs)
                BY <1>0, <2>1, <3>1, <4>1 DEF ViewInv
            <4>3. e.type # "changed" => e.publisher # Owner[o]
                BY <1>4, <3>3
            <4> QED BY <1>3, <1>5, <2>1, <3>1, <4>2, <4>3
        <3> QED BY <3>2, <3>3
    <2> QED BY <2>3, <2>4, <2>5
<1> QED BY <1>6, <1>7

\* The other steps of a stream.
LEMMA ViewStream ==
    ASSUME IndInv, WatchInv, NEW u \in Streams, StreamStep(u), NEW s \in Streams,
           \A o, v \in Streams : Owner[o] = Owner[v] => o = v
    PROVE  ViewInv(s)'
<1>0. /\ TypeOK /\ SubsInv /\ PeersInv /\ ViewInv(s)
      /\ \A o \in Streams : o \in Threads /\ Owner[o] \in Clients
    BY OwnerAssumption DEF IndInv, WatchInv, Threads
<1>1. CASE Watch(u)
    <2>1. /\ pc[u] = "off" /\ pc'[u] = "subscribe"
          /\ \A v \in Threads \ {u} : pc'[v] = pc[v]
          /\ UNCHANGED <<subs, events, event, todo, target, found, peers>>
        BY <1>0, <1>1 DEF Watch, Goto, TypeOK
    <2>2. Telling(s)' => Telling(s) /\ View(s)' = View(s)
        BY <1>0, <2>1 DEF Telling, View
    <2>3. ASSUME NEW o \in Streams \ {s} PROVE Due(o, s)' \/ ~Due(o, s)
        BY <1>0, <2>1 DEF Due
    <2> QED BY <1>0, <2>1, <2>2, <2>3, ViewKept
<1>2. CASE Disconnect(u) \/ LockAnnounce(u)
    <2>1. UNCHANGED <<pc, subs, events, event, todo, target, found, peers>>
        BY <1>2 DEF Disconnect, LockAnnounce
    <2>2. Telling(s)' => Telling(s) /\ View(s)' = View(s)
        BY <2>1 DEF Telling, View
    <2>3. ASSUME NEW o \in Streams \ {s} PROVE Due(o, s)' \/ ~Due(o, s)
        BY <2>1 DEF Due
    <2> QED BY <1>0, <2>1, <2>2, <2>3, ViewKept
<1>3. CASE Subscribe(u)
    BY <1>3, ViewSubscribe
<1>4. CASE Unsubscribe(u)
    <2>1. /\ pc[u] = "unsubscribe" /\ pc'[u] = "unwatched"
          /\ \A v \in Threads \ {u} : pc'[v] = pc[v]
          /\ subs' = subs \ {u}
          /\ \A v \in Streams \ {u} : events'[v] = events[v]
          /\ UNCHANGED <<event, todo, target, found, peers>>
        BY <1>0, <1>4 DEF Unsubscribe, Goto, TypeOK
    <2>2. Telling(s)' => Telling(s) /\ View(s)' = View(s) /\ s # u
        BY <1>0, <2>1 DEF Telling, View
    <2>3. ASSUME NEW o \in Streams \ {s} PROVE Due(o, s)' \/ (~Due(o, s) /\ (o \in subs' <=> o \in subs))
        BY <1>0, <2>1 DEF Due
    <2> QED BY <1>0, <2>1, <2>2, <2>3, ViewKept
<1>5. CASE SendInitialization(u)
    <2>1. /\ pc[u] = "init" /\ pc'[u] = "loop"
          /\ \A v \in Threads \ {u} : pc'[v] = pc[v]
          /\ peers'[Owner[u]] = peers[Owner[u]] \cup found[u]
          /\ \A d \in Clients \ {Owner[u]} : peers'[d] = peers[d]
          /\ UNCHANGED <<subs, events, event, todo, target, found>>
        BY <1>0, <1>5 DEF SendInitialization, Goto, TypeOK
    <2>2. peers[Owner[u]] = {}
        BY <1>0, <2>1 DEF PeersInv
    <2>3. Telling(s)' => Telling(s) /\ View(s)' = View(s)
        <3>1. CASE s = u
            BY <1>0, <2>1, <2>2, <3>1 DEF Telling, View
        <3>2. CASE s # u
            BY <1>0, <2>1, <3>2 DEF Telling, View
        <3> QED BY <3>1, <3>2
    <2>4. ASSUME NEW o \in Streams \ {s} PROVE Due(o, s)' \/ ~Due(o, s)
        BY <1>0, <2>1 DEF Due
    <2> QED BY <1>0, <2>1, <2>3, <2>4, ViewKept
<1>6. CASE SendEvent(u)
    BY <1>6, ViewEvent
<1>7. CASE Leave(u)
    <2>1. /\ pc[u] \in {"init", "loop"} /\ pc'[u] = "unsubscribe"
          /\ \A v \in Threads \ {u} : pc'[v] = pc[v]
          /\ \A v \in Streams \ {u} : events'[v] = events[v]
          /\ UNCHANGED <<subs, event, todo, target, found, peers>>
        BY <1>0, <1>7 DEF Leave, Goto, TypeOK
    <2>2. Telling(s)' => Telling(s) /\ View(s)' = View(s) /\ s # u
        BY <1>0, <2>1 DEF Telling, View
    <2>3. ASSUME NEW o \in Streams \ {s} PROVE Due(o, s)' \/ ~Due(o, s)
        BY <1>0, <2>1 DEF Due
    <2> QED BY <1>0, <2>1, <2>2, <2>3, ViewKept
<1> QED BY <1>1, <1>2, <1>3, <1>4, <1>5, <1>6, <1>7 DEF StreamStep

\* Every step keeps it, as long as a client watches once.
LEMMA WatchStep ==
    ASSUME IndInv, WatchInv, [Next]_vars, \A o, s \in Streams : Owner[o] = Owner[s] => o = s
    PROVE  WatchInv'
<1>1. SubsInv' /\ AddressInv' /\ ChannelInv' /\ PeersInv'
    BY SubsStep, AddressStep, ChannelStep, PeersStep DEF IndInv, WatchInv
<1>2. ASSUME NEW s \in Streams PROVE ViewInv(s)'
    <2>1. ASSUME NEW t \in Threads, Publish(t) PROVE ViewInv(s)'
        BY <2>1, ViewPublish
    <2>2. ASSUME NEW u \in Streams, StreamStep(u) PROVE ViewInv(s)'
        BY <2>2, ViewStream
    <2>3. ASSUME NEW p \in Pushers, PushBegin(p) PROVE ViewInv(s)'
        <3>1. /\ \A o \in Streams : pc'[o] = pc[o]
              /\ UNCHANGED <<subs, events, event, todo, target, found, peers>>
            BY <2>3, ThreadsAssumption DEF PushBegin, Goto, IndInv, TypeOK, Threads
        <3>2. Telling(s)' => Telling(s) /\ View(s)' = View(s)
            BY <3>1 DEF Telling, View
        <3>3. ASSUME NEW o \in Streams \ {s} PROVE Due(o, s)' \/ ~Due(o, s)
            BY <3>1 DEF Due
        <3> QED BY <3>1, <3>2, <3>3, ViewKept DEF WatchInv
    <2>4. CASE UNCHANGED vars
        <3>1. UNCHANGED <<pc, subs, events, event, todo, target, found, peers>>
            BY <2>4 DEF vars
        <3>2. Telling(s)' => Telling(s) /\ View(s)' = View(s)
            BY <3>1 DEF Telling, View
        <3>3. ASSUME NEW o \in Streams \ {s} PROVE Due(o, s)' \/ ~Due(o, s)
            BY <3>1 DEF Due
        <3> QED BY <3>1, <3>2, <3>3, ViewKept DEF WatchInv
    <2> QED BY <2>1, <2>2, <2>3, <2>4 DEF Next
<1> QED BY <1>1, <1>2 DEF WatchInv

\* When nothing is on its way, the lists are the subscriptions.
LEMMA QuietPeers ==
    ASSUME IndInv, WatchInv
    PROVE  PeersAgree
<1> SUFFICES ASSUME Quiet, NEW s \in Streams, pc[s] = "loop", conn[s] = "open"
             PROVE  peers[Owner[s]] = {d \in Clients : Watching(d)}
    BY DEF PeersAgree, Watching
<1>0. \A o \in Streams : o \in Threads /\ Owner[o] \in Clients
    BY OwnerAssumption DEF Threads
<1>1. /\ Owner[s] \in peers[Owner[s]] /\ peers[Owner[s]] \subseteq {Owner[o] : o \in Streams}
      /\ \A o \in Streams \ {s} : ~Due(o, s) =>
            IF News(o, s) THEN (Head(events[s]).type = "watched") <=> (o \in subs)
                          ELSE (Owner[o] \in peers[Owner[s]]) <=> (o \in subs)
    BY DEF WatchInv, ViewInv, Telling, View
<1>2. ASSUME NEW o \in Streams
      PROVE  /\ o # s => (Owner[o] \in peers[Owner[s]] <=> o \in subs)
             /\ o \in subs <=> pc[o] = "loop" /\ conn[o] = "open"
    <2>1. pc[o] \in {"off", "loop", "over"} /\ (pc[o] = "loop" => conn[o] = "open")
        BY <1>0 DEF Quiet
    <2>2. ~Due(o, s) /\ ~News(o, s)
        BY <2>1 DEF Due, News, Quiet
    <2>3. o \in subs <=> pc[o] = "loop"
        BY <2>1 DEF WatchInv, SubsInv
    <2> QED BY <1>1, <2>1, <2>2, <2>3
<1> QED BY <1>0, <1>1, <1>2 DEF Watching

\* Where every client opens one stream, once everything has been delivered the
\* peers that a watching client shows are the clients that watch: whatever the
\* order in which Subscribe lists them and the watched and unwatched events
\* arrive.  For a client that watches again the peers of its earlier stream
\* stay, and the claim fails.
THEOREM PeersInTheEnd ==
    ASSUME \A o, s \in Streams : Owner[o] = Owner[s] => o = s
    PROVE  Spec => []PeersAgree
<1>1. Init => IndInv /\ WatchInv
    <2>1. Init => IndInv
        BY DEF Init, TypeOK, Capacity, Threads, IndInv, ReadersInv, NoSendOnClosed
    <2>2. Init => SubsInv /\ AddressInv /\ ChannelInv /\ PeersInv
        BY OwnerAssumption, ThreadsAssumption
           DEF Init, SubsInv, AddressInv, ChannelInv, PeersInv, Threads
    <2>3. ASSUME Init, NEW s \in Streams PROVE ~Telling(s)
        BY <2>3 DEF Init, Telling, Threads
    <2> QED BY <2>1, <2>2, <2>3 DEF WatchInv, ViewInv
<1>2. IndInv /\ [Next]_vars => IndInv'
    BY IndStep
<1>3. IndInv /\ WatchInv /\ [Next]_vars => WatchInv'
    BY WatchStep
<1>4. IndInv /\ WatchInv => PeersAgree
    BY QuietPeers
<1> QED BY <1>1, <1>2, <1>3, <1>4, PTL DEF Spec
=============================================================================
