------------------------------- MODULE PubSub -------------------------------
(***************************************************************************)
(* The delivery of document events inside one agent: the memory PubSub     *)
(* with its RWMutex and its channels of one event, the WatchDocuments      *)
(* handlers (streams) that subscribe, forward and unsubscribe, the         *)
(* goroutines of packs.PushPull that publish a change under the snapshot   *)
(* lock, and the peers the clients' Watch keeps.  There is one document.   *)
(***************************************************************************)
EXTENDS Naturals, Sequences

CONSTANTS
    Clients,
    Streams,    \* calls of WatchDocuments
    Pushers,    \* goroutines that publish a change
    Owner,      \* the client of a stream and of a pusher
    Closable,   \* the streams that may be disconnected
    None        \* the value that is no thread

Threads == Streams \cup Pushers

ASSUME NoneAssumption == None \notin Threads
ASSUME ThreadsAssumption == Streams \cap Pushers = {}
ASSUME OwnerAssumption == Owner \in [Threads -> Clients]
ASSUME ClosableAssumption == Closable \subseteq Streams

VARIABLES
    subs,       \* subscriptionsMapByTopic: the streams subscribed to the document
    events,     \* the channel of every subscription
    readers,    \* subscriptionsMapMu: the threads that hold it for reading
    pending,    \* subscriptionsMapMu: the writer that waits for the readers
    snapLock,   \* the holder of the snapshot lock of the document
    pc,         \* what the thread does next
    event,      \* the type of the event the thread publishes
    todo,       \* the subscriptions Publish has not come to
    target,     \* the subscription Publish sends to, None between two
    conn,       \* the connection of a stream
    found,      \* the peers Subscribe found for the stream
    peers,      \* Attachment.peerClients of every client
    got         \* the pushers whose changes the stream has told its client

vars == <<subs, events, readers, pending, snapLock, pc, event, todo, target, conn, found, peers, got>>

Event == [type : {"changed", "watched", "unwatched"}, publisher : Clients, thread : Threads]

\* The capacity of Subscription.events.
Capacity == 1

TypeOK ==
    /\ subs \subseteq Streams
    /\ events \in [Streams -> Seq(Event)]
    /\ \A s \in Streams : Len(events[s]) <= Capacity
    /\ readers \subseteq Threads
    /\ pending \in Streams \cup {None}
    /\ snapLock \in Pushers \cup {None}
    /\ pc \in [Threads -> {"off", "subscribe", "watched", "publish", "init", "loop",
                           "unsubscribe", "unwatched", "changed", "over"}]
    /\ event \in [Threads -> {"changed", "watched", "unwatched"}]
    /\ todo \in [Threads -> SUBSET Streams]
    /\ target \in [Threads -> Streams \cup {None}]
    /\ conn \in [Streams -> {"none", "open", "closed"}]
    /\ found \in [Streams -> SUBSET Clients]
    /\ peers \in [Clients -> SUBSET Clients]
    /\ got \in [Streams -> SUBSET Threads]

Init ==
    /\ subs = {}
    /\ events = [s \in Streams |-> <<>>]
    /\ readers = {}
    /\ pending = None
    /\ snapLock = None
    /\ pc = [t \in Threads |-> "off"]
    /\ event = [t \in Threads |-> "changed"]
    /\ todo = [t \in Threads |-> {}]
    /\ target = [t \in Threads |-> None]
    /\ conn = [s \in Streams |-> "none"]
    /\ found = [s \in Streams |-> {}]
    /\ peers = [c \in Clients |-> {}]
    /\ got = [s \in Streams |-> {}]

Goto(t, label) == pc' = [pc EXCEPT ![t] = label]

-----------------------------------------------------------------------------
(***************************************************************************)
(* Client.Watch                                                            *)
(***************************************************************************)

\* The client opens a stream; it watches again only once its stream is gone.
Watch(s) ==
    /\ pc[s] = "off"
    /\ \A o \in Streams : Owner[o] = Owner[s] => conn[o] # "open"
    /\ conn' = [conn EXCEPT ![s] = "open"]
    /\ Goto(s, "subscribe")
    /\ UNCHANGED <<subs, events, readers, pending, snapLock, event, todo, target, found, peers, got>>

\* The stream is disconnected, by the client, the network or Server.Shutdown.
Disconnect(s) ==
    /\ s \in Closable
    /\ conn[s] = "open"
    /\ conn' = [conn EXCEPT ![s] = "closed"]
    /\ UNCHANGED <<subs, events, readers, pending, snapLock, pc, event, todo, target, found, peers, got>>

-----------------------------------------------------------------------------
(***************************************************************************)
(* PubSub                                                                  *)
(***************************************************************************)

\* RWMutex.Lock: from here on new readers wait.
LockAnnounce(s) ==
    /\ pc[s] \in {"subscribe", "unsubscribe"}
    /\ pending = None
    /\ pending' = s
    /\ UNCHANGED <<subs, events, readers, snapLock, pc, event, todo, target, conn, found, peers, got>>

\* A mutant of Subscribe: the peers are listed before the subscription is added.
SubscribeListingFirst(s) ==
    /\ pc[s] = "subscribe"
    /\ pending = s
    /\ readers = {}
    /\ subs' = subs \cup {s}
    /\ found' = [found EXCEPT ![s] = {Owner[o] : o \in subs}]
    /\ pending' = None
    /\ Goto(s, "watched")
    /\ UNCHANGED <<events, readers, snapLock, event, todo, target, conn, peers, got>>

\* Subscribe, under the write lock.
Subscribe(s) ==
    /\ pc[s] = "subscribe"
    /\ pending = s
    /\ readers = {}
    /\ subs' = subs \cup {s}
    /\ found' = [found EXCEPT ![s] = {Owner[o] : o \in subs \cup {s}}]
    /\ pending' = None
    /\ Goto(s, "watched")
    /\ UNCHANGED <<events, readers, snapLock, event, todo, target, conn, peers, got>>

\* A mutant of Unsubscribe: it does not wait for the readers.
UnsubscribeUnlocked(s) ==
    /\ pc[s] = "unsubscribe"
    /\ pending = s
    /\ subs' = subs \ {s}
    /\ events' = [events EXCEPT ![s] = <<>>]
    /\ pending' = None
    /\ Goto(s, "unwatched")
    /\ UNCHANGED <<readers, snapLock, event, todo, target, conn, found, peers, got>>

\* Unsubscribe, under the write lock; the channel is closed.
Unsubscribe(s) ==
    /\ pc[s] = "unsubscribe"
    /\ pending = s
    /\ readers = {}
    /\ subs' = subs \ {s}
    /\ events' = [events EXCEPT ![s] = <<>>]
    /\ pending' = None
    /\ Goto(s, "unwatched")
    /\ UNCHANGED <<readers, snapLock, event, todo, target, conn, found, peers, got>>

\* Publish takes the read lock: all subscriptions but the publisher's own.
PublishBegin(t) ==
    /\ pc[t] \in {"watched", "unwatched", "changed"}
    /\ pending = None
    /\ readers' = readers \cup {t}
    /\ event' = [event EXCEPT ![t] = pc[t]]
    /\ todo' = [todo EXCEPT ![t] = {s \in subs : Owner[s] # Owner[t]}]
    /\ Goto(t, "publish")
    /\ UNCHANGED <<subs, events, pending, snapLock, target, conn, found, peers, got>>

\* The next subscription, in the order of the map's iteration.
PublishPick(t) ==
    /\ pc[t] = "publish"
    /\ target[t] = None
    /\ \E s \in todo[t] :
        /\ target' = [target EXCEPT ![t] = s]
        /\ todo' = [todo EXCEPT ![t] = @ \ {s}]
    /\ UNCHANGED <<subs, events, readers, pending, snapLock, pc, event, conn, found, peers, got>>

\* Mutants of PublishSend: a channel of one event more, and a send that drops
\* the event when the channel is full.
PublishSendUnbounded(t) ==
    LET s == target[t]
    IN  /\ pc[t] = "publish"
        /\ s # None
        /\ Len(events[s]) <= Capacity
        /\ events' = [events EXCEPT ![s] =
                        Append(@, [type |-> event[t], publisher |-> Owner[t], thread |-> t])]
        /\ target' = [target EXCEPT ![t] = None]
        /\ UNCHANGED <<subs, readers, pending, snapLock, pc, event, todo, conn, found, peers, got>>

PublishSendDropping(t) ==
    LET s == target[t]
    IN  /\ pc[t] = "publish"
        /\ s # None
        /\ events' = [events EXCEPT ![s] =
                        IF Len(@) < Capacity
                        THEN Append(@, [type |-> event[t], publisher |-> Owner[t], thread |-> t])
                        ELSE @]
        /\ target' = [target EXCEPT ![t] = None]
        /\ UNCHANGED <<subs, readers, pending, snapLock, pc, event, todo, conn, found, peers, got>>

\* sub.Events() <- event blocks while the channel is full.
PublishSend(t) ==
    LET s == target[t]
    IN  /\ pc[t] = "publish"
        /\ s # None
        /\ Len(events[s]) < Capacity
        /\ events' = [events EXCEPT ![s] =
                        Append(@, [type |-> event[t], publisher |-> Owner[t], thread |-> t])]
        /\ target' = [target EXCEPT ![t] = None]
        /\ UNCHANGED <<subs, readers, pending, snapLock, pc, event, todo, conn, found, peers, got>>

\* Publish returns, and what comes after it: a handler sends the
\* initialization or is over, a pusher stores the snapshot and unlocks.
PublishEnd(t) ==
    /\ pc[t] = "publish"
    /\ target[t] = None
    /\ todo[t] = {}
    /\ readers' = readers \ {t}
    /\ snapLock' = IF snapLock = t THEN None ELSE snapLock
    /\ Goto(t, IF event[t] = "watched" THEN "init" ELSE "over")
    /\ UNCHANGED <<subs, events, pending, event, todo, target, conn, found, peers, got>>

-----------------------------------------------------------------------------
(***************************************************************************)
(* WatchDocuments                                                          *)
(***************************************************************************)

\* The initialization is sent and the client adds the peers it names.
SendInitialization(s) ==
    /\ pc[s] = "init"
    /\ conn[s] = "open"
    /\ peers' = [peers EXCEPT ![Owner[s]] = @ \cup found[s]]
    /\ Goto(s, "loop")
    /\ UNCHANGED <<subs, events, readers, pending, snapLock, event, todo, target, conn, found, got>>

\* An event is taken from the channel and sent; the client's Watch handles it.
SendEvent(s) ==
    LET e == Head(events[s])
        c == Owner[s]
    IN  /\ pc[s] = "loop"
        /\ conn[s] = "open"
        /\ events[s] # <<>>
        /\ events' = [events EXCEPT ![s] = Tail(@)]
        /\ peers' = [peers EXCEPT ![c] = CASE e.type = "watched" -> @ \cup {e.publisher}
                                           [] e.type = "unwatched" -> @ \ {e.publisher}
                                           [] OTHER -> @]
        /\ got' = [got EXCEPT ![s] = IF e.type = "changed" THEN @ \cup {e.thread} ELSE @]
        /\ UNCHANGED <<subs, readers, pending, snapLock, pc, event, todo, target, conn, found>>

\* The context is done, or a send fails, with the event it was for: unwatchDocs.
Leave(s) ==
    /\ pc[s] \in {"init", "loop"}
    /\ conn[s] = "closed"
    /\ \/ UNCHANGED events
       \/ /\ pc[s] = "loop"
          /\ events[s] # <<>>
          /\ events' = [events EXCEPT ![s] = Tail(@)]
    /\ Goto(s, "unsubscribe")
    /\ UNCHANGED <<subs, readers, pending, snapLock, event, todo, target, conn, found, peers, got>>

-----------------------------------------------------------------------------
(***************************************************************************)
(* packs.PushPull                                                          *)
(***************************************************************************)

\* The goroutine takes the snapshot lock, then publishes.
PushBegin(p) ==
    /\ pc[p] = "off"
    /\ snapLock = None
    /\ snapLock' = p
    /\ Goto(p, "changed")
    /\ UNCHANGED <<subs, events, readers, pending, event, todo, target, conn, found, peers, got>>

-----------------------------------------------------------------------------
Publish(t) == PublishBegin(t) \/ PublishPick(t) \/ PublishSend(t) \/ PublishEnd(t)

StreamStep(s) ==
    \/ Watch(s)
    \/ Disconnect(s)
    \/ LockAnnounce(s)
    \/ Subscribe(s)
    \/ Unsubscribe(s)
    \/ SendInitialization(s)
    \/ SendEvent(s)
    \/ Leave(s)

Next ==
    \/ \E t \in Threads : Publish(t)
    \/ \E s \in Streams : StreamStep(s)
    \/ \E p \in Pushers : PushBegin(p)

Spec == Init /\ [][Next]_vars

\* Every thread runs, the mutexes are handed on, and the clients do watch.
Fairness ==
    /\ \A t \in Threads : /\ SF_vars(PublishBegin(t))
                          /\ WF_vars(PublishPick(t) \/ PublishSend(t) \/ PublishEnd(t))
    /\ \A s \in Streams : /\ SF_vars(LockAnnounce(s))
                          /\ WF_vars(Subscribe(s) \/ Unsubscribe(s) \/ Leave(s))
                          /\ WF_vars(SendInitialization(s) \/ SendEvent(s))
                          /\ WF_vars(Watch(s))
    /\ \A p \in Pushers : SF_vars(PushBegin(p))

FairSpec == Spec /\ Fairness

-----------------------------------------------------------------------------
(***************************************************************************)
(* Properties                                                              *)
(***************************************************************************)

\* Publish never sends on a channel that Unsubscribe has closed, which would
\* be a panic: the subscription it blocks on, and those it has still to come
\* to, stay in the map while it holds the read lock.
NoSendOnClosed ==
    \A t \in Threads : pc[t] = "publish" =>
        /\ todo[t] \subseteq subs
        /\ target[t] # None => target[t] \in subs

\* A client's stream is subscribed and forwards events.
Watching(c) == \E s \in Streams : Owner[s] = c /\ pc[s] = "loop" /\ conn[s] = "open"

\* Nobody subscribes, publishes or leaves and no event is on its way.
Quiet ==
    /\ \A t \in Threads : pc[t] \in {"off", "loop", "over"}
    /\ \A s \in Streams : events[s] = <<>> /\ (pc[s] = "loop" => conn[s] = "open")

\* When everything has been delivered, the peers a watching client shows are
\* the clients that watch the document: Subscribe's list and the watched and
\* unwatched events, which race with it, add up.
PeersAgree ==
    Quiet => \A c \in Clients : Watching(c) => peers[c] = {d \in Clients : Watching(d)}

\* Publish holds the read lock and waits for room in a channel.
Blocked(t) == pc[t] = "publish" /\ target[t] # None /\ Len(events[target[t]]) = Capacity

\* The handler of s does not empty its channel before every reader is gone: it
\* leaves and wants the write lock, or it has still to publish its watched event
\* and is behind a writer that waits.
WaitsForReaders(s) == pc[s] = "unsubscribe" \/ (pc[s] = "watched" /\ pending # None)

\* The agent is deadlocked: publishers wait for room in channels whose streams
\* are among them or wait for them.
Jammed ==
    \E J \in SUBSET Threads \ {{}} : \A t \in J :
        Blocked(t) /\ (target[t] \in J \/ WaitsForReaders(target[t]))

\* Every change reaches every stream that is subscribed when it is published and
\* stays, unless the agent is deadlocked: nothing else keeps or loses an event.
ChangeDelivered ==
    \A p \in Pushers, s \in Streams :
        (pc[p] = "publish" /\ s \in todo[p]) ~> (p \in got[s] \/ conn[s] = "closed" \/ Jammed)

\* In the end every client whose stream stays is watching and sees the others
\* that watch, unless the agent is deadlocked.
PeersComplete ==
    \/ <>Jammed
    \/ <>[](\A s, o \in Streams : conn[s] = "open" /\ conn[o] = "open" =>
                Watching(Owner[s]) /\ Owner[o] \in peers[Owner[s]])

\* What design/pub-sub.md says of Publish, without the exception: "The client
\* can deliver the event to the Subscription instances that are subscribed".
\* Refuted, since Publish blocks while it holds the read lock.
EveryChangeDelivered ==
    \A p \in Pushers, s \in Streams :
        (pc[p] = "publish" /\ s \in todo[p]) ~> (p \in got[s] \/ conn[s] = "closed")

\* When a stream disconnects, the unwatched event reaches the other watchers.
UnwatchedDelivered ==
    \A s \in Streams, c \in Clients :
        conn[s] = "closed" ~> (Owner[s] \notin peers[c] \/ ~Watching(c))
=============================================================================
