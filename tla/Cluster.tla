------------------------------ MODULE Cluster ------------------------------
(***************************************************************************)
(* The agents of a cluster: the etcd coordinator (member map, broadcast of *)
(* events to the other agents, locks with leases) and the lifecycle of the *)
(* agent (Server.Shutdown, AttachGoroutine, Backend.Close).  Two kinds of  *)
(* jobs publish events: the goroutine of packs.PushPull, under the         *)
(* snapshot lock of one document, and the handler of WatchDocuments.       *)
(*                                                                         *)
(* An agent is a process: started again it has a new ID and its old        *)
(* address.  The memory PubSub inside an agent is the subject of PubSub,   *)
(* which shows that it can deadlock: from then on nothing that publishes   *)
(* at this agent has to return.  etcd and gRPC are modelled by what the    *)
(* agents rely on: keys with leases, watches that see every later event in *)
(* order, mutexes that are handed on in the order of the requests, calls   *)
(* without a deadline, and connections that fail fast while they back off. *)
(***************************************************************************)
EXTENDS Naturals, Sequences, FiniteSets

CONSTANTS
    Agents,
    Address,    \* the RPC address of every agent
    Jobs,       \* goroutines and handlers that publish
    Pushes,     \* those of packs.PushPull; the others are of WatchDocuments
    Host,       \* the agent a job runs on
    Initial,    \* the agents that run and know each other at the beginning
    Leaving,    \* the agents that may be shut down or crash
    Late,       \* the agents whose key may lapse while they run
    MaxFaults,  \* bound on crashes, lapsed leases, deadlocks and failed calls
    None        \* the value that is no agent

ASSUME MaxFaultsAssumption == MaxFaults \in Nat
ASSUME LeavingAssumption == Leaving \cup Late \subseteq Agents
ASSUME HostAssumption == Pushes \subseteq Jobs /\ Host \in [Jobs -> Agents]
ASSUME NoneAssumption == None \notin Agents
ASSUME InitialAssumption ==
    /\ Initial \subseteq Agents
    /\ \A a, b \in Initial : Address[a] = Address[b] => a = b

VARIABLES
    keys,       \* etcd: the agents with a key under /agents
    queue,      \* etcd: the sessions that hold or want the lock, the holder first
    state,      \* the process of the agent
    jammed,     \* the agents whose PubSub is deadlocked
    watching,   \* syncAgents has opened its watch
    inbox,      \* the events of the watch that syncAgents has not handled
    missed,     \* the agents with an event between Get and Watch and none since
    members,    \* memberMap
    backoff,    \* clusterClientMap: the connections that have failed and back off
    job,        \* what the job has come to
    todo,       \* the members Publish has not come to
    call,       \* the agent that serves the job's BroadcastEvent, or None
    owed,       \* the members that served when Publish listed them and have not
                \* got the event since; not those the call to which was lost
    faults

etcd == <<keys, queue>>
process == <<state, jammed>>
view == <<watching, inbox, missed, members>>
publish == <<todo, call, owed>>
vars == <<etcd, process, view, backoff, job, publish, faults>>

\* The key of an agent in etcd.
Path(a) == <<"/agents", a>>

Serving == {"up", "draining"}
Fetched == Serving \cup {"fetched", "cut", "closing"}   \* Initialize is behind it
Running == Fetched \cup {"put"}
Dead(a) == state[a] \in {"stopped", "crashed"}

Publishing == {"changed", "watched", "unwatched"}

TypeOK ==
    /\ keys \subseteq Agents
    /\ queue \in Seq(Jobs)
    /\ state \in [Agents -> Running \cup {"off", "stopped", "crashed"}]
    /\ jammed \subseteq Agents
    /\ watching \in [Agents -> BOOLEAN]
    /\ inbox \in [Agents -> Seq({"PUT", "DELETE"} \X Agents)]
    /\ missed \in [Agents -> SUBSET Agents]
    /\ members \in [Agents -> SUBSET Agents]
    /\ backoff \in [Agents -> SUBSET Agents]
    /\ job \in [Jobs -> Publishing \cup {"none", "lock", "open", "done"}]
    /\ todo \in [Jobs -> SUBSET Agents]
    /\ call \in [Jobs -> Agents \cup {None}]
    /\ owed \in [Jobs -> SUBSET Agents]
    /\ faults \in 0 .. MaxFaults

Init ==
    /\ keys = Initial
    /\ queue = <<>>
    /\ state = [a \in Agents |-> IF a \in Initial THEN "up" ELSE "off"]
    /\ jammed = {}
    /\ watching = [a \in Agents |-> a \in Initial]
    /\ inbox = [a \in Agents |-> <<>>]
    /\ missed = [a \in Agents |-> {}]
    /\ members = [a \in Agents |-> IF a \in Initial THEN Initial ELSE {}]
    /\ backoff = [a \in Agents |-> {}]
    /\ job = [j \in Jobs |-> "none"]
    /\ todo = [j \in Jobs |-> {}]
    /\ call = [j \in Jobs |-> None]
    /\ owed = [j \in Jobs |-> {}]
    /\ faults = 0

Goto(a, label) == state' = [state EXCEPT ![a] = label]
Fault == faults < MaxFaults /\ faults' = faults + 1

\* An event of etcd about a, for those that run and watch after this step.
Emit(type, a) ==
    /\ inbox' = [w \in Agents |-> IF watching'[w] THEN Append(inbox[w], <<type, a>>) ELSE <<>>]
    /\ missed' = [w \in Agents |-> IF state'[w] \notin Fetched THEN {}
                                   ELSE IF watching'[w] THEN missed[w]
                                   ELSE missed[w] \cup {a}]

-----------------------------------------------------------------------------
(***************************************************************************)
(* Start of an agent                                                       *)
(***************************************************************************)

\* backend.New and Initialize: the agent's own key is put first.
New(a) ==
    /\ state[a] = "off"
    /\ Goto(a, "put")
    /\ keys' = keys \cup {a}
    /\ UNCHANGED <<queue, jammed, watching, members, backoff, job, publish, faults>>
    /\ Emit("PUT", a)

\* initializeMemberMap; syncAgents and putAgentPeriodically are started.
InitializeMemberMap(a) ==
    /\ state[a] = "put"
    /\ Goto(a, "fetched")
    /\ members' = [members EXCEPT ![a] = keys]
    /\ UNCHANGED <<etcd, jammed, watching, inbox, missed, backoff, job, publish, faults>>

\* Whose port is open at the address of m.
ServingAt(m) == {b \in Agents : state[b] = "up" /\ Address[b] = Address[m]}

\* The memory of a process ends with it.
Forget(a) ==
    /\ jammed' = jammed \ {a}
    /\ watching' = [watching EXCEPT ![a] = FALSE]
    /\ members' = [members EXCEPT ![a] = {}]
    /\ backoff' = [backoff EXCEPT ![a] = {}]
    /\ todo' = [j \in Jobs |-> IF Host[j] = a THEN {} ELSE todo[j]]
    /\ call' = [j \in Jobs |-> IF Host[j] = a THEN None ELSE call[j]]
    /\ owed' = [j \in Jobs |-> IF Host[j] = a THEN {} ELSE owed[j]]

\* The process ends without a word to etcd.
Die(a) ==
    /\ Goto(a, "crashed")
    /\ Forget(a)
    /\ job' = [j \in Jobs |-> IF Host[j] = a THEN "done" ELSE job[j]]
    /\ inbox' = [inbox EXCEPT ![a] = <<>>]
    /\ missed' = [missed EXCEPT ![a] = {}]
    /\ UNCHANGED etcd

\* Server.Start opens the port of the agent, which is announced already; when
\* another agent still has the port, the process ends.
Start(a) ==
    /\ state[a] = "fetched"
    /\ IF ServingAt(a) = {}
       THEN Goto(a, "up") /\ UNCHANGED <<etcd, jammed, view, backoff, job, publish>>
       ELSE Die(a)
    /\ UNCHANGED faults

\* The goroutine of syncAgents opens its watch, from now on.
Watch(a) ==
    /\ state[a] \in Fetched
    /\ ~watching[a]
    /\ watching' = [watching EXCEPT ![a] = TRUE]
    /\ UNCHANGED <<etcd, process, inbox, missed, members, backoff, job, publish, faults>>

-----------------------------------------------------------------------------
(***************************************************************************)
(* The member map                                                          *)
(***************************************************************************)

\* Whether a will be in the member map once the events on their way are handled.
WillKnow(w, a) ==
    \/ a \in members[w] /\ \A i \in DOMAIN inbox[w] : inbox[w][i][2] # a
    \/ \E i \in DOMAIN inbox[w] :
        /\ inbox[w][i] = <<"PUT", a>>
        /\ \A j \in DOMAIN inbox[w] : j > i => inbox[w][j][2] # a

\* A mutant of PutAgain: only a key that is gone is put again.
PutAgainIfGone(a) ==
    /\ state[a] \in Fetched
    /\ a \notin keys
    /\ keys' = keys \cup {a}
    /\ UNCHANGED <<queue, process, watching, members, backoff, job, publish, faults>>
    /\ Emit("PUT", a)

\* putAgentPeriodically.  A put that tells nobody anything, since the key is there
\* and all that watch know of it or will, changes nothing and is left out.
PutAgain(a) ==
    /\ state[a] \in Fetched
    /\ a \notin keys \/ \E w \in Agents : watching[w] /\ ~WillKnow(w, a)
    /\ keys' = keys \cup {a}
    /\ UNCHANGED <<queue, process, watching, members, backoff, job, publish, faults>>
    /\ Emit("PUT", a)

\* A mutant of Handled: the events of agents that are known already are skipped.
HandledNew(m, event) == IF event[2] \in m THEN m ELSE m \cup {event[2]}

\* setAgentInfo, removeAgentInfo.
Handled(m, event) == IF event[1] = "PUT" THEN m \cup {event[2]} ELSE m \ {event[2]}

\* syncAgents.  removeClusterClient is called with the path of the key, and
\* the map has the IDs of the members.
HandleEvent(a) ==
    /\ state[a] \in Fetched
    /\ watching[a]
    /\ inbox[a] # <<>>
    /\ LET event == Head(inbox[a])
       IN  /\ members' = [members EXCEPT ![a] = Handled(@, event)]
           /\ missed' = [missed EXCEPT ![a] = @ \ {event[2]}]
           /\ backoff' = [backoff EXCEPT ![a] =
                            IF event[1] = "DELETE" THEN @ \ {Path(event[2])} ELSE @]
    /\ inbox' = [inbox EXCEPT ![a] = Tail(@)]
    /\ UNCHANGED <<etcd, process, watching, job, publish, faults>>

-----------------------------------------------------------------------------
(***************************************************************************)
(* Client.Publish                                                          *)
(***************************************************************************)

\* PublishToLocal, and the list of the members at other addresses.
Publish(j, label) ==
    LET a == Host[j]
        others == {m \in members[a] : Address[m] # Address[a]}
    IN  /\ job' = [job EXCEPT ![j] = label]
        /\ todo' = [todo EXCEPT ![j] = others]
        /\ owed' = [owed EXCEPT ![j] = {m \in others : state[m] = "up" /\ m \notin backoff[a]}]
        /\ UNCHANGED <<etcd, process, view, backoff, call, faults>>

\* A mutant of Connection: connections are kept by address.
ConnectionByAddress(m) == CHOOSE n \in Agents : Address[n] = Address[m]

\* The key of clusterClientMap.
Connection(m) == m

\* A mutant of Left: the first member that cannot be called ends the loop.
LeftAfterError(j, m) ==
    IF ServingAt(m) = {} \/ Connection(m) \in backoff[Host[j]] THEN {} ELSE todo[j] \ {m}

\* The members after m, which are called whatever has come of m.
Left(j, m) == todo[j] \ {m}

\* Publish has come to all members and may return.
Ended(j) == job[j] \in Publishing /\ todo[j] = {} /\ call[j] = None

\* The next member is called: ensureClusterClient and publishToMember.  A
\* connection that backs off fails at once; one that cannot be made backs off;
\* else the call is on its way, and only an answer or an error ends it.
CallMember(j) ==
    LET a == Host[j]
    IN  /\ job[j] \in Publishing
        /\ ~Dead(a)
        /\ call[j] = None
        /\ \E m \in todo[j] :
            /\ todo' = [todo EXCEPT ![j] = Left(j, m)]
            /\ \/ /\ Connection(m) \in backoff[a]
                  /\ UNCHANGED <<backoff, call>>
               \/ /\ Connection(m) \notin backoff[a]
                  /\ ServingAt(m) = {}
                  /\ backoff' = [backoff EXCEPT ![a] = @ \cup {Connection(m)}]
                  /\ UNCHANGED call
               \/ /\ Connection(m) \notin backoff[a]
                  /\ \E b \in ServingAt(m) : call' = [call EXCEPT ![j] = b]
                  /\ UNCHANGED backoff
        /\ UNCHANGED <<etcd, process, view, job, owed, faults>>

\* The call ends; its agent is not owed the event any more.
Returned(j) ==
    /\ call' = [call EXCEPT ![j] = None]
    /\ owed' = [owed EXCEPT ![j] = @ \ {call[j]}]
    /\ UNCHANGED <<etcd, process, view, backoff, job, todo>>

\* BroadcastEvent: the other agent has published the event and answers.
Answer(j) ==
    /\ call[j] # None
    /\ state[call[j]] \in Serving
    /\ Returned(j)
    /\ UNCHANGED faults

\* The call fails, the event published or not, and is not repeated: the other agent
\* has gone, the stream of a watched event has, or the connection breaks.
CallLost(j) ==
    /\ call[j] # None
    /\ \/ UNCHANGED faults /\ (state[call[j]] \notin Serving \/ job[j] = "watched")
       \/ Fault
    /\ Returned(j)

\* gRPC makes a connection again by itself once somebody listens.
Reconnect(a, m) ==
    /\ Connection(m) \in backoff[a]
    /\ ServingAt(m) # {}
    /\ backoff' = [backoff EXCEPT ![a] = @ \ {Connection(m)}]
    /\ UNCHANGED <<etcd, process, view, job, publish, faults>>

\* The PubSub of an agent deadlocks.
Jam(a) ==
    /\ state[a] \in Serving
    /\ Fault
    /\ jammed' = jammed \cup {a}
    /\ UNCHANGED <<etcd, state, view, backoff, job, publish>>

-----------------------------------------------------------------------------
(***************************************************************************)
(* WatchDocuments                                                          *)
(***************************************************************************)

\* watchDocs, when a client opens a stream.
WatchDocs(j) ==
    /\ j \notin Pushes
    /\ job[j] = "none"
    /\ state[Host[j]] = "up"
    /\ Publish(j, "watched")

\* A mutant of UnwatchDocs: the handlers do not see that the service ends.
UnwatchDocsByClient(j) ==
    /\ job[j] = "open"
    /\ state[Host[j]] = "up"
    /\ Publish(j, "unwatched")

\* unwatchDocs, when the client has gone or the service ends.
UnwatchDocs(j) ==
    /\ job[j] = "open"
    /\ ~Dead(Host[j])
    /\ Publish(j, "unwatched")

\* Publish returns to the handler.
Published(j) ==
    /\ job[j] \in {"watched", "unwatched"}
    /\ ~Dead(Host[j])
    /\ Ended(j)
    /\ job' = [job EXCEPT ![j] = IF @ = "watched" THEN "open" ELSE "done"]
    /\ owed' = [owed EXCEPT ![j] = {}]
    /\ UNCHANGED <<etcd, process, view, backoff, todo, call, faults>>

-----------------------------------------------------------------------------
(***************************************************************************)
(* packs.PushPull: the goroutine that publishes a change                   *)
(***************************************************************************)

\* A mutant of AttachGoroutine: it does not look at closing.
AttachGoroutineAlways(j) ==
    /\ j \in Pushes
    /\ state[Host[j]] \in Serving \cup {"cut", "closing", "stopped"}
    /\ job[j] = "none"
    /\ job' = [job EXCEPT ![j] = "lock"]
    /\ queue' = Append(queue, j)
    /\ UNCHANGED <<keys, process, view, backoff, publish, faults>>

\* AttachGoroutine, by a handler, until Close has closed closing; NewLocker and
\* the request for the lock.
AttachGoroutine(j) ==
    /\ j \in Pushes
    /\ state[Host[j]] \in Serving \cup {"cut"}
    /\ job[j] = "none"
    /\ job' = [job EXCEPT ![j] = "lock"]
    /\ queue' = Append(queue, j)
    /\ UNCHANGED <<keys, process, view, backoff, publish, faults>>

\* The session of j, which has asked for the lock once, is not in the queue any more.
Dequeue(j) ==
    \E i \in DOMAIN queue :
        queue[i] = j /\ queue' = SubSeq(queue, 1, i - 1) \o SubSeq(queue, i + 1, Len(queue))

\* NewLocker or Lock fails and the goroutine returns.  Nothing closes the session:
\* a key that Lock could not take back stays in the queue with it.
LockFails(j) ==
    /\ job[j] = "lock"
    /\ ~Dead(Host[j])
    /\ Fault
    /\ job' = [job EXCEPT ![j] = "done"]
    /\ UNCHANGED queue \/ Dequeue(j)
    /\ UNCHANGED <<keys, process, view, backoff, publish>>

\* Lock returns.
PublishChange(j) ==
    /\ job[j] = "lock"
    /\ ~Dead(Host[j])
    /\ Head(queue) = j
    /\ Publish(j, "changed")

\* Publish returns; storeSnapshot, Unlock and Session.Close.  When Mutex.Unlock
\* fails, Session.Close is skipped, and the session of the process goes on
\* refreshing the lease.
Unlock(j) ==
    /\ job[j] = "changed"
    /\ ~Dead(Host[j])
    /\ Ended(j)
    /\ job' = [job EXCEPT ![j] = "done"]
    /\ owed' = [owed EXCEPT ![j] = {}]
    /\ \/ Dequeue(j) /\ UNCHANGED faults
       \/ UNCHANGED queue /\ Fault
    /\ UNCHANGED <<keys, process, view, backoff, todo, call>>

-----------------------------------------------------------------------------
(***************************************************************************)
(* End of an agent                                                         *)
(***************************************************************************)

\* Server.Shutdown closes the port.  GracefulStop lets the handlers end, Stop
\* cuts their connections and does not wait for them.
Shutdown(a) ==
    /\ a \in Leaving
    /\ state[a] = "up"
    /\ Goto(a, "draining") \/ Goto(a, "cut")
    /\ UNCHANGED <<etcd, jammed, view, backoff, job, publish, faults>>

\* Nothing is served any more: no stream, and no BroadcastEvent of another agent.
Drained(a) ==
    /\ \A j \in Jobs \ Pushes : Host[j] = a => job[j] \in {"none", "done"}
    /\ \A j \in Jobs : call[j] # a

\* GracefulStop returns, or Stop has; Backend.Close closes closing.
Close(a) ==
    /\ \/ state[a] = "draining" /\ Drained(a)
       \/ state[a] = "cut"
    /\ Goto(a, "closing")
    /\ UNCHANGED <<etcd, jammed, view, backoff, job, publish, faults>>

\* wg.Wait returns; the coordinator removes its key, which may fail, and with its
\* client the sessions end.
Stop(a) ==
    /\ state[a] = "closing"
    /\ \A j \in Pushes : Host[j] = a => job[j] \in {"none", "done"}
    /\ Goto(a, "stopped")
    /\ Forget(a)
    /\ UNCHANGED <<queue, job>>
    /\ \/ /\ keys' = keys \ {a}
          /\ Emit("DELETE", a)
          /\ UNCHANGED faults
       \/ /\ Fault
          /\ inbox' = [inbox EXCEPT ![a] = <<>>]
          /\ missed' = [missed EXCEPT ![a] = {}]
          /\ UNCHANGED keys

\* A put of putAgentPeriodically was on its way when the key was removed.
PutLate(a) ==
    /\ state[a] = "stopped"
    /\ a \notin keys
    /\ Fault
    /\ keys' = keys \cup {a}
    /\ UNCHANGED <<queue, process, watching, members, backoff, job, publish>>
    /\ Emit("PUT", a)

\* The process dies, or handleSignal ends it since Shutdown takes too long.
Crash(a) ==
    /\ a \in Leaving
    /\ \/ state[a] \in Running /\ Fault
       \/ state[a] \in {"draining", "cut", "closing"} /\ UNCHANGED faults
    /\ Die(a)

\* The lease of the key ends: the process is dead, or its puts were too late.
LapseKey(a) ==
    /\ a \in keys
    /\ \/ Dead(a) /\ UNCHANGED faults
       \/ a \in Late /\ state[a] \in Running /\ Fault
    /\ keys' = keys \ {a}
    /\ UNCHANGED <<queue, process, watching, members, backoff, job, publish>>
    /\ Emit("DELETE", a)

\* A mutant of LapseSession: a session has no lease.
LapseSessionNever(j) ==
    /\ FALSE
    /\ UNCHANGED vars

\* The lease of a session ends with its process.
LapseSession(j) ==
    /\ Dead(Host[j])
    /\ Dequeue(j)
    /\ UNCHANGED <<keys, process, view, backoff, job, publish, faults>>

-----------------------------------------------------------------------------
Starting(a) == InitializeMemberMap(a) \/ Start(a) \/ Watch(a)
Ending(a) == Close(a) \/ Stop(a)
Lapsing(a) == LapseKey(a) /\ UNCHANGED faults

AgentStep(a) ==
    \/ New(a) \/ Starting(a)
    \/ PutAgain(a) \/ HandleEvent(a)
    \/ (\E m \in Agents : Reconnect(a, m)) \/ Jam(a)
    \/ Shutdown(a) \/ Ending(a) \/ PutLate(a)
    \/ Crash(a) \/ LapseKey(a)

Working(j) == CallMember(j) \/ Published(j) \/ Unlock(j)

JobStep(j) ==
    \/ AttachGoroutine(j) \/ LockFails(j) \/ PublishChange(j)
    \/ WatchDocs(j) \/ UnwatchDocs(j)
    \/ Working(j) \/ Answer(j) \/ CallLost(j)
    \/ LapseSession(j)

Next == (\E a \in Agents : AgentStep(a)) \/ (\E j \in Jobs : JobStep(j))

Spec == Init /\ [][Next]_vars

\* Agents are started completely, keys are put every period, events are handled,
\* and the leases of dead processes end.
AgentFairness ==
    \A a \in Agents :
        /\ WF_vars(Starting(a))
        /\ WF_vars(PutAgain(a))
        /\ WF_vars(HandleEvent(a))
        /\ WF_vars(Ending(a))
        /\ WF_vars(Lapsing(a))

\* Goroutines run; but what has to get through the PubSub of an agent need not
\* once that is deadlocked.
JobFairness ==
    \A j \in Jobs :
        /\ WF_vars(Working(j))
        /\ WF_vars(Host[j] \notin jammed /\ PublishChange(j))
        /\ WF_vars(Host[j] \notin jammed /\ state[Host[j]] # "up" /\ UnwatchDocs(j))
        /\ WF_vars(call[j] \notin jammed /\ Answer(j))
        /\ WF_vars(CallLost(j) /\ UNCHANGED faults /\ state[call[j]] \notin Serving)
        /\ WF_vars(LapseSession(j))

AgentsFairSpec == Spec /\ AgentFairness
FairSpec == AgentsFairSpec /\ JobFairness

-----------------------------------------------------------------------------
(***************************************************************************)
(* Properties                                                              *)
(***************************************************************************)
\* The member map of a running agent is what etcd has, once the events on their
\* way are handled, but for agents with an event between Get and Watch.
MapFollows ==
    \A w \in Agents : state[w] \in Fetched =>
        \A a \in Agents \ missed[w] : WillKnow(w, a) <=> a \in keys

\* A member that fails, is gone, or was started again at its old address does not
\* keep an event from the others: before Publish returns, the members that serve
\* since it began have the event; but for those the call to which was lost, or
\* whose connection backed off since they were called before they listened.
PublishReaches ==
    \A j \in Jobs : Ended(j) => \A m \in owed[j] : state[m] # "up"

\* No goroutine uses the coordinator or the database after Close has returned.
NoJobAfterClose ==
    \A j \in Pushes : state[Host[j]] = "stopped" => job[j] \in {"none", "done"}

\* Agents that stay learn of each other, whatever events they have missed.
AgentsMeet ==
    \A v, w \in Agents :
        <>[](state[v] \in Fetched /\ state[w] \in Fetched) => <>[](w \in members[v])

\* A job that waits for a PubSub that is deadlocked: its own agent's to publish,
\* or that of the agent it calls.
Hung(j) == (job[j] \in {"lock", "open"} /\ Host[j] \in jammed) \/ call[j] \in jammed

\* The lock is kept by a process that runs: its goroutine has returned without
\* closing the session, or hangs.
LockStuck ==
    /\ queue # <<>>
    /\ ~Dead(Host[Head(queue)])
    /\ job[Head(queue)] = "done" \/ Hung(Head(queue))

\* The lock of an agent that died is handed on, and so is the lock of a job that
\* calls agents that are gone; unless it is kept for good by a process that runs.
LockHandedOn ==
    \/ <>[]LockStuck
    \/ \A j \in Pushes : job[j] = "lock" ~> (job[j] # "lock" \/ Dead(Host[j]))

\* What Shutdown of a waits for, and what does not end.
ShutdownStuck(a) ==
    \E j \in Jobs :
        \/ Host[j] = a /\ (Hung(j) \/ (job[j] = "lock" /\ LockStuck))
        \/ call[j] = a /\ a \in jammed

\* Shutdown ends, although it waits for streams that publish to other agents, for
\* calls of other agents, and for a goroutine that waits for the lock; unless one
\* of these hangs for good.
ShutdownEnds ==
    \A a \in Leaving :
        <>[]ShutdownStuck(a) \/ (state[a] \in {"draining", "cut"} ~> Dead(a))

\* Why the first three hold: what a watch has on its way about an agent ends with
\* what etcd has, also for the agents that were missed before.
ViewInv ==
    \A w \in Agents :
        /\ watching[w] => state[w] \in Fetched
        /\ ~watching[w] => inbox[w] = <<>>
        /\ state[w] \in Fetched =>
            \A a \in Agents :
                a \notin missed[w] \/ (\E i \in DOMAIN inbox[w] : inbox[w][i][2] = a)
                    => (WillKnow(w, a) <=> a \in keys)

\* One agent at most has the port of an address.
PortInv == \A a, b \in Agents : state[a] = "up" /\ b \in ServingAt(a) => a = b

\* Whom Publish owes its event is still to be called or is being called.
OwedInv ==
    \A j \in Jobs : \A m \in owed[j] :
        /\ state[m] \notin {"off", "put", "fetched"}
        /\ state[m] = "up" => /\ m \in todo[j] \/ call[j] = m
                              /\ Connection(m) \notin backoff[Host[j]]

IndInv == TypeOK /\ ViewInv /\ PortInv /\ OwedInv /\ NoJobAfterClose

\* What removeClusterClient says it does: "removes the cluster client of the
\* given ID", when the agent is gone.
ClientRemoved ==
    [][\A w, a \in Agents :
        HandleEvent(w) /\ Head(inbox[w]) = <<"DELETE", a>> => a \notin backoff'[w]]_vars

\* What cluster_mode_test.go asserts of Members after a Shutdown; refuted, since
\* a DELETE between Get and Watch is missed for good.
StoppedLeave ==
    \A v, w \in Agents :
        <>[](state[v] \in Fetched /\ Dead(w)) => <>[](w \notin members[v])
=============================================================================
