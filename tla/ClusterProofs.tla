---------------------------- MODULE ClusterProofs ----------------------------
(***************************************************************************)
(* Proofs about Cluster, for any number of agents, addresses, jobs and     *)
(* faults: the member map follows etcd, a member that fails keeps no event *)
(* from the others, and nothing runs after Close.                          *)
(***************************************************************************)
EXTENDS Cluster, TLAPS

Events == {"PUT", "DELETE"} \X Agents

-----------------------------------------------------------------------------
(***************************************************************************)
(* Sequences                                                               *)
(***************************************************************************)
\* What Append does to the events of a watch.
LEMMA AppendFacts ==
    ASSUME NEW q \in Seq(Events), NEW e \in Events
    PROVE  /\ Append(q, e) \in Seq(Events)
           /\ DOMAIN Append(q, e) = DOMAIN q \cup {Len(q) + 1}
           /\ Append(q, e)[Len(q) + 1] = e
           /\ \A i \in DOMAIN q : Append(q, e)[i] = q[i] /\ i < Len(q) + 1 /\ i \in Nat
OBVIOUS

\* What handling the first event does to them.
LEMMA TailFacts ==
    ASSUME NEW q \in Seq(Events), q # <<>>
    PROVE  /\ Tail(q) \in Seq(Events)
           /\ Head(q) \in Events
           /\ Head(q) = q[1]
           /\ 1 \in DOMAIN q
           /\ \A i \in DOMAIN Tail(q) : i \in Nat /\ i >= 1 /\ i + 1 \in DOMAIN q /\ Tail(q)[i] = q[i + 1]
           /\ \A i \in DOMAIN q : i \in Nat /\ i >= 1 /\ (i # 1 => i - 1 \in DOMAIN Tail(q) /\ Tail(q)[i - 1] = q[i])
OBVIOUS

\* A session leaves the queue of the lock.
LEMMA DequeueType ==
    ASSUME queue \in Seq(Jobs), NEW j \in Jobs, Dequeue(j)
    PROVE  queue' \in Seq(Jobs)
<1>1. PICK i \in DOMAIN queue :
        queue' = SubSeq(queue, 1, i - 1) \o SubSeq(queue, i + 1, Len(queue))
    BY DEF Dequeue
<1>2. i \in 1 .. Len(queue)
    BY <1>1
<1>3. SubSeq(queue, 1, i - 1) \in Seq(Jobs)
    BY <1>2
<1>4. SubSeq(queue, i + 1, Len(queue)) \in Seq(Jobs)
    BY <1>2
<1> QED BY <1>1, <1>3, <1>4

-----------------------------------------------------------------------------
(***************************************************************************)
(* Types                                                                   *)
(***************************************************************************)
\* An event of etcd keeps the types.
LEMMA EmitType ==
    ASSUME TypeOK, watching' \in [Agents -> BOOLEAN],
           NEW a \in Agents, NEW type \in {"PUT", "DELETE"}, Emit(type, a)
    PROVE  /\ inbox' \in [Agents -> Seq({"PUT", "DELETE"} \X Agents)]
           /\ missed' \in [Agents -> SUBSET Agents]
<1>1. <<type, a>> \in Events
    BY DEF Events
<1>2. inbox \in [Agents -> Seq(Events)]
    BY DEF TypeOK, Events
<1>3. \A w \in Agents : Append(inbox[w], <<type, a>>) \in Seq(Events)
    BY <1>1, <1>2, AppendFacts
<1>4. <<>> \in Seq(Events)
    OBVIOUS
<1>5. inbox' \in [Agents -> Seq(Events)]
    BY <1>3, <1>4 DEF Emit
<1>6. missed' \in [Agents -> SUBSET Agents]
    BY DEF Emit, TypeOK
<1> QED BY <1>5, <1>6 DEF Events

\* A fault stays within the bound.
LEMMA FaultType ==
    ASSUME TypeOK, Fault
    PROVE  faults' \in 0 .. MaxFaults
BY MaxFaultsAssumption DEF TypeOK, Fault

LEMMA InitType == Init => TypeOK
<1> SUFFICES ASSUME Init
             PROVE  TypeOK
    OBVIOUS
<1>1. queue \in Seq(Jobs) /\ inbox \in [Agents -> Seq({"PUT", "DELETE"} \X Agents)]
    BY DEF Init
<1>2. faults \in 0 .. MaxFaults
    BY MaxFaultsAssumption DEF Init
<1> QED BY <1>1, <1>2, InitialAssumption DEF Init, TypeOK, Running, Fetched, Serving

\* What is left of a process that has ended.
LEMMA ForgetType ==
    ASSUME TypeOK, NEW a \in Agents, Forget(a)
    PROVE  /\ jammed' \subseteq Agents
           /\ watching' \in [Agents -> BOOLEAN]
           /\ members' \in [Agents -> SUBSET Agents]
           /\ backoff' \in [Agents -> SUBSET Agents]
           /\ todo' \in [Jobs -> SUBSET Agents]
           /\ call' \in [Jobs -> Agents \cup {None}]
           /\ owed' \in [Jobs -> SUBSET Agents]
BY DEF Forget, TypeOK

\* A process that ends without a word to etcd.
LEMMA DieType ==
    ASSUME TypeOK, NEW a \in Agents, Die(a), faults' \in 0 .. MaxFaults
    PROVE  TypeOK'
<1>1. /\ jammed' \subseteq Agents
      /\ watching' \in [Agents -> BOOLEAN]
      /\ members' \in [Agents -> SUBSET Agents]
      /\ backoff' \in [Agents -> SUBSET Agents]
      /\ todo' \in [Jobs -> SUBSET Agents]
      /\ call' \in [Jobs -> Agents \cup {None}]
      /\ owed' \in [Jobs -> SUBSET Agents]
    BY ForgetType DEF Die
<1>2. state' \in [Agents -> Running \cup {"off", "stopped", "crashed"}]
    BY DEF Die, Goto, TypeOK
<1>3. job' \in [Jobs -> Publishing \cup {"none", "lock", "open", "done"}]
    BY DEF Die, TypeOK
<1>4. /\ inbox' \in [Agents -> Seq({"PUT", "DELETE"} \X Agents)]
      /\ missed' \in [Agents -> SUBSET Agents]
    BY DEF Die, TypeOK
<1>5. keys' = keys /\ queue' = queue
    BY DEF Die, etcd
<1> QED BY <1>1, <1>2, <1>3, <1>4, <1>5 DEF TypeOK

\* The steps by which an agent starts.
LEMMA StartType ==
    ASSUME TypeOK, NEW a \in Agents, New(a) \/ InitializeMemberMap(a) \/ Start(a) \/ Watch(a)
    PROVE  TypeOK'
<1>1. CASE New(a)
    <2>1. watching' \in [Agents -> BOOLEAN] /\ Emit("PUT", a)
        BY <1>1 DEF New, TypeOK
    <2>2. inbox' \in [Agents -> Seq({"PUT", "DELETE"} \X Agents)] /\ missed' \in [Agents -> SUBSET Agents]
        BY <2>1, EmitType
    <2> QED BY <1>1, <2>2 DEF New, Goto, TypeOK, Running, publish
<1>2. CASE InitializeMemberMap(a)
    BY <1>2 DEF InitializeMemberMap, Goto, TypeOK, Running, Fetched, etcd, publish
<1>3. CASE Start(a)
    <2>1. CASE ServingAt(a) = {}
        BY <1>3, <2>1 DEF Start, Goto, TypeOK, Running, Fetched, Serving, etcd, view, publish
    <2>2. CASE ServingAt(a) # {}
        <3>1. Die(a) /\ faults' \in 0 .. MaxFaults
            BY <1>3, <2>2 DEF Start, TypeOK
        <3> QED BY <3>1, DieType
    <2> QED BY <2>1, <2>2
<1>4. CASE Watch(a)
    BY <1>4 DEF Watch, TypeOK, etcd, process, publish
<1> QED BY <1>1, <1>2, <1>3, <1>4

\* The steps that keep the member map.
LEMMA MemberType ==
    ASSUME TypeOK, NEW a \in Agents, PutAgain(a) \/ HandleEvent(a)
    PROVE  TypeOK'
<1>1. CASE PutAgain(a)
    <2>1. watching' \in [Agents -> BOOLEAN] /\ Emit("PUT", a)
        BY <1>1 DEF PutAgain, TypeOK
    <2>2. inbox' \in [Agents -> Seq({"PUT", "DELETE"} \X Agents)] /\ missed' \in [Agents -> SUBSET Agents]
        BY <2>1, EmitType
    <2> QED BY <1>1, <2>2 DEF PutAgain, TypeOK, process, publish
<1>2. CASE HandleEvent(a)
    <2>1. inbox[a] \in Seq(Events) /\ inbox[a] # <<>>
        BY <1>2 DEF HandleEvent, TypeOK, Events
    <2>2. Head(inbox[a]) \in Events /\ Tail(inbox[a]) \in Seq(Events)
        BY <2>1, TailFacts
    <2>3. Head(inbox[a])[2] \in Agents
        BY <2>2 DEF Events
    <2>4. inbox' \in [Agents -> Seq({"PUT", "DELETE"} \X Agents)]
        BY <1>2, <2>2 DEF HandleEvent, TypeOK, Events
    <2>5. /\ members' \in [Agents -> SUBSET Agents]
          /\ missed' \in [Agents -> SUBSET Agents]
          /\ backoff' \in [Agents -> SUBSET Agents]
        BY <1>2, <2>3 DEF HandleEvent, Handled, TypeOK
    <2> QED BY <1>2, <2>4, <2>5 DEF HandleEvent, TypeOK, etcd, process, publish
<1> QED BY <1>1, <1>2

\* A job begins to publish.
LEMMA PublishType ==
    ASSUME TypeOK, NEW j \in Jobs, NEW label \in Publishing, Publish(j, label)
    PROVE  TypeOK'
<1>1. Host[j] \in Agents
    BY HostAssumption
<1>2. {m \in members[Host[j]] : Address[m] # Address[Host[j]]} \subseteq Agents
    BY <1>1 DEF TypeOK
<1>3. /\ job' \in [Jobs -> Publishing \cup {"none", "lock", "open", "done"}]
      /\ todo' \in [Jobs -> SUBSET Agents]
      /\ owed' \in [Jobs -> SUBSET Agents]
    BY <1>2 DEF Publish, TypeOK
<1> QED BY <1>3 DEF Publish, TypeOK, etcd, process, view

\* The calls of other agents.
LEMMA CallType ==
    ASSUME TypeOK, NEW j \in Jobs, CallMember(j) \/ Answer(j) \/ CallLost(j)
    PROVE  TypeOK'
<1>1. CASE CallMember(j)
    <2>1. PICK m \in todo[j] :
            /\ todo' = [todo EXCEPT ![j] = Left(j, m)]
            /\ \/ UNCHANGED <<backoff, call>>
               \/ /\ backoff' = [backoff EXCEPT ![Host[j]] = @ \cup {Connection(m)}]
                  /\ UNCHANGED call
               \/ /\ \E b \in ServingAt(m) : call' = [call EXCEPT ![j] = b]
                  /\ UNCHANGED backoff
        BY <1>1 DEF CallMember
    <2>2. m \in Agents
        BY DEF TypeOK
    <2>3. todo' \in [Jobs -> SUBSET Agents]
        BY <2>1 DEF Left, TypeOK
    <2>4. backoff' \in [Agents -> SUBSET Agents]
        BY <2>1, <2>2 DEF Connection, TypeOK
    <2>5. call' \in [Jobs -> Agents \cup {None}]
        BY <2>1 DEF ServingAt, TypeOK
    <2> QED BY <1>1, <2>3, <2>4, <2>5 DEF CallMember, TypeOK, etcd, process, view
<1>2. CASE Answer(j) \/ CallLost(j)
    <2>1. Returned(j)
        BY <1>2 DEF Answer, CallLost
    <2>2. call' \in [Jobs -> Agents \cup {None}] /\ owed' \in [Jobs -> SUBSET Agents]
        BY <2>1 DEF Returned, TypeOK
    <2>3. faults' \in 0 .. MaxFaults
        BY <1>2, FaultType DEF Answer, CallLost, TypeOK
    <2> QED BY <2>1, <2>2, <2>3 DEF Returned, TypeOK, etcd, process, view
<1> QED BY <1>1, <1>2

\* A connection that is made again, and a PubSub that deadlocks.
LEMMA ConnectionType ==
    ASSUME TypeOK, NEW a \in Agents, (\E m \in Agents : Reconnect(a, m)) \/ Jam(a)
    PROVE  TypeOK'
<1>1. ASSUME NEW m \in Agents, Reconnect(a, m)
      PROVE  TypeOK'
    BY <1>1 DEF Reconnect, TypeOK, etcd, process, view, publish
<1>2. CASE Jam(a)
    <2>1. faults' \in 0 .. MaxFaults
        BY <1>2, FaultType DEF Jam
    <2> QED BY <1>2, <2>1 DEF Jam, TypeOK, etcd, view, publish
<1> QED BY <1>1, <1>2

\* The steps of a goroutine and of the handler of a stream.
LEMMA JobType ==
    ASSUME TypeOK, NEW j \in Jobs,
           \/ AttachGoroutine(j) \/ LockFails(j) \/ PublishChange(j) \/ Unlock(j)
           \/ WatchDocs(j) \/ UnwatchDocs(j) \/ Published(j)
    PROVE  TypeOK'
<1>1. CASE PublishChange(j) \/ WatchDocs(j) \/ UnwatchDocs(j)
    BY <1>1, PublishType DEF PublishChange, WatchDocs, UnwatchDocs, Publishing
<1>2. CASE AttachGoroutine(j)
    <2>1. queue' \in Seq(Jobs)
        BY <1>2 DEF AttachGoroutine, TypeOK
    <2> QED BY <1>2, <2>1 DEF AttachGoroutine, TypeOK, process, view, publish
<1>3. CASE LockFails(j)
    <2>1. queue' \in Seq(Jobs)
        BY <1>3, DequeueType DEF LockFails, TypeOK
    <2>2. faults' \in 0 .. MaxFaults
        BY <1>3, FaultType DEF LockFails
    <2> QED BY <1>3, <2>1, <2>2 DEF LockFails, TypeOK, process, view, publish
<1>4. CASE Unlock(j)
    <2>1. queue' \in Seq(Jobs)
        BY <1>4, DequeueType DEF Unlock, TypeOK
    <2>2. faults' \in 0 .. MaxFaults
        BY <1>4, FaultType DEF Unlock, TypeOK
    <2> QED BY <1>4, <2>1, <2>2 DEF Unlock, TypeOK, process, view
<1>5. CASE Published(j)
    BY <1>5 DEF Published, TypeOK, etcd, process, view
<1> QED BY <1>1, <1>2, <1>3, <1>4, <1>5

\* The steps by which an agent ends.
LEMMA EndType ==
    ASSUME TypeOK, NEW a \in Agents,
           Shutdown(a) \/ Ending(a) \/ PutLate(a) \/ Crash(a) \/ LapseKey(a)
    PROVE  TypeOK'
<1>1. CASE Shutdown(a)
    <2>1. state' \in [Agents -> Running \cup {"off", "stopped", "crashed"}]
        BY <1>1 DEF Shutdown, Goto, TypeOK, Running, Fetched, Serving
    <2> QED BY <1>1, <2>1 DEF Shutdown, TypeOK, etcd, view, publish
<1>2. CASE Close(a)
    <2>1. state' \in [Agents -> Running \cup {"off", "stopped", "crashed"}]
        BY <1>2 DEF Close, Goto, TypeOK, Running, Fetched, Serving
    <2> QED BY <1>2, <2>1 DEF Close, TypeOK, etcd, view, publish
<1>3. CASE Stop(a)
    <2>1. /\ jammed' \subseteq Agents
          /\ watching' \in [Agents -> BOOLEAN]
          /\ members' \in [Agents -> SUBSET Agents]
          /\ backoff' \in [Agents -> SUBSET Agents]
          /\ todo' \in [Jobs -> SUBSET Agents]
          /\ call' \in [Jobs -> Agents \cup {None}]
          /\ owed' \in [Jobs -> SUBSET Agents]
        BY <1>3, ForgetType DEF Stop
    <2>2. state' \in [Agents -> Running \cup {"off", "stopped", "crashed"}]
        BY <1>3 DEF Stop, Goto, TypeOK
    <2>3. UNCHANGED <<queue, job>>
        BY <1>3 DEF Stop
    <2>4. CASE keys' = keys \ {a} /\ Emit("DELETE", a) /\ UNCHANGED faults
        <3>1. inbox' \in [Agents -> Seq({"PUT", "DELETE"} \X Agents)] /\ missed' \in [Agents -> SUBSET Agents]
            BY <2>1, <2>4, EmitType
        <3> QED BY <2>1, <2>2, <2>3, <2>4, <3>1 DEF TypeOK
    <2>5. CASE /\ Fault
               /\ inbox' = [inbox EXCEPT ![a] = <<>>]
               /\ missed' = [missed EXCEPT ![a] = {}]
               /\ UNCHANGED keys
        <3>1. faults' \in 0 .. MaxFaults
            BY <2>5, FaultType
        <3>2. inbox' \in [Agents -> Seq({"PUT", "DELETE"} \X Agents)] /\ missed' \in [Agents -> SUBSET Agents]
            BY <2>5 DEF TypeOK
        <3> QED BY <2>1, <2>2, <2>3, <2>5, <3>1, <3>2 DEF TypeOK
    <2> QED BY <1>3, <2>4, <2>5 DEF Stop
<1>4. CASE Crash(a)
    <2>1. faults' \in 0 .. MaxFaults
        BY <1>4, FaultType DEF Crash, TypeOK
    <2> QED BY <1>4, <2>1, DieType DEF Crash
<1>5. ASSUME NEW type \in {"PUT", "DELETE"}, Emit(type, a), keys' \subseteq Agents,
             faults' \in 0 .. MaxFaults,
             UNCHANGED <<queue, process, watching, members, backoff, job, publish>>
      PROVE  TypeOK'
    <2>1. watching' \in [Agents -> BOOLEAN]
        BY <1>5 DEF TypeOK
    <2>2. inbox' \in [Agents -> Seq({"PUT", "DELETE"} \X Agents)] /\ missed' \in [Agents -> SUBSET Agents]
        BY <1>5, <2>1, EmitType
    <2> QED BY <1>5, <2>2 DEF TypeOK, process, publish
<1>6. CASE PutLate(a)
    BY <1>5, <1>6, FaultType DEF PutLate, TypeOK
<1>7. CASE LapseKey(a)
    BY <1>5, <1>7, FaultType DEF LapseKey, TypeOK
<1> QED BY <1>1, <1>2, <1>3, <1>4, <1>6, <1>7 DEF Ending

\* The lease of a session ends.
LEMMA SessionType ==
    ASSUME TypeOK, NEW j \in Jobs, LapseSession(j)
    PROVE  TypeOK'
<1>1. queue' \in Seq(Jobs)
    BY DequeueType DEF LapseSession, TypeOK
<1> QED BY <1>1 DEF LapseSession, TypeOK, process, view, publish

LEMMA NextType ==
    ASSUME TypeOK, [Next]_vars
    PROVE  TypeOK'
<1>1. ASSUME NEW a \in Agents, AgentStep(a)
      PROVE  TypeOK'
    BY <1>1, StartType, MemberType, ConnectionType, EndType DEF AgentStep, Starting
<1>2. ASSUME NEW j \in Jobs, JobStep(j)
      PROVE  TypeOK'
    BY <1>2, CallType, JobType, SessionType DEF JobStep, Working
<1>3. CASE UNCHANGED vars
    BY <1>3 DEF vars, etcd, process, view, publish, TypeOK
<1> QED BY <1>1, <1>2, <1>3 DEF Next

\* Every variable of Cluster keeps its type, whatever agents come, go or fail.
THEOREM TypeCorrect == Spec => []TypeOK
<1> QED BY InitType, NextType, PTL DEF Spec

-----------------------------------------------------------------------------
(***************************************************************************)
(* The member map                                                          *)
(***************************************************************************)
\* An event of etcd: whoever watches will know of it, and of the others what it
\* knew; whoever has fetched the map and does not watch yet misses it.
LEMMA EmitView ==
    ASSUME TypeOK, ViewInv, NEW a \in Agents, NEW type \in {"PUT", "DELETE"}, Emit(type, a),
           keys' = IF type = "PUT" THEN keys \cup {a} ELSE keys \ {a},
           \A w \in Agents : watching'[w] => state'[w] \in Fetched,
           \A w \in Agents : state'[w] \in Fetched =>
                state[w] \in Fetched /\ members'[w] = members[w] /\ watching'[w] = watching[w]
    PROVE  ViewInv'
<1> DEFINE About(w, b) == \E i \in DOMAIN inbox[w] : inbox[w][i][2] = b
<1> SUFFICES ASSUME NEW w \in Agents
             PROVE  /\ watching'[w] => state'[w] \in Fetched
                    /\ ~watching'[w] => inbox'[w] = <<>>
                    /\ state'[w] \in Fetched =>
                        \A b \in Agents :
                            b \notin missed'[w] \/ (About(w, b))' => (WillKnow(w, b)' <=> b \in keys')
    BY DEF ViewInv
<1>1. ~watching'[w] => inbox'[w] = <<>>
    BY DEF Emit
<1>2. ASSUME state'[w] \in Fetched, NEW b \in Agents, b \notin missed'[w] \/ (About(w, b))'
      PROVE  WillKnow(w, b)' <=> b \in keys'
    <2>1. state[w] \in Fetched /\ members'[w] = members[w] /\ watching'[w] = watching[w]
        BY <1>2
    <2>2. b \notin missed[w] \/ About(w, b) => (WillKnow(w, b) <=> b \in keys)
        BY <2>1 DEF ViewInv
    <2>3. CASE watching[w]
        <3> DEFINE q == inbox[w]
                   e == <<type, a>>
        <3>1. q \in Seq(Events) /\ e \in Events
            BY DEF TypeOK, Events
        <3>2. inbox'[w] = Append(q, e) /\ missed'[w] = missed[w]
            BY <1>2, <2>1, <2>3 DEF Emit
        <3> HIDE DEF q
        <3>3. /\ DOMAIN inbox'[w] = DOMAIN q \cup {Len(q) + 1}
              /\ inbox'[w][Len(q) + 1] = <<type, a>>
              /\ \A i \in DOMAIN q : inbox'[w][i] = q[i] /\ i < Len(q) + 1 /\ i \in Nat
              /\ Len(q) + 1 \in Nat
            BY <3>1, <3>2, AppendFacts
        <3>4. CASE b = a
            <4>1. WillKnow(w, b)' <=> type = "PUT"
                <5>1. \A j \in DOMAIN inbox'[w] : ~(j > Len(q) + 1)
                    BY <3>3
                <5>2. CASE type = "PUT"
                    BY <3>3, <3>4, <5>1, <5>2 DEF WillKnow
                <5>3. CASE type = "DELETE"
                    <6>1. ASSUME NEW i \in DOMAIN inbox'[w], inbox'[w][i] = <<"PUT", b>>,
                                 \A j \in DOMAIN inbox'[w] : j > i => inbox'[w][j][2] # b
                          PROVE  FALSE
                        <7>1. i # Len(q) + 1
                            BY <3>3, <5>3, <6>1
                        <7>2. i \in DOMAIN q /\ Len(q) + 1 > i
                            BY <3>3, <7>1
                        <7> QED BY <3>3, <3>4, <6>1, <7>2
                    <6> QED BY <3>3, <3>4, <5>3, <6>1 DEF WillKnow
                <5> QED BY <5>2, <5>3
            <4> QED BY <3>4, <4>1
        <3>5. CASE b # a
            <4>1. (About(w, b))' <=> About(w, b)
                BY <3>3, <3>5 DEF q
            <4>2. WillKnow(w, b)' <=> WillKnow(w, b)
                <5>1. (\A i \in DOMAIN inbox'[w] : inbox'[w][i][2] # b)
                        <=> (\A i \in DOMAIN q : q[i][2] # b)
                    BY <3>3, <3>5
                <5>2. ASSUME NEW i \in DOMAIN q
                      PROVE  (\A j \in DOMAIN inbox'[w] : j > i => inbox'[w][j][2] # b)
                                <=> (\A j \in DOMAIN q : j > i => q[j][2] # b)
                    BY <3>3, <3>5
                <5>3. ASSUME NEW i \in DOMAIN inbox'[w], inbox'[w][i] = <<"PUT", b>>
                      PROVE  i \in DOMAIN q
                    BY <3>3, <3>5, <5>3
                <5>4. (\E i \in DOMAIN inbox'[w] :
                            /\ inbox'[w][i] = <<"PUT", b>>
                            /\ \A j \in DOMAIN inbox'[w] : j > i => inbox'[w][j][2] # b)
                        <=> (\E i \in DOMAIN q :
                            /\ q[i] = <<"PUT", b>>
                            /\ \A j \in DOMAIN q : j > i => q[j][2] # b)
                    <6> DEFINE LastNow(i) == \A j \in DOMAIN inbox'[w] : j > i => inbox'[w][j][2] # b
                               LastThen(i) == \A j \in DOMAIN q : j > i => q[j][2] # b
                    <6>1. \A i \in DOMAIN q : i \in DOMAIN inbox'[w] /\ inbox'[w][i] = q[i]
                        BY <3>3
                    <6>2. \A i \in DOMAIN q : LastNow(i) <=> LastThen(i)
                        BY <5>2
                    <6> HIDE DEF LastNow, LastThen
                    <6>3. (\E i \in DOMAIN inbox'[w] : inbox'[w][i] = <<"PUT", b>> /\ LastNow(i))
                            <=> (\E i \in DOMAIN q : q[i] = <<"PUT", b>> /\ LastThen(i))
                        BY <5>3, <6>1, <6>2
                    <6> QED BY <6>3 DEF LastNow, LastThen
                <5> QED BY <2>1, <5>1, <5>4 DEF WillKnow, q
            <4>3. b \in keys' <=> b \in keys
                BY <3>5
            <4> QED BY <1>2, <2>2, <3>2, <4>1, <4>2, <4>3
        <3> QED BY <3>4, <3>5
    <2>4. CASE ~watching[w]
        <3>1. inbox[w] = <<>> /\ inbox'[w] = <<>>
            BY <1>1, <2>1, <2>4 DEF ViewInv
        <3>2. missed'[w] = missed[w] \cup {a}
            BY <1>2, <2>1, <2>4 DEF Emit
        <3>3. b # a /\ b \notin missed[w]
            BY <1>2, <3>1, <3>2
        <3>4. WillKnow(w, b)' <=> WillKnow(w, b)
            BY <2>1, <3>1 DEF WillKnow
        <3> QED BY <2>2, <3>3, <3>4
    <2> QED BY <2>3, <2>4
<1> QED BY <1>1, <1>2

\* An event is handled: what will be known stays, and an agent that was missed
\* is known right from its first event on.
LEMMA HandleView ==
    ASSUME TypeOK, ViewInv, NEW a \in Agents, HandleEvent(a)
    PROVE  ViewInv'
<1> DEFINE q == inbox[a]
           e == Head(q)
           About(w, b) == \E i \in DOMAIN inbox[w] : inbox[w][i][2] = b
<1>1. /\ state[a] \in Fetched /\ watching[a] /\ q # <<>>
      /\ UNCHANGED <<keys, state, watching>>
      /\ members' = [members EXCEPT ![a] = Handled(@, e)]
      /\ missed' = [missed EXCEPT ![a] = @ \ {e[2]}]
      /\ inbox' = [inbox EXCEPT ![a] = Tail(@)]
    BY DEF HandleEvent, etcd, process
<1>2. q \in Seq(Events)
    BY DEF TypeOK, Events
<1>3. inbox'[a] = Tail(q) /\ members'[a] = Handled(members[a], e) /\ missed'[a] = missed[a] \ {e[2]}
    BY <1>1 DEF TypeOK
<1>4. \A w \in Agents \ {a} :
        inbox'[w] = inbox[w] /\ members'[w] = members[w] /\ missed'[w] = missed[w]
    BY <1>1 DEF TypeOK
<1> HIDE DEF q
<1>5. /\ e \in Events /\ e = q[1] /\ 1 \in DOMAIN q
      /\ \A i \in DOMAIN inbox'[a] : i \in Nat /\ i >= 1 /\ i + 1 \in DOMAIN q /\ inbox'[a][i] = q[i + 1]
      /\ \A i \in DOMAIN q : /\ i \in Nat /\ i >= 1
                             /\ i # 1 => i - 1 \in DOMAIN inbox'[a] /\ inbox'[a][i - 1] = q[i]
    BY <1>1, <1>2, <1>3, TailFacts
<1> HIDE DEF e
<1>6. ASSUME NEW b \in Agents
      PROVE  WillKnow(a, b)' <=> WillKnow(a, b)
    <2>1. (\A i \in DOMAIN q : q[i][2] # b)
            <=> (e[2] # b /\ \A i \in DOMAIN inbox'[a] : inbox'[a][i][2] # b)
        BY <1>5
    <2>2. ASSUME NEW i \in DOMAIN inbox'[a]
          PROVE  (\A j \in DOMAIN inbox'[a] : j > i => inbox'[a][j][2] # b)
                    <=> (\A j \in DOMAIN q : j > i + 1 => q[j][2] # b)
        <3>1. ASSUME \A j \in DOMAIN inbox'[a] : j > i => inbox'[a][j][2] # b,
                     NEW j \in DOMAIN q, j > i + 1
              PROVE  q[j][2] # b
            <4>1. i \in Nat /\ j \in Nat /\ j # 1
                BY <1>5, <2>2, <3>1
            <4>2. j - 1 \in DOMAIN inbox'[a] /\ inbox'[a][j - 1] = q[j] /\ j - 1 > i
                BY <1>5, <3>1, <4>1
            <4> QED BY <3>1, <4>2
        <3>2. ASSUME \A j \in DOMAIN q : j > i + 1 => q[j][2] # b,
                     NEW j \in DOMAIN inbox'[a], j > i
              PROVE  inbox'[a][j][2] # b
            <4>1. j + 1 \in DOMAIN q /\ inbox'[a][j] = q[j + 1] /\ i \in Nat /\ j \in Nat
                BY <1>5, <2>2
            <4>2. j + 1 > i + 1
                BY <3>2, <4>1
            <4> QED BY <3>2, <4>1, <4>2
        <3> QED BY <3>1, <3>2
    <2>3. (\E i \in DOMAIN q : i # 1 /\ q[i] = <<"PUT", b>> /\ \A j \in DOMAIN q : j > i => q[j][2] # b)
            <=> (\E i \in DOMAIN inbox'[a] : inbox'[a][i] = <<"PUT", b>>
                                             /\ \A j \in DOMAIN inbox'[a] : j > i => inbox'[a][j][2] # b)
        <3>1. ASSUME NEW i \in DOMAIN q, i # 1, q[i] = <<"PUT", b>>,
                     \A j \in DOMAIN q : j > i => q[j][2] # b
              PROVE  \E k \in DOMAIN inbox'[a] : inbox'[a][k] = <<"PUT", b>>
                        /\ \A j \in DOMAIN inbox'[a] : j > k => inbox'[a][j][2] # b
            <4>1. i - 1 \in DOMAIN inbox'[a] /\ inbox'[a][i - 1] = <<"PUT", b>> /\ (i - 1) + 1 = i
                BY <1>5, <3>1
            <4> QED BY <2>2, <3>1, <4>1
        <3>2. ASSUME NEW k \in DOMAIN inbox'[a], inbox'[a][k] = <<"PUT", b>>,
                     \A j \in DOMAIN inbox'[a] : j > k => inbox'[a][j][2] # b
              PROVE  \E i \in DOMAIN q : i # 1 /\ q[i] = <<"PUT", b>>
                        /\ \A j \in DOMAIN q : j > i => q[j][2] # b
            <4>1. k \in Nat /\ k + 1 \in DOMAIN q /\ q[k + 1] = <<"PUT", b>>
                BY <1>5, <3>2
            <4>2. k + 1 # 1
                BY <1>5, <4>1
            <4>3. \A j \in DOMAIN q : j > k + 1 => q[j][2] # b
                BY <2>2, <3>2
            <4> QED BY <4>1, <4>2, <4>3
        <3> QED BY <3>1, <3>2
    <2>4. (\A j \in DOMAIN q : j > 1 => q[j][2] # b)
            <=> (\A i \in DOMAIN inbox'[a] : inbox'[a][i][2] # b)
        <3>1. ASSUME \A j \in DOMAIN q : j > 1 => q[j][2] # b, NEW i \in DOMAIN inbox'[a]
              PROVE  inbox'[a][i][2] # b
            <4>1. i + 1 \in DOMAIN q /\ inbox'[a][i] = q[i + 1] /\ i \in Nat
                BY <1>5
            <4>2. i + 1 > 1
                BY <1>5, <4>1
            <4> QED BY <3>1, <4>1, <4>2
        <3>2. ASSUME \A i \in DOMAIN inbox'[a] : inbox'[a][i][2] # b, NEW j \in DOMAIN q, j > 1
              PROVE  q[j][2] # b
            <4>1. j # 1
                BY <3>2
            <4> QED BY <1>5, <3>2, <4>1
        <3> QED BY <3>1, <3>2
    <2>5. WillKnow(a, b) <=>
            \/ b \in members[a] /\ \A i \in DOMAIN q : q[i][2] # b
            \/ \E i \in DOMAIN q : q[i] = <<"PUT", b>> /\ \A j \in DOMAIN q : j > i => q[j][2] # b
        BY DEF WillKnow, q
    <2>6. WillKnow(a, b)' <=>
            \/ b \in members'[a] /\ \A i \in DOMAIN inbox'[a] : inbox'[a][i][2] # b
            \/ \E i \in DOMAIN inbox'[a] :
                inbox'[a][i] = <<"PUT", b>> /\ \A j \in DOMAIN inbox'[a] : j > i => inbox'[a][j][2] # b
        BY DEF WillKnow
    <2>7. CASE e[2] # b
        <3>1. b \in members'[a] <=> b \in members[a]
            BY <1>3, <2>7 DEF Handled
        <3>2. \A i \in DOMAIN q : q[i] = <<"PUT", b>> => i # 1
            BY <1>5, <2>7
        <3> QED BY <2>1, <2>3, <2>5, <2>6, <2>7, <3>1, <3>2
    <2>8. CASE e[2] = b
        <3>1. b \in members'[a] <=> e[1] = "PUT"
            BY <1>3, <2>8 DEF Handled
        <3>2. e = <<"PUT", b>> <=> e[1] = "PUT"
            BY <1>5, <2>8 DEF Events
        <3>3. WillKnow(a, b) <=>
                \/ e[1] = "PUT" /\ \A j \in DOMAIN q : j > 1 => q[j][2] # b
                \/ \E i \in DOMAIN q : i # 1 /\ q[i] = <<"PUT", b>> /\ \A j \in DOMAIN q : j > i => q[j][2] # b
            BY <1>5, <2>1, <2>5, <2>8, <3>2
        <3> QED BY <2>3, <2>4, <2>6, <3>1, <3>3
    <2> QED BY <2>7, <2>8
<1>7. ASSUME NEW b \in Agents, b \notin missed'[a] \/ (About(a, b))'
      PROVE  b \notin missed[a] \/ About(a, b)
    <2>1. CASE b = e[2]
        BY <1>5, <2>1 DEF q
    <2>2. CASE b # e[2]
        BY <1>3, <1>5, <1>7, <2>2 DEF q
    <2> QED BY <2>1, <2>2
<1> SUFFICES ASSUME NEW w \in Agents
             PROVE  /\ watching'[w] => state'[w] \in Fetched
                    /\ ~watching'[w] => inbox'[w] = <<>>
                    /\ state'[w] \in Fetched =>
                        \A b \in Agents :
                            b \notin missed'[w] \/ (About(w, b))' => (WillKnow(w, b)' <=> b \in keys')
    BY DEF ViewInv
<1>8. CASE w = a
    <2>1. \A b \in Agents : b \notin missed[a] \/ About(a, b) => (WillKnow(a, b) <=> b \in keys)
        BY <1>1 DEF ViewInv
    <2>2. \A b \in Agents :
            b \notin missed'[a] \/ (About(a, b))' => (WillKnow(a, b)' <=> b \in keys')
        BY <1>1, <1>6, <1>7, <2>1
    <2>3. watching'[a] /\ state'[a] \in Fetched
        BY <1>1
    <2> QED BY <1>8, <2>2, <2>3
<1>9. CASE w # a
    <2>1. \A b \in Agents : WillKnow(w, b)' <=> WillKnow(w, b)
        BY <1>4, <1>9 DEF WillKnow
    <2> QED BY <1>1, <1>4, <1>9, <2>1 DEF ViewInv
<1> QED BY <1>8, <1>9

LEMMA InitView == Init => ViewInv
<1> SUFFICES ASSUME Init, NEW w \in Agents
             PROVE  /\ watching[w] => state[w] \in Fetched
                    /\ ~watching[w] => inbox[w] = <<>>
                    /\ state[w] \in Fetched =>
                        \A a \in Agents :
                            a \notin missed[w] \/ (\E i \in DOMAIN inbox[w] : inbox[w][i][2] = a)
                                => (WillKnow(w, a) <=> a \in keys)
    BY DEF ViewInv
<1>1. state[w] = (IF w \in Initial THEN "up" ELSE "off") /\ watching[w] = (w \in Initial)
    BY DEF Init
<1>2. inbox[w] = <<>>
    BY DEF Init
<1>3. state[w] \in Fetched => members[w] = keys
    BY <1>1 DEF Init, Fetched, Serving
<1>4. ASSUME NEW a \in Agents
      PROVE  WillKnow(w, a) <=> a \in members[w]
    BY <1>2 DEF WillKnow
<1> QED BY <1>1, <1>2, <1>3, <1>4 DEF Fetched, Serving

\* What does not touch the keys, the watches and the member maps.
LEMMA SameView ==
    ASSUME TypeOK, ViewInv, UNCHANGED <<keys, watching, inbox, missed, members>>,
           \A w \in Agents : state'[w] \in Fetched <=> state[w] \in Fetched
    PROVE  ViewInv'
<1>1. \A w \in Agents : \A b \in Agents : WillKnow(w, b)' <=> WillKnow(w, b)
    BY DEF WillKnow
<1> QED BY <1>1 DEF ViewInv

\* A process ends without a word to etcd.
LEMMA DieView ==
    ASSUME TypeOK, ViewInv, NEW a \in Agents, keys' = keys,
           state'[a] \notin Fetched, ~watching'[a], inbox'[a] = <<>>,
           \A w \in Agents \ {a} :
                /\ state'[w] = state[w] /\ watching'[w] = watching[w] /\ inbox'[w] = inbox[w]
                /\ missed'[w] = missed[w] /\ members'[w] = members[w]
    PROVE  ViewInv'
<1>1. \A w \in Agents \ {a} : \A b \in Agents : WillKnow(w, b)' <=> WillKnow(w, b)
    BY DEF WillKnow
<1> QED BY <1>1 DEF ViewInv

\* Die is such an end.
LEMMA DiesView ==
    ASSUME TypeOK, ViewInv, NEW a \in Agents, Die(a)
    PROVE  ViewInv'
<1>1. /\ keys' = keys
      /\ state'[a] = "crashed" /\ ~watching'[a] /\ inbox'[a] = <<>>
      /\ \A w \in Agents \ {a} :
            /\ state'[w] = state[w] /\ watching'[w] = watching[w] /\ inbox'[w] = inbox[w]
            /\ missed'[w] = missed[w] /\ members'[w] = members[w]
    BY DEF Die, Goto, Forget, TypeOK, etcd
<1>2. state'[a] \notin Fetched
    BY <1>1 DEF Fetched, Serving
<1> QED BY <1>1, <1>2, DieView

\* The member map of an agent that fetches or watches.
LEMMA StartView ==
    ASSUME TypeOK, ViewInv, NEW a \in Agents,
           New(a) \/ InitializeMemberMap(a) \/ Start(a) \/ Watch(a)
    PROVE  ViewInv'
<1>1. CASE New(a)
    <2>1. /\ Emit("PUT", a)
          /\ keys' = keys \cup {a}
          /\ UNCHANGED <<watching, members>>
          /\ \A w \in Agents : state'[w] = IF w = a THEN "put" ELSE state[w]
          /\ state[a] = "off"
        BY <1>1 DEF New, Goto, TypeOK
    <2>2. \A w \in Agents : watching'[w] => state'[w] \in Fetched
        BY <2>1 DEF ViewInv, Fetched, Serving
    <2>3. \A w \in Agents : state'[w] \in Fetched =>
            state[w] \in Fetched /\ members'[w] = members[w] /\ watching'[w] = watching[w]
        BY <2>1 DEF Fetched, Serving
    <2> QED BY <2>1, <2>2, <2>3, EmitView
<1>2. CASE InitializeMemberMap(a)
    <2>1. /\ UNCHANGED <<keys, watching, inbox, missed>>
          /\ \A w \in Agents : state'[w] = IF w = a THEN "fetched" ELSE state[w]
          /\ \A w \in Agents : members'[w] = IF w = a THEN keys ELSE members[w]
          /\ state[a] = "put"
        BY <1>2 DEF InitializeMemberMap, Goto, TypeOK, etcd
    <2>2. inbox[a] = <<>>
        BY <2>1 DEF ViewInv, Fetched, Serving
    <2>3. \A b \in Agents : WillKnow(a, b)' <=> b \in keys
        BY <2>1, <2>2 DEF WillKnow
    <2>4. \A w \in Agents \ {a} : \A b \in Agents : WillKnow(w, b)' <=> WillKnow(w, b)
        BY <2>1 DEF WillKnow
    <2> QED BY <2>1, <2>3, <2>4 DEF ViewInv, Fetched, Serving
<1>3. CASE Start(a)
    <2>1. CASE ServingAt(a) = {}
        <3>1. /\ UNCHANGED <<keys, watching, inbox, missed, members>>
              /\ \A w \in Agents : state'[w] \in Fetched <=> state[w] \in Fetched
            BY <1>3, <2>1 DEF Start, Goto, Fetched, Serving, TypeOK, etcd, view
        <3> QED BY <3>1, SameView
    <2>2. CASE ServingAt(a) # {}
        BY <1>3, <2>2, DiesView DEF Start
    <2> QED BY <2>1, <2>2
<1>4. CASE Watch(a)
    <2>1. /\ UNCHANGED <<keys, state, inbox, missed, members>>
          /\ \A w \in Agents : watching'[w] = (w = a \/ watching[w])
          /\ state[a] \in Fetched
        BY <1>4 DEF Watch, TypeOK, etcd, process
    <2>2. \A w \in Agents : \A b \in Agents : WillKnow(w, b)' <=> WillKnow(w, b)
        BY <2>1 DEF WillKnow
    <2> QED BY <2>1, <2>2 DEF ViewInv
<1> QED BY <1>1, <1>2, <1>3, <1>4

\* The member map when keys are put again, removed, or lapse.
LEMMA KeysView ==
    ASSUME TypeOK, ViewInv, NEW a \in Agents,
           PutAgain(a) \/ PutLate(a) \/ Stop(a) \/ LapseKey(a)
    PROVE  ViewInv'
<1>1. CASE PutAgain(a) \/ PutLate(a)
    <2>1. Emit("PUT", a) /\ keys' = keys \cup {a} /\ UNCHANGED <<state, watching, members>>
        BY <1>1 DEF PutAgain, PutLate, process
    <2> QED BY <2>1, EmitView DEF ViewInv
<1>2. CASE Stop(a)
    <2>1. /\ \A w \in Agents : state'[w] = IF w = a THEN "stopped" ELSE state[w]
          /\ \A w \in Agents : watching'[w] = (w # a /\ watching[w])
          /\ \A w \in Agents \ {a} : members'[w] = members[w]
        BY <1>2 DEF Stop, Goto, Forget, TypeOK
    <2>2. CASE keys' = keys \ {a} /\ Emit("DELETE", a)
        <3>1. \A w \in Agents : watching'[w] => state'[w] \in Fetched
            BY <2>1 DEF ViewInv
        <3>2. \A w \in Agents : state'[w] \in Fetched =>
                state[w] \in Fetched /\ members'[w] = members[w] /\ watching'[w] = watching[w]
            BY <2>1 DEF Fetched, Serving, TypeOK
        <3> QED BY <2>2, <3>1, <3>2, EmitView
    <2>3. CASE /\ inbox' = [inbox EXCEPT ![a] = <<>>]
               /\ missed' = [missed EXCEPT ![a] = {}]
               /\ UNCHANGED keys
        <3>1. /\ state'[a] \notin Fetched /\ ~watching'[a] /\ inbox'[a] = <<>>
              /\ \A w \in Agents \ {a} :
                    /\ state'[w] = state[w] /\ watching'[w] = watching[w] /\ inbox'[w] = inbox[w]
                    /\ missed'[w] = missed[w] /\ members'[w] = members[w]
            BY <2>1, <2>3 DEF Fetched, Serving, TypeOK
        <3> QED BY <2>3, <3>1, DieView
    <2> QED BY <1>2, <2>2, <2>3 DEF Stop
<1>3. CASE LapseKey(a)
    <2>1. Emit("DELETE", a) /\ keys' = keys \ {a} /\ UNCHANGED <<state, watching, members>>
        BY <1>3 DEF LapseKey, process
    <2> QED BY <2>1, EmitView DEF ViewInv
<1> QED BY <1>1, <1>2, <1>3

\* The other steps of an agent.
LEMMA OtherView ==
    ASSUME TypeOK, ViewInv, NEW a \in Agents,
           \/ (\E m \in Agents : Reconnect(a, m)) \/ Jam(a)
           \/ Shutdown(a) \/ Close(a) \/ Crash(a)
    PROVE  ViewInv'
<1>1. CASE Crash(a)
    BY <1>1, DiesView DEF Crash
<1>2. CASE Shutdown(a) \/ Close(a)
    <2>1. /\ UNCHANGED <<keys, watching, inbox, missed, members>>
          /\ \A w \in Agents : state'[w] \in Fetched <=> state[w] \in Fetched
        BY <1>2 DEF Shutdown, Close, Goto, Fetched, Serving, TypeOK, etcd, view
    <2> QED BY <2>1, SameView
<1>3. CASE (\E m \in Agents : Reconnect(a, m)) \/ Jam(a)
    <2>1. UNCHANGED <<keys, state, watching, inbox, missed, members>>
        BY <1>3 DEF Reconnect, Jam, etcd, process, view
    <2> QED BY <2>1, SameView
<1> QED BY <1>1, <1>2, <1>3

\* The steps of a job have nothing to do with the keys.
LEMMA JobView ==
    ASSUME TypeOK, ViewInv, NEW j \in Jobs, JobStep(j)
    PROVE  ViewInv'
<1>1. UNCHANGED <<keys, state, watching, inbox, missed, members>>
    BY DEF JobStep, AttachGoroutine, LockFails, PublishChange, WatchDocs, UnwatchDocs, Publish,
           Working, CallMember, Published, Unlock, Answer, CallLost, Returned, LapseSession,
           etcd, process, view
<1> QED BY <1>1, SameView

LEMMA NextView ==
    ASSUME TypeOK, ViewInv, [Next]_vars
    PROVE  ViewInv'
<1>1. ASSUME NEW a \in Agents, AgentStep(a)
      PROVE  ViewInv'
    BY <1>1, StartView, KeysView, HandleView, OtherView DEF AgentStep, Starting, Ending
<1>2. CASE UNCHANGED vars
    <2>1. UNCHANGED <<keys, state, watching, inbox, missed, members>>
        BY <1>2 DEF vars, etcd, process, view
    <2> QED BY <2>1, SameView
<1> QED BY <1>1, <1>2, JobView DEF Next

-----------------------------------------------------------------------------
(***************************************************************************)
(* The broadcast                                                           *)
(***************************************************************************)
LEMMA InitPort == Init => PortInv
BY InitialAssumption DEF Init, PortInv, ServingAt

\* Only Start opens a port, and only one that nobody has.
LEMMA NextPort ==
    ASSUME TypeOK, PortInv, [Next]_vars
    PROVE  PortInv'
<1>1. ASSUME \A b \in Agents : state'[b] = "up" => state[b] = "up"
      PROVE  PortInv'
    BY <1>1 DEF PortInv, ServingAt
<1>2. ASSUME NEW a \in Agents, Start(a)
      PROVE  PortInv'
    <2>1. CASE ServingAt(a) = {}
        <3>1. \A b \in Agents : state'[b] = IF b = a THEN "up" ELSE state[b]
            BY <1>2, <2>1 DEF Start, Goto, TypeOK
        <3>2. \A b \in Agents : state[b] = "up" => Address[b] # Address[a]
            BY <2>1 DEF ServingAt
        <3> QED BY <3>1, <3>2 DEF PortInv, ServingAt
    <2>2. CASE ServingAt(a) # {}
        <3>1. \A b \in Agents : state'[b] = "up" => state[b] = "up"
            BY <1>2, <2>2 DEF Start, Die, Goto, TypeOK
        <3> QED BY <1>1, <3>1
    <2> QED BY <2>1, <2>2
<1>3. ASSUME NEW a \in Agents, AgentStep(a), ~Start(a)
      PROVE  \A b \in Agents : state'[b] = "up" => state[b] = "up"
    BY <1>3 DEF AgentStep, New, Starting, InitializeMemberMap, Watch, PutAgain, HandleEvent,
                Reconnect, Jam, Shutdown, Ending, Close, Stop, PutLate, Crash, Die, LapseKey,
                Goto, TypeOK, process
<1>4. ASSUME NEW j \in Jobs, JobStep(j)
      PROVE  state' = state
    BY <1>4 DEF JobStep, AttachGoroutine, LockFails, PublishChange, WatchDocs, UnwatchDocs, Publish,
                Working, CallMember, Published, Unlock, Answer, CallLost, Returned, LapseSession,
                process
<1>5. CASE UNCHANGED vars
    BY <1>1, <1>5 DEF vars, process
<1> QED BY <1>1, <1>2, <1>3, <1>4, <1>5 DEF Next

LEMMA InitOwed == Init => OwedInv /\ NoJobAfterClose
BY HostAssumption DEF Init, OwedInv, NoJobAfterClose

\* What does not touch the broadcast: an agent that comes to serve was not owed
\* anything, and one that has started stays so.
LEMMA SameOwed ==
    ASSUME TypeOK, OwedInv, UNCHANGED <<todo, call, owed>>,
           \A a \in Agents : backoff'[a] \subseteq backoff[a],
           \A m \in Agents : state[m] \notin {"off", "put", "fetched"} =>
                /\ state'[m] \notin {"off", "put", "fetched"}
                /\ state'[m] = "up" => state[m] = "up"
    PROVE  OwedInv'
<1> SUFFICES ASSUME NEW j \in Jobs, NEW m \in owed[j]
             PROVE  /\ state'[m] \notin {"off", "put", "fetched"}
                    /\ state'[m] = "up" => /\ m \in todo[j] \/ call[j] = m
                                           /\ Connection(m)' \notin backoff'[Host[j]]
    BY DEF OwedInv
<1>1. m \in Agents /\ Host[j] \in Agents
    BY HostAssumption DEF TypeOK
<1>2. Connection(m)' = Connection(m)
    BY DEF Connection
<1> QED BY <1>1, <1>2 DEF OwedInv

\* A process that ends owes nothing, and is owed nothing as it does not serve.
LEMMA ForgetOwed ==
    ASSUME TypeOK, OwedInv, NEW a \in Agents, Forget(a),
           state'[a] \in {"stopped", "crashed"}, \A b \in Agents \ {a} : state'[b] = state[b]
    PROVE  OwedInv'
<1> SUFFICES ASSUME NEW j \in Jobs, NEW m \in owed'[j]
             PROVE  /\ state'[m] \notin {"off", "put", "fetched"}
                    /\ state'[m] = "up" => /\ m \in todo'[j] \/ call'[j] = m
                                           /\ Connection(m)' \notin backoff'[Host[j]]
    BY DEF OwedInv
<1>1. Host[j] # a /\ m \in owed[j] /\ todo'[j] = todo[j] /\ call'[j] = call[j]
    BY DEF Forget
<1>2. m \in Agents /\ Host[j] \in Agents
    BY <1>1, HostAssumption DEF TypeOK
<1>3. backoff'[Host[j]] = backoff[Host[j]]
    BY <1>1, <1>2 DEF Forget, TypeOK
<1>4. Connection(m)' = Connection(m)
    BY DEF Connection
<1> QED BY <1>1, <1>2, <1>3, <1>4 DEF OwedInv

\* The steps of an agent.
LEMMA AgentOwed ==
    ASSUME TypeOK, OwedInv, NEW a \in Agents, AgentStep(a)
    PROVE  OwedInv'
<1>1. CASE New(a) \/ InitializeMemberMap(a) \/ Shutdown(a) \/ Close(a)
    <2>1. /\ UNCHANGED <<todo, call, owed, backoff>>
          /\ state[a] \in {"off", "put"} \/ state'[a] \in {"draining", "cut", "closing"}
          /\ \A w \in Agents \ {a} : state'[w] = state[w]
        BY <1>1 DEF New, InitializeMemberMap, Shutdown, Close, Goto, TypeOK, publish
    <2> QED BY <2>1, SameOwed
<1>2. CASE \/ Watch(a) \/ PutAgain(a) \/ HandleEvent(a) \/ PutLate(a) \/ LapseKey(a) \/ Jam(a)
           \/ \E m \in Agents : Reconnect(a, m)
    <2>1. UNCHANGED <<state, todo, call, owed>>
        BY <1>2 DEF Watch, PutAgain, HandleEvent, PutLate, LapseKey, Jam, Reconnect, process, publish
    <2>2. \A b \in Agents : backoff'[b] \subseteq backoff[b]
        <3>1. CASE HandleEvent(a)
            <4>1. PICK gone : backoff' = [backoff EXCEPT ![a] = IF gone[1] = "DELETE" THEN @ \ {Path(gone[2])} ELSE @]
                BY <3>1 DEF HandleEvent
            <4> QED BY <4>1 DEF TypeOK
        <3>2. CASE \E m \in Agents : Reconnect(a, m)
            BY <3>2 DEF Reconnect, TypeOK
        <3>3. CASE Watch(a) \/ PutAgain(a) \/ PutLate(a) \/ LapseKey(a) \/ Jam(a)
            <4>1. backoff' = backoff
                BY <3>3 DEF Watch, PutAgain, PutLate, LapseKey, Jam
            <4> QED BY <4>1
        <3> QED BY <1>2, <3>1, <3>2, <3>3
    <2> QED BY <2>1, <2>2, SameOwed
<1>3. CASE Start(a)
    <2>1. CASE ServingAt(a) = {}
        <3>1. /\ UNCHANGED <<todo, call, owed, backoff>>
              /\ state[a] = "fetched"
              /\ \A w \in Agents \ {a} : state'[w] = state[w]
            BY <1>3, <2>1 DEF Start, Goto, TypeOK, publish
        <3> QED BY <3>1, SameOwed
    <2>2. CASE ServingAt(a) # {}
        BY <1>3, <2>2, ForgetOwed DEF Start, Die, Goto, TypeOK
    <2> QED BY <2>1, <2>2
<1>4. CASE Stop(a) \/ Crash(a)
    BY <1>4, ForgetOwed DEF Stop, Crash, Die, Goto, TypeOK
<1> QED BY <1>1, <1>2, <1>3, <1>4 DEF AgentStep, Starting, Ending

\* A job begins to publish, and owes its event to members that serve.
LEMMA PublishOwed ==
    ASSUME TypeOK, OwedInv, NEW j \in Jobs, NEW label \in Publishing, Publish(j, label)
    PROVE  OwedInv'
<1>1. /\ UNCHANGED <<state, backoff, call>>
      /\ \A k \in Jobs \ {j} : todo'[k] = todo[k] /\ owed'[k] = owed[k]
      /\ \A m \in owed'[j] : m \in todo'[j] /\ state[m] = "up" /\ m \notin backoff[Host[j]]
    BY DEF Publish, TypeOK, process
<1> QED BY <1>1 DEF OwedInv, Connection

\* A call returns; its agent is not owed the event any more.
LEMMA ReturnedOwed ==
    ASSUME TypeOK, OwedInv, NEW j \in Jobs, Returned(j)
    PROVE  OwedInv'
<1>1. /\ UNCHANGED <<state, backoff, todo>>
      /\ \A k \in Jobs \ {j} : call'[k] = call[k] /\ owed'[k] = owed[k]
      /\ owed'[j] = owed[j] \ {call[j]}
    BY DEF Returned, TypeOK, process
<1> QED BY <1>1 DEF OwedInv, Connection

\* The next member is called: who serves has its port for itself and no connection
\* that backs off, so that it is the one the call goes to.
LEMMA CallOwed ==
    ASSUME TypeOK, PortInv, OwedInv, NEW j \in Jobs, CallMember(j)
    PROVE  OwedInv'
<1> DEFINE a == Host[j]
<1>1. PICK m \in todo[j] :
        /\ todo' = [todo EXCEPT ![j] = Left(j, m)]
        /\ \/ /\ Connection(m) \in backoff[a]
              /\ UNCHANGED <<backoff, call>>
           \/ /\ Connection(m) \notin backoff[a]
              /\ ServingAt(m) = {}
              /\ backoff' = [backoff EXCEPT ![a] = @ \cup {Connection(m)}]
              /\ UNCHANGED call
           \/ /\ Connection(m) \notin backoff[a]
              /\ \E b \in ServingAt(m) : call' = [call EXCEPT ![j] = b]
              /\ UNCHANGED backoff
    BY DEF CallMember
<1>2. UNCHANGED <<state, owed>> /\ call[j] = None /\ m \in Agents /\ a \in Agents
    BY HostAssumption DEF CallMember, process, TypeOK
<1>3. todo'[j] = todo[j] \ {m} /\ \A k \in Jobs \ {j} : todo'[k] = todo[k]
    BY <1>1 DEF Left, TypeOK
<1>4. ASSUME NEW k \in Jobs \ {j}
      PROVE  call'[k] = call[k]
    BY <1>1 DEF TypeOK
<1>5. state[m] = "up" => m \in ServingAt(m)
    BY <1>2 DEF ServingAt
<1>6. ASSUME NEW n \in Agents, NEW b \in Agents, state[n] = "up",
             Connection(n) \notin backoff[b]
      PROVE  Connection(n) \notin backoff'[b]
    <2>1. CASE Connection(m) = Connection(n)
        <3>1. state[m] = "up"
            BY <1>6, <2>1 DEF Connection
        <3>2. backoff' = backoff
            BY <1>1, <1>5, <3>1
        <3> QED BY <1>6, <3>2
    <2>2. CASE Connection(m) # Connection(n)
        BY <1>1, <1>6, <2>2 DEF TypeOK
    <2> QED BY <2>1, <2>2
<1>7. ASSUME m \in owed[j], state[m] = "up"
      PROVE  call'[j] = m
    <2>1. Connection(m) \notin backoff[a] /\ ServingAt(m) # {}
        BY <1>5, <1>7 DEF OwedInv
    <2>2. PICK b \in ServingAt(m) : call' = [call EXCEPT ![j] = b]
        BY <1>1, <2>1
    <2>3. b = m
        BY <1>2, <1>7 DEF PortInv, ServingAt
    <2> QED BY <2>2, <2>3 DEF TypeOK
<1> SUFFICES ASSUME NEW k \in Jobs, NEW n \in owed[k]
             PROVE  /\ state[n] \notin {"off", "put", "fetched"}
                    /\ state[n] = "up" => /\ n \in todo'[k] \/ call'[k] = n
                                          /\ Connection(n) \notin backoff'[Host[k]]
    BY <1>2 DEF OwedInv, Connection
<1>8. n \in Agents /\ Host[k] \in Agents
    BY HostAssumption DEF TypeOK
<1>9. /\ state[n] \notin {"off", "put", "fetched"}
      /\ state[n] = "up" => /\ n \in todo[k] \/ call[k] = n
                            /\ Connection(n) \notin backoff[Host[k]]
    BY DEF OwedInv
<1>10. state[n] = "up" => Connection(n) \notin backoff'[Host[k]]
    BY <1>6, <1>8, <1>9
<1>11. CASE k = j
    <2>1. n # None
        BY <1>8, NoneAssumption
    <2> QED BY <1>2, <1>3, <1>7, <1>9, <1>10, <1>11, <2>1
<1>12. CASE k # j
    BY <1>3, <1>4, <1>9, <1>10, <1>12
<1> QED BY <1>11, <1>12

\* The steps of a job.
LEMMA JobOwed ==
    ASSUME TypeOK, PortInv, OwedInv, NEW j \in Jobs, JobStep(j)
    PROVE  OwedInv'
<1>1. CASE PublishChange(j) \/ WatchDocs(j) \/ UnwatchDocs(j)
    BY <1>1, PublishOwed DEF PublishChange, WatchDocs, UnwatchDocs, Publishing
<1>2. CASE Answer(j) \/ CallLost(j)
    BY <1>2, ReturnedOwed DEF Answer, CallLost
<1>3. CASE CallMember(j)
    BY <1>3, CallOwed
<1>4. CASE Published(j) \/ Unlock(j)
    <2>1. /\ UNCHANGED <<state, backoff, todo, call>>
          /\ \A k \in Jobs \ {j} : owed'[k] = owed[k]
          /\ owed'[j] = {}
        BY <1>4 DEF Published, Unlock, TypeOK, process
    <2> QED BY <2>1 DEF OwedInv, Connection
<1>5. CASE AttachGoroutine(j) \/ LockFails(j) \/ LapseSession(j)
    <2>1. UNCHANGED <<state, backoff, todo, call, owed>>
        BY <1>5 DEF AttachGoroutine, LockFails, LapseSession, process, publish
    <2> QED BY <2>1, SameOwed
<1> QED BY <1>1, <1>2, <1>3, <1>4, <1>5 DEF JobStep, Working

LEMMA NextOwed ==
    ASSUME TypeOK, PortInv, OwedInv, [Next]_vars
    PROVE  OwedInv'
<1>1. CASE UNCHANGED vars
    BY <1>1, SameOwed DEF vars, process, publish
<1> QED BY <1>1, AgentOwed, JobOwed DEF Next

-----------------------------------------------------------------------------
(***************************************************************************)
(* The end of an agent                                                     *)
(***************************************************************************)
\* A goroutine is attached only to an agent that is not closing, and Close waits.
LEMMA NextNoJob ==
    ASSUME TypeOK, NoJobAfterClose, [Next]_vars
    PROVE  NoJobAfterClose'
<1>1. ASSUME NEW a \in Agents, AgentStep(a)
      PROVE  NoJobAfterClose'
    <2>1. CASE Stop(a)
        <3>1. /\ job' = job
              /\ \A b \in Agents \ {a} : state'[b] = state[b]
              /\ \A j \in Pushes : Host[j] = a => job[j] \in {"none", "done"}
            BY <2>1 DEF Stop, Goto, TypeOK
        <3> QED BY <3>1, HostAssumption DEF NoJobAfterClose
    <2>2. CASE Crash(a) \/ (Start(a) /\ ServingAt(a) # {})
        <3>1. Die(a)
            BY <2>2 DEF Crash, Start
        <3>2. /\ \A b \in Agents : state'[b] = "stopped" => state[b] = "stopped"
              /\ \A j \in Jobs : job'[j] \in {job[j], "done"}
            BY <3>1 DEF Die, Goto, TypeOK
        <3> QED BY <3>2, HostAssumption DEF NoJobAfterClose
    <2>3. CASE ~Stop(a) /\ ~Crash(a) /\ ~(Start(a) /\ ServingAt(a) # {})
        <3>1. /\ job' = job
              /\ \A b \in Agents : state'[b] = "stopped" => state[b] = "stopped"
            BY <1>1, <2>3 DEF AgentStep, New, Starting, InitializeMemberMap, Start, Watch, PutAgain,
                HandleEvent, Reconnect, Jam, Shutdown, Ending, Close, PutLate, LapseKey, Goto, TypeOK,
                process
        <3> QED BY <3>1, HostAssumption DEF NoJobAfterClose
    <2> QED BY <2>1, <2>2, <2>3
<1>2. ASSUME NEW j \in Jobs, JobStep(j)
      PROVE  NoJobAfterClose'
    <2>1. state' = state /\ \A k \in Jobs \ {j} : job'[k] = job[k]
        BY <1>2 DEF JobStep, AttachGoroutine, LockFails, PublishChange, WatchDocs, UnwatchDocs, Publish,
            Working, CallMember, Published, Unlock, Answer, CallLost, Returned, LapseSession,
            TypeOK, process
    <2>2. j \in Pushes => job'[j] \in {job[j], "done"} \/ state[Host[j]] # "stopped"
        BY <1>2 DEF JobStep, AttachGoroutine, LockFails, PublishChange, WatchDocs, UnwatchDocs, Publish,
            Working, CallMember, Published, Unlock, Answer, CallLost, Returned, LapseSession,
            Dead, Serving, TypeOK
    <2> QED BY <2>1, <2>2, HostAssumption DEF NoJobAfterClose
<1>3. CASE UNCHANGED vars
    BY <1>3 DEF vars, process, NoJobAfterClose
<1> QED BY <1>1, <1>2, <1>3 DEF Next

-----------------------------------------------------------------------------
(***************************************************************************)
(* The theorems                                                            *)
(***************************************************************************)
\* The inductive invariant: what is on its way about an agent ends with what etcd
\* has, an address has one server at most, and whom a broadcast owes its event is
\* still to be called, or is being called, over a connection that works.
THEOREM Invariance == Spec => []IndInv
<1>1. Init => IndInv
    BY InitType, InitView, InitPort, InitOwed DEF IndInv
<1>2. IndInv /\ [Next]_vars => IndInv'
    BY NextType, NextView, NextPort, NextOwed, NextNoJob DEF IndInv
<1> QED BY <1>1, <1>2, PTL DEF Spec

\* syncAgents: a member map is what etcd has once the events on their way are
\* handled, but for what fell between Get and Watch, in a cluster of any size.
THEOREM MapsFollow == Spec => []MapFollows
<1>1. IndInv => MapFollows
    BY DEF IndInv, ViewInv, MapFollows
<1> QED BY <1>1, Invariance, PTL

\* Client.Publish: a member that fails, is gone or was started again keeps no event
\* from those that serve; lost calls and connections that back off apart.
THEOREM PublishReachesAll == Spec => []PublishReaches
<1>1. IndInv => PublishReaches
    <2> SUFFICES ASSUME IndInv, NEW j \in Jobs, Ended(j), NEW m \in owed[j], state[m] = "up"
                 PROVE  FALSE
        BY DEF PublishReaches
    <2>1. m \in todo[j] \/ call[j] = m
        BY DEF IndInv, OwedInv
    <2>2. m \in Agents
        BY DEF IndInv, TypeOK
    <2> QED BY <2>1, <2>2, NoneAssumption DEF Ended
<1> QED BY <1>1, Invariance, PTL

\* Backend.Close: no goroutine uses the coordinator or the database afterwards.
THEOREM NothingAfterClose == Spec => []NoJobAfterClose
<1>1. IndInv => NoJobAfterClose
    BY DEF IndInv
<1> QED BY <1>1, Invariance, PTL
=============================================================================
