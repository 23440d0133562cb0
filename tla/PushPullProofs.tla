--------------------------- MODULE PushPullProofs ---------------------------
(***************************************************************************)
(* Proofs about PushPull, for any number of clients, requests, edits and   *)
(* faults: type correctness, the append-only log (LogStable), the safety   *)
(* of acknowledged edits (AckedChangesStored), and what replicas receive:  *)
(* no replica misses a change below its checkpoint, a snapshot is a replay *)
(* of the log, a row of syncedseqs never claims too much, and PushPull     *)
(* implements ChangeLog.  And, under the hypotheses the last theorems      *)
(* name, that a change is stored and executed once.                        *)
(***************************************************************************)
EXTENDS PushPull, TLAPS, WellFoundedInduction, SequenceTheorems

-----------------------------------------------------------------------------
(***************************************************************************)
(* Types                                                                   *)
(***************************************************************************)

\* MaxOf and MinOf return one of their arguments, the right one.
LEMMA MaxMinFacts ==
    ASSUME NEW a \in Nat, NEW b \in Nat
    PROVE  /\ MaxOf(a, b) \in Nat /\ MaxOf(a, b) >= a /\ MaxOf(a, b) >= b
           /\ MaxOf(a, b) = a \/ MaxOf(a, b) = b
           /\ MinOf(a, b) \in Nat /\ MinOf(a, b) <= a /\ MinOf(a, b) <= b
BY DEF MaxOf, MinOf

\* Executing changes on a root gives a root.
LEMMA ExecuteType ==
    ASSUME NEW r \in Root, NEW s \in Root
    PROVE  Execute(r, s) \in Root
BY DEF Execute, Root

\* The local changes of a client are a run of changes.
LEMMA LocalChangesType ==
    ASSUME NEW c \in Clients, NEW a \in Nat, NEW b \in Nat
    PROVE  LocalChanges(c, a, b) \in Root
<1>1. \A k \in (a + 1) .. b : k \in Nat \ {0}
    OBVIOUS
<1> QED BY <1>1 DEF LocalChanges, Root, Change

\* What FindChangeInfosBetweenServerSeqs returns is a run of changes.
LEMMA FindChangeInfosType ==
    ASSUME TypeOK, NEW a \in Nat, NEW b \in Nat
    PROVE  FindChangeInfos(a, b) \in Root
<1>1. \A s \in DOMAIN changes : changes[s] \in Change
    BY DEF TypeOK
<1> QED BY <1>1 DEF FindChangeInfos, Root

\* The snapshot in the database and the empty root are roots.
LEMMA EmptyRootType == EmptyRoot \in Root
BY DEF EmptyRoot, Root

\* The values of a slot without request.
LEMMA DefaultTypes ==
    /\ NoInfo \in ClientDocInfo
    /\ NoResp \in Response
    /\ NoRequest \in Request
    /\ NoJob \in [pc : {"none", "wait", "store"}, seq : Nat, root : Root]
    /\ InitialCheckpoint \in Checkpoint
BY EmptyRootType DEF NoInfo, ClientDocInfo, NoResp, Response, NoRequest, Request,
                     NoJob, InitialCheckpoint, Checkpoint

\* The numbers of a handler.
LEMMA SizeType ==
    ASSUME TypeOK, NEW r \in Reqs
    PROVE  Size(r) \in Nat /\ ServerSeq(r) \in Nat
BY DEF TypeOK, Size, ServerSeq, Request

\* The pack a handler answers with.
LEMMA PulledPackType ==
    ASSUME TypeOK, NEW r \in Reqs
    PROVE  PulledCP(r) \in Checkpoint /\ PulledPack(r) \in Response
<1>1. PulledCP(r) \in Checkpoint
    BY SizeType, MaxMinFacts DEF PulledCP, Checkpoint, TypeOK, Request, ClientDocInfo, HasChanges
<1>2. FindChangeInfos(req[r].serverSeq, init[r]) \in Root
    BY FindChangeInfosType DEF TypeOK, Request
<1>3. FindChangeInfos(snapshot.serverSeq, init[r]) \in Root
    BY FindChangeInfosType DEF TypeOK
<1>4. snapshot.root \in Root
    BY DEF TypeOK
<1>5. Execute(snapshot.root, FindChangeInfos(snapshot.serverSeq, init[r])) \in Root
    BY <1>3, <1>4, ExecuteType
<1> QED BY <1>1, <1>2, <1>4, <1>5 DEF PulledPack, Response

\* Every nonempty set of naturals has a least element.
LEMMA LeastNatural ==
    ASSUME NEW T, T \subseteq Nat, T # {}
    PROVE  \E m \in T : \A n \in T : m <= n
<1> DEFINE R == OpToRel(<, Nat)
<1>1. IsWellFoundedOn(R, Nat)
    BY NatLessThanWellFounded
<1>2. \A x, y \in Nat : <<y, x>> \in R <=> y < x
    BY DEF OpToRel
<1> HIDE DEF R
<1>3. \E x \in T : \A y \in T : ~(<<y, x>> \in R)
    BY <1>1, WFMin
<1>4. PICK x \in T : \A y \in T : ~(<<y, x>> \in R)
    BY <1>3
<1>5. \A y \in T : ~(y < x)
    BY <1>2, <1>4
<1>6. \A y \in T : x <= y
    BY <1>5
<1> QED BY <1>6

\* The least row of syncedseqs is a server seq.
LEMMA MinSyncedSeqType ==
    ASSUME TypeOK
    PROVE  MinSyncedSeq \in Nat
<1> DEFINE rows == {syncedSeqs[c] : c \in Clients} \ {NoRow}
<1>1. rows \subseteq Nat
    BY DEF TypeOK
<1>2. CASE rows = {}
    BY <1>2 DEF MinSyncedSeq
<1>3. CASE rows # {}
    <2>1. \E m \in rows : \A n \in rows : m <= n
        BY <1>1, <1>3, LeastNatural
    <2>2. MinSyncedSeq = CHOOSE m \in rows : \A n \in rows : m <= n
        BY <1>3 DEF MinSyncedSeq
    <2> HIDE DEF rows
    <2> QED BY <1>1, <2>1, <2>2
<1> QED BY <1>2, <1>3

\* The row UpdateClientInfoAfterPushPull writes.
LEMMA StoredInfoType ==
    ASSUME TypeOK, NEW r \in Reqs, req[r].client \in Clients
    PROVE  StoredInfo(r) \in ClientDocInfo
<1>1. clientInfos[req[r].client] \in ClientDocInfo /\ info[r] \in ClientDocInfo
    BY DEF TypeOK
<1> QED BY <1>1, MaxMinFacts DEF StoredInfo, ClientDocInfo

\* The document after ApplyChangePack.
LEMMA AppliedType ==
    ASSUME TypeOK, NEW c \in Clients, NEW pack \in Response
    PROVE  /\ AppliedDoc(c, pack) \in [attached : BOOLEAN, cp : Checkpoint, acked : Nat, seq : Nat]
           /\ AppliedRoot(c, pack) \in Root
<1>1. doc[c] \in [attached : BOOLEAN, cp : Checkpoint, acked : Nat, seq : Nat]
    BY DEF TypeOK
<1>2. pack.cp \in Checkpoint /\ pack.root \in Root
    BY DEF Response
<1>3. Forward(doc[c].cp, pack.cp) \in Checkpoint
    BY <1>1, <1>2, MaxMinFacts DEF Forward, Checkpoint
<1>4. MaxOf(doc[c].acked, MinOf(doc[c].seq, pack.cp.clientSeq)) \in Nat
    BY <1>1, <1>2, MaxMinFacts DEF Checkpoint
<1>5. AppliedDoc(c, pack) \in [attached : BOOLEAN, cp : Checkpoint, acked : Nat, seq : Nat]
    BY <1>1, <1>3, <1>4 DEF AppliedDoc
<1>6. LocalChanges(c, doc[c].acked, doc[c].seq) \in Root
    BY <1>1, LocalChangesType
<1>7. root[c] \in Root
    BY DEF TypeOK
<1>8. AppliedRoot(c, pack) \in Root
    BY <1>2, <1>6, <1>7, ExecuteType DEF AppliedRoot
<1> QED BY <1>5, <1>8

\* A handler that returns leaves a well-typed slot.
LEMMA ReturnType ==
    ASSUME TypeOK, NEW r \in Reqs, NEW o \in {"done", "failed"}, NEW p \in Response,
           Return(r, o, p)
    PROVE  /\ lock' \in Reqs \cup {None}
           /\ pc' \in [Reqs -> {"idle", "recv", "findDoc", "pull", "store", "client",
                                "synced", "min", "done", "failed"}]
           /\ req' \in [Reqs -> Request]
           /\ pc[r] # "idle" => \A q \in Reqs : pc'[q] # "idle" => req'[q].client \in Clients
           /\ info' \in [Reqs -> ClientDocInfo]
           /\ init' \in [Reqs -> Nat]
           /\ base' \in [Reqs -> Nat]
           /\ wrote' \in [Reqs -> Nat]
           /\ resp' \in [Reqs -> Response]
BY DefaultTypes DEF Return, TypeOK

\* A slot that is given back is well-typed.
LEMMA FreeType ==
    ASSUME TypeOK, NEW r \in Reqs, Free(r)
    PROVE  /\ pc' \in [Reqs -> {"idle", "recv", "findDoc", "pull", "store", "client",
                                "synced", "min", "done", "failed"}]
           /\ req' \in [Reqs -> Request]
           /\ \A q \in Reqs : pc'[q] # "idle" => req'[q].client \in Clients
           /\ resp' \in [Reqs -> Response]
BY DefaultTypes DEF Free, TypeOK

\* The steps of a client keep the types.
LEMMA ClientTypeStep ==
    ASSUME TypeOK, NEW c \in Clients, ClientNext(c)
    PROVE  TypeOK'
<1>0. doc[c] \in [attached : BOOLEAN, cp : Checkpoint, acked : Nat, seq : Nat]
    BY DEF TypeOK
<1>1. CASE Update(c)
    <2>1. doc[c].seq \in Nat /\ doc[c].seq + 1 \in Nat /\ root[c] \in Root
        BY <1>0 DEF TypeOK
    <2>2. Execute(root[c], LocalChanges(c, doc[c].seq, doc[c].seq + 1)) \in Root
        BY <2>1, LocalChangesType, ExecuteType
    <2>3. root' \in [Clients -> Root]
        BY <1>1, <2>2 DEF Update, TypeOK
    <2>4. doc' \in [Clients -> [attached : BOOLEAN, cp : Checkpoint, acked : Nat, seq : Nat]]
        <3>1. doc' = [doc EXCEPT ![c].seq = doc[c].seq + 1]
            BY <1>1 DEF Update
        <3>2. doc \in [Clients -> [attached : BOOLEAN, cp : Checkpoint, acked : Nat, seq : Nat]]
            BY DEF TypeOK
        <3> QED BY <2>1, <3>1, <3>2
    <2> QED BY <1>1, <2>3, <2>4 DEF Update, TypeOK, dbVars, handlerVars
<1>2. ASSUME NEW m \in Methods, Call(c, m) PROVE TypeOK'
    <2>1. m \in {"attach", "pushpull", "detach"}
        BY <1>2, MethodsAssumption
    <2>2. [client |-> c, method |-> m, serverSeq |-> doc[c].cp.serverSeq,
           lo |-> doc[c].acked, hi |-> doc[c].seq] \in Request
        BY <1>0, <2>1 DEF Request, Checkpoint
    <2> QED BY <1>2, <2>2 DEF Call, TypeOK, dbVars
<1>3. CASE Receive(c)
    <2>1. wait[c] \in Reqs
        BY <1>3 DEF Receive, TypeOK
    <2>2. resp[wait[c]] \in Response
        BY <2>1 DEF TypeOK
    <2>3. AppliedDoc(c, resp[wait[c]]) \in [attached : BOOLEAN, cp : Checkpoint, acked : Nat, seq : Nat]
        BY <2>2, AppliedType
    <2>4. AppliedRoot(c, resp[wait[c]]) \in Root
        BY <2>2, AppliedType
    <2>5. doc' \in [Clients -> [attached : BOOLEAN, cp : Checkpoint, acked : Nat, seq : Nat]]
        BY <1>3, <2>3 DEF Receive, TypeOK
    <2>6. root' \in [Clients -> Root] /\ wait' \in [Clients -> Reqs \cup {None}]
        BY <1>3, <2>4 DEF Receive, TypeOK
    <2> QED BY <1>3, <2>1, <2>5, <2>6, FreeType DEF Receive, TypeOK, dbVars
<1>4. CASE ReceiveError(c)
    <2>1. wait[c] \in Reqs
        BY <1>4 DEF ReceiveError, TypeOK
    <2> QED BY <1>4, <2>1, FreeType DEF ReceiveError, TypeOK, dbVars
<1>5. CASE Lost(c)
    <2>1. wait[c] \in Reqs
        BY <1>5 DEF Lost, TypeOK
    <2>2. CASE pc[wait[c]] \in {"done", "failed"}
        BY <1>5, <2>1, <2>2, FreeType DEF Lost, Fault, TypeOK, dbVars
    <2>3. CASE pc[wait[c]] \notin {"done", "failed"}
        BY <1>5, <2>1, <2>3 DEF Lost, Fault, TypeOK, dbVars
    <2> QED BY <2>2, <2>3
<1>6. CASE Cancel(c)
    <2>1. wait[c] \in Reqs
        BY <1>6 DEF Cancel, TypeOK
    <2> QED BY <1>6, <2>1, FreeType, DefaultTypes DEF Cancel, Fault, TypeOK, dbVars
<1> QED BY <1>1, <1>2, <1>3, <1>4, <1>5, <1>6 DEF ClientNext, Attach, Sync, Detach

\* The steps of a handler and of its goroutine keep the types.
LEMMA ReqTypeStep ==
    ASSUME TypeOK, NEW r \in Reqs, ReqNext(r)
    PROVE  TypeOK'
<1>1. CASE FindClient(r)
    <2>1. clientInfos[req[r].client] \in ClientDocInfo
        BY <1>1 DEF FindClient, TypeOK
    <2> QED BY <1>1, <2>1 DEF FindClient, TypeOK, dbVars, clientVars
<1>2. CASE FindDoc(r)
    <2>0. info[r] \in ClientDocInfo
        BY DEF TypeOK
    <2>1. MarkedInfo(r) \in ClientDocInfo
        BY <2>0 DEF MarkedInfo, ClientDocInfo
    <2>2. MaxOf(req[r].lo, MarkedInfo(r).clientSeq) \in Nat
        BY <2>1, MaxMinFacts DEF TypeOK, Request, ClientDocInfo
    <2>3. CASE Admitted(r)
        <3>1. /\ info' = [info EXCEPT ![r] = MarkedInfo(r)]
              /\ init' = [init EXCEPT ![r] = docSeq]
              /\ base' = [base EXCEPT ![r] = MaxOf(req[r].lo, MarkedInfo(r).clientSeq)]
              /\ pc' = [pc EXCEPT ![r] = "pull"] /\ pc[r] = "findDoc"
              /\ UNCHANGED <<lock, req, wrote, resp, dbVars, snapLock, job, clientVars, faults>>
            BY <1>2, <2>3 DEF FindDoc, PushedBase
        <3>2. info' \in [Reqs -> ClientDocInfo] /\ init' \in [Reqs -> Nat] /\ base' \in [Reqs -> Nat]
            BY <2>1, <2>2, <3>1 DEF TypeOK
        <3> QED BY <3>1, <3>2 DEF TypeOK, dbVars, clientVars
    <2>4. CASE ~Admitted(r)
        BY <1>2, <2>4, ReturnType, DefaultTypes DEF FindDoc, PushedBase, Fail, TypeOK, dbVars, clientVars
    <2> QED BY <2>3, <2>4
<1>3. CASE Pull(r)
    <2>1. PulledCP(r) \in Checkpoint /\ PulledPack(r) \in Response
        BY PulledPackType
    <2>2. CASE init[r] < req[r].serverSeq
        BY <1>3, <2>2, ReturnType, DefaultTypes DEF Pull, Fail, TypeOK, dbVars, clientVars
    <2>3. CASE ~(init[r] < req[r].serverSeq)
        <3>1. info' \in [Reqs -> ClientDocInfo]
            <4> DEFINE i == [status |-> info[r].status, serverSeq |-> PulledCP(r).serverSeq,
                             clientSeq |-> PulledCP(r).clientSeq]
            <4>1. info[r] \in ClientDocInfo
                BY DEF TypeOK
            <4>2. i \in ClientDocInfo
                BY <2>1, <4>1 DEF ClientDocInfo, Checkpoint
            <4>3. info' = [info EXCEPT ![r] = i]
                BY <1>3, <2>3, <4>1 DEF Pull, TypeOK, ClientDocInfo
            <4> HIDE DEF i
            <4> QED BY <4>2, <4>3 DEF TypeOK
        <3>2. /\ resp' = [resp EXCEPT ![r] = PulledPack(r)]
              /\ \E p \in {"store", "client"} : pc' = [pc EXCEPT ![r] = p]
              /\ pc[r] = "pull"
              /\ UNCHANGED <<lock, req, init, base, wrote, dbVars, snapLock, job, clientVars, faults>>
            BY <1>3, <2>3 DEF Pull
        <3>3. resp' \in [Reqs -> Response]
            BY <2>1, <3>2 DEF TypeOK
        <3> QED BY <3>1, <3>2, <3>3 DEF TypeOK, dbVars, clientVars
    <2> QED BY <2>2, <2>3
<1>4. CASE StoreChange(r)
    <2> DEFINE s == init[r] + wrote[r] + 1
               c == [actor |-> req[r].client, clientSeq |-> base[r] + wrote[r] + 1]
    <2>1. s \in Nat \ {0} /\ c \in Change
        BY <1>4 DEF StoreChange, TypeOK, Change
    <2>2. changes' = [t \in DOMAIN changes \cup {s} |-> IF t = s THEN c ELSE changes[t]]
        BY <1>4 DEF StoreChange
    <2> HIDE DEF s, c
    <2>3. DOMAIN changes' \subseteq Nat \ {0} /\ changes' \in [DOMAIN changes' -> Change]
        BY <2>1, <2>2 DEF TypeOK
    <2> QED BY <1>4, <2>3 DEF StoreChange, TypeOK, clientVars
<1>5. CASE UpdateDoc(r)
    <2>1. CASE docSeq = init[r]
        BY <1>5, <2>1, SizeType DEF UpdateDoc, TypeOK, clientVars
    <2>2. CASE docSeq # init[r]
        BY <1>5, <2>2, ReturnType, DefaultTypes DEF UpdateDoc, Fail, TypeOK, clientVars
    <2> QED BY <2>1, <2>2
<1>6. CASE UpdateClient(r)
    <2>1. StoredInfo(r) \in ClientDocInfo
        BY <1>6, StoredInfoType DEF UpdateClient, TypeOK
    <2> QED BY <1>6, <2>1 DEF UpdateClient, TypeOK, clientVars
<1>7. CASE UpdateSynced(r)
    <2>1. syncedSeqs' \in [Clients -> Nat \cup {NoRow}]
        BY <1>7 DEF UpdateSynced, TypeOK, Request
    <2> QED BY <1>7, <2>1 DEF UpdateSynced, TypeOK, clientVars
<1>8. CASE FindMin(r)
    <2>1. [resp[r] EXCEPT !.min = MinSyncedSeq] \in Response
        <3>1. resp[r] \in Response
            BY DEF TypeOK
        <3> QED BY <3>1, MinSyncedSeqType DEF Response
    <2>2. job' \in [Reqs -> [pc : {"none", "wait", "store"}, seq : Nat, root : Root]]
        BY <1>8, SizeType, EmptyRootType DEF FindMin, TypeOK
    <2> QED BY <1>8, <2>1, <2>2, ReturnType DEF FindMin, TypeOK, dbVars, clientVars
<1>9. CASE JobRead(r)
    <2>1. Execute(snapshot.root, FindChangeInfos(snapshot.serverSeq, job[r].seq)) \in Root
        <3>1. snapshot.serverSeq \in Nat /\ job[r].seq \in Nat /\ snapshot.root \in Root
            BY DEF TypeOK
        <3> QED BY <3>1, FindChangeInfosType, ExecuteType
    <2>2. job' \in [Reqs -> [pc : {"none", "wait", "store"}, seq : Nat, root : Root]]
        <3> DEFINE x == Execute(snapshot.root, FindChangeInfos(snapshot.serverSeq, job[r].seq))
        <3>1. \/ job' = [job EXCEPT ![r] = NoJob]
              \/ job' = [job EXCEPT ![r].pc = "store", ![r].root = x]
            BY <1>9 DEF JobRead
        <3>2. x \in Root
            BY <2>1
        <3> HIDE DEF x
        <3>3. job \in [Reqs -> [pc : {"none", "wait", "store"}, seq : Nat, root : Root]]
            BY DEF TypeOK
        <3>4. CASE job' = [job EXCEPT ![r] = NoJob]
            BY <3>3, <3>4, DefaultTypes
        <3>5. CASE job' = [job EXCEPT ![r].pc = "store", ![r].root = x]
            BY <3>2, <3>3, <3>5
        <3> QED BY <3>1, <3>4, <3>5
    <2>3. snapLock' \in Reqs \cup {None}
        BY <1>9 DEF JobRead, TypeOK
    <2> QED BY <1>9, <2>2, <2>3 DEF JobRead, TypeOK, dbVars, handlerVars, clientVars
<1>10. CASE JobStore(r)
    <2>1. snapshot' \in [serverSeq : Nat, root : Root]
        BY <1>10 DEF JobStore, TypeOK
    <2> QED BY <1>10, <2>1, DefaultTypes DEF JobStore, TypeOK, handlerVars, clientVars
<1>11. CASE DBError(r)
    BY <1>11, ReturnType, DefaultTypes
       DEF DBError, Fail, Fault, Working, TypeOK, dbVars, clientVars
<1>12. CASE JobError(r)
    BY <1>12, DefaultTypes DEF JobError, Fault, TypeOK, dbVars, handlerVars, clientVars
<1> QED BY <1>1, <1>2, <1>3, <1>4, <1>5, <1>6, <1>7, <1>8, <1>9, <1>10, <1>11, <1>12
        DEF ReqNext, HandlerStep

\* Every step keeps the types.
LEMMA TypeStep ==
    ASSUME TypeOK, [Next]_vars
    PROVE  TypeOK'
<1>1. CASE UNCHANGED vars
    BY <1>1 DEF TypeOK, vars, dbVars, handlerVars, clientVars
<1>2. CASE Crash
    BY <1>2, DefaultTypes DEF Crash, Fault, TypeOK, dbVars, clientVars
<1> QED BY <1>1, <1>2, ClientTypeStep, ReqTypeStep DEF Next

\* The collections, lockers, handlers and replicas always have their types.
THEOREM TypeCorrect == Spec => []TypeOK
<1>1. Init => TypeOK
    BY DefaultTypes, EmptyRootType DEF Init, TypeOK, NoRow
<1>2. TypeOK /\ [Next]_vars => TypeOK'
    BY TypeStep
<1> QED BY <1>1, <1>2, PTL DEF Spec

-----------------------------------------------------------------------------
(***************************************************************************)
(* The log                                                                 *)
(***************************************************************************)

\* What a step does to the log: it keeps what readers may ask for.
LogStep ==
    /\ docSeq <= docSeq'
    /\ \A s \in 1 .. docSeq : s \in DOMAIN changes /\ s \in DOMAIN changes'
                                                  /\ changes'[s] = changes[s]

\* A handler that returns keeps the invariant of the log: it gives the lock
\* back if it has it, and its client, if it waits, waits for the outcome.
LEMMA ReturnLogInv ==
    ASSUME TypeOK, LogInv, NEW r \in Reqs, pc[r] \in Working,
           NEW o \in {"done", "failed"}, NEW p \in Response, Return(r, o, p),
           UNCHANGED <<docSeq, changes, wait>>
    PROVE  LogInv'
<1>0. pc[r] # "idle" /\ req[r].client \in Clients
    BY DEF Working, TypeOK
<1>1. LockInv'
    BY NoneAssumption, <1>0 DEF LogInv, LockInv, Return, Working, TypeOK, HasChanges
<1>2. WaitInv'
    <2> SUFFICES ASSUME NEW c \in Clients, wait[c] # None
                 PROVE  pc'[wait[c]] # "idle" /\ req'[wait[c]].client = c
        BY DEF WaitInv
    <2>1. wait[c] \in Reqs /\ pc[wait[c]] # "idle" /\ req[wait[c]].client = c
        BY DEF LogInv, WaitInv, TypeOK
    <2> QED BY <2>1 DEF Return, Waited, TypeOK
<1>3. WriterInv'
    <2> SUFFICES ASSUME NEW q \in Reqs PROVE WriterInv!(q)'
        BY DEF WriterInv
    <2>1. CASE q = r
        BY <2>1 DEF Return, TypeOK, Waited
    <2>2. CASE q # r
        BY <2>2 DEF LogInv, WriterInv, Return, TypeOK, HasChanges, Size
    <2> QED BY <2>1, <2>2
<1>4. RowsInv'
    BY DEF LogInv, RowsInv
<1> QED BY <1>1, <1>2, <1>3, <1>4 DEF LogInv

\* The steps of a client keep the invariant of the log.
LEMMA ClientLogInv ==
    ASSUME TypeOK, LogInv, NEW c \in Clients, ClientNext(c)
    PROVE  LogInv' /\ UNCHANGED <<docSeq, changes>>
<1> USE NoneAssumption
<1>0. wait[c] # None => wait[c] \in Reqs /\ pc[wait[c]] # "idle" /\ req[wait[c]].client = c
    BY DEF TypeOK, LogInv, WaitInv
<1>1. CASE Update(c)
    BY <1>1 DEF Update, LogInv, LockInv, WaitInv, WriterInv, RowsInv, HasChanges, Size,
                dbVars, handlerVars
<1>2. ASSUME NEW m \in Methods, Call(c, m) PROVE LogInv' /\ UNCHANGED <<docSeq, changes>>
    <2>1. PICK r \in Reqs :
            /\ pc[r] = "idle"
            /\ pc' = [pc EXCEPT ![r] = "recv"]
            /\ req' = [req EXCEPT ![r] =
                        [client |-> c, method |-> m, serverSeq |-> doc[c].cp.serverSeq,
                         lo |-> doc[c].acked, hi |-> doc[c].seq]]
            /\ wait' = [wait EXCEPT ![c] = r]
        BY <1>2 DEF Call
    <2>2. UNCHANGED <<docSeq, changes, lock, info, init, base, wrote, resp>>
        BY <1>2 DEF Call, dbVars
    <2>3. LockInv'
        BY <2>1, <2>2 DEF LogInv, LockInv, HasChanges, Working, TypeOK
    <2>4. WaitInv'
        BY <2>1 DEF LogInv, WaitInv, TypeOK
    <2>5. WriterInv'
        BY <2>1, <2>2 DEF LogInv, WriterInv, HasChanges, Size, TypeOK
    <2> QED BY <2>2, <2>3, <2>4, <2>5 DEF LogInv, RowsInv
<1>3. ASSUME NEW r \in Reqs, r = wait[c], pc[r] \in {"done", "failed"}, Free(r),
             wait' = [wait EXCEPT ![c] = None],
             UNCHANGED <<docSeq, changes, lock, info, init, base, wrote>>
      PROVE  LogInv'
    <2>0. lock # r
        BY <1>3 DEF LogInv, LockInv, Working
    <2>1. LockInv'
        BY <1>3, <2>0 DEF LogInv, LockInv, HasChanges, Working, TypeOK, Free
    <2>2. WaitInv'
        BY <1>0, <1>3 DEF LogInv, WaitInv, TypeOK, Free
    <2>3. WriterInv'
        <3> SUFFICES ASSUME NEW q \in Reqs PROVE WriterInv!(q)'
            BY DEF WriterInv
        <3>1. CASE q = r
            BY <1>3, <3>1 DEF LogInv, WriterInv, Free, TypeOK
        <3>2. CASE q # r
            BY <1>3, <3>2 DEF LogInv, WriterInv, Free, TypeOK, HasChanges, Size
        <3> QED BY <3>1, <3>2
    <2> QED BY <1>3, <2>1, <2>2, <2>3 DEF LogInv, RowsInv
<1>4. CASE Receive(c)
    <2>1. /\ wait[c] # None /\ pc[wait[c]] = "done" /\ Free(wait[c])
          /\ wait' = [wait EXCEPT ![c] = None]
          /\ UNCHANGED <<docSeq, changes, lock, info, init, base, wrote>>
        BY <1>4 DEF Receive, dbVars
    <2> QED BY <1>0, <1>3, <2>1
<1>5. CASE ReceiveError(c)
    BY <1>0, <1>3, <1>5 DEF ReceiveError, dbVars
<1>6. CASE Lost(c)
    <2>1. wait[c] \in Reqs /\ UNCHANGED <<docSeq, changes, lock, info, init, base, wrote>>
                           /\ wait' = [wait EXCEPT ![c] = None]
        BY <1>0, <1>6 DEF Lost, dbVars
    <2>2. CASE pc[wait[c]] \in {"done", "failed"}
        BY <1>3, <1>6, <2>1, <2>2 DEF Lost
    <2>3. CASE pc[wait[c]] \notin {"done", "failed"}
        <3>1. UNCHANGED <<pc, req, resp>>
            BY <1>6, <2>3 DEF Lost
        <3>2. LockInv' /\ WriterInv' /\ RowsInv'
            BY <2>1, <3>1 DEF LogInv, LockInv, WriterInv, RowsInv, HasChanges, Size
        <3>3. WaitInv'
            BY <2>1, <3>1 DEF LogInv, WaitInv, TypeOK
        <3> QED BY <2>1, <3>2, <3>3 DEF LogInv
    <2> QED BY <2>2, <2>3
<1>7. CASE Cancel(c)
    <2> DEFINE r == wait[c]
    <2>1. r \in Reqs /\ pc[r] # "idle" /\ req[r].client = c
        BY <1>0, <1>7 DEF Cancel
    <2>2. /\ Free(r)
          /\ wait' = [wait EXCEPT ![c] = None]
          /\ wrote' = [wrote EXCEPT ![r] = 0]
          /\ info' = [info EXCEPT ![r] = NoInfo]
          /\ init' = [init EXCEPT ![r] = 0]
          /\ base' = [base EXCEPT ![r] = 0]
          /\ lock' = IF lock = r THEN None ELSE lock
          /\ UNCHANGED <<docSeq, changes>>
        BY <1>7 DEF Cancel, dbVars
    <2> HIDE DEF r
    <2>3. LockInv'
        BY <2>1, <2>2 DEF LogInv, LockInv, HasChanges, Working, TypeOK, Free
    <2>4. WaitInv'
        <3> SUFFICES ASSUME NEW d \in Clients, wait'[d] # None
                     PROVE  pc'[wait'[d]] # "idle" /\ req'[wait'[d]].client = d
            BY DEF WaitInv
        <3>1. d # c /\ wait'[d] = wait[d] /\ wait[d] \in Reqs
            BY <2>2 DEF TypeOK
        <3>2. pc[wait[d]] # "idle" /\ req[wait[d]].client = d
            BY <3>1 DEF LogInv, WaitInv
        <3>3. wait[d] # r
            BY <2>1, <3>1, <3>2
        <3> QED BY <2>2, <3>1, <3>2, <3>3 DEF Free, TypeOK
    <2>5. WriterInv'
        <3> SUFFICES ASSUME NEW q \in Reqs PROVE WriterInv!(q)'
            BY DEF WriterInv
        <3>1. CASE q = r
            BY <2>1, <2>2, <3>1 DEF Free, TypeOK
        <3>2. CASE q # r
            BY <2>2, <3>2 DEF LogInv, WriterInv, Free, TypeOK, HasChanges, Size
        <3> QED BY <3>1, <3>2
    <2> QED BY <2>2, <2>3, <2>4, <2>5 DEF LogInv, RowsInv
<1> QED BY <1>1, <1>2, <1>4, <1>5, <1>6, <1>7 DEF ClientNext, Attach, Sync, Detach

\* The steps of a handler keep the invariant of the log, and the log.
LEMMA ReqLogInv ==
    ASSUME TypeOK, LogInv, NEW r \in Reqs, ReqNext(r)
    PROVE  LogInv' /\ LogStep
<1> USE NoneAssumption
<1>0. ASSUME UNCHANGED <<docSeq, changes>> PROVE LogStep
    BY <1>0 DEF LogStep, LogInv, RowsInv, TypeOK
<1>1. CASE FindClient(r)
    <2>1. /\ pc[r] = "recv" /\ pc' = [pc EXCEPT ![r] = "findDoc"]
          /\ HasChanges(r) => lock = None
          /\ lock' = IF HasChanges(r) THEN r ELSE lock
          /\ \E i : info' = [info EXCEPT ![r] = i]
          /\ UNCHANGED <<docSeq, changes, req, init, base, wrote, resp, wait>>
        BY <1>1 DEF FindClient, dbVars, clientVars
    <2>2. LockInv'
        BY <2>1 DEF LogInv, LockInv, HasChanges, Working, TypeOK
    <2>3. WaitInv'
        BY <2>1 DEF LogInv, WaitInv, TypeOK
    <2>4. WriterInv'
        <3> SUFFICES ASSUME NEW q \in Reqs PROVE WriterInv!(q)'
            BY DEF WriterInv
        <3>1. CASE q = r
            BY <2>1, <3>1 DEF LogInv, WriterInv, TypeOK
        <3>2. CASE q # r
            BY <2>1, <3>2 DEF LogInv, WriterInv, TypeOK, HasChanges, Size
        <3> QED BY <3>1, <3>2
    <2> QED BY <1>0, <2>1, <2>2, <2>3, <2>4 DEF LogInv, RowsInv
<1>2. CASE FindDoc(r)
    <2>1. CASE Admitted(r)
        <3>1. /\ pc[r] = "findDoc" /\ pc' = [pc EXCEPT ![r] = "pull"]
              /\ info' = [info EXCEPT ![r] = MarkedInfo(r)]
              /\ init' = [init EXCEPT ![r] = docSeq]
              /\ base' = [base EXCEPT ![r] = MaxOf(req[r].lo, MarkedInfo(r).clientSeq)]
              /\ UNCHANGED <<docSeq, changes, lock, req, wrote, resp, wait>>
            BY <1>2, <2>1 DEF FindDoc, PushedBase, dbVars, clientVars
        <3>2. LockInv'
            BY <3>1 DEF LogInv, LockInv, HasChanges, Working, TypeOK
        <3>3. WaitInv'
            BY <3>1 DEF LogInv, WaitInv, TypeOK
        <3>4. WriterInv'
            <4> SUFFICES ASSUME NEW q \in Reqs PROVE WriterInv!(q)'
                BY DEF WriterInv
            <4>1. CASE q = r
                BY <3>1, <4>1 DEF LogInv, WriterInv, TypeOK
            <4>2. CASE q # r
                BY <3>1, <4>2 DEF LogInv, WriterInv, TypeOK, HasChanges, Size
            <4> QED BY <4>1, <4>2
        <3> QED BY <1>0, <3>1, <3>2, <3>3, <3>4 DEF LogInv, RowsInv
    <2>2. CASE ~Admitted(r)
        <3>1. pc[r] \in Working /\ Return(r, "failed", NoResp) /\ UNCHANGED <<docSeq, changes, wait>>
            BY <1>2, <2>2 DEF FindDoc, PushedBase, Fail, Working, dbVars, clientVars
        <3> QED BY <1>0, <3>1, ReturnLogInv, DefaultTypes
    <2> QED BY <2>1, <2>2
<1>3. CASE Pull(r)
    <2>1. CASE init[r] < req[r].serverSeq
        <3>1. pc[r] \in Working /\ Return(r, "failed", NoResp) /\ UNCHANGED <<docSeq, changes, wait>>
            BY <1>3, <2>1 DEF Pull, Fail, Working, dbVars, clientVars
        <3> QED BY <1>0, <3>1, ReturnLogInv, DefaultTypes
    <2>2. CASE ~(init[r] < req[r].serverSeq)
        <3>1. /\ pc[r] = "pull" /\ pc' = [pc EXCEPT ![r] = IF Size(r) > 0 THEN "store" ELSE "client"]
              /\ resp' = [resp EXCEPT ![r] = PulledPack(r)]
              /\ info' = [info EXCEPT ![r].serverSeq = PulledCP(r).serverSeq,
                                      ![r].clientSeq = PulledCP(r).clientSeq]
              /\ UNCHANGED <<docSeq, changes, lock, req, init, base, wrote, wait>>
            BY <1>3, <2>2 DEF Pull, dbVars, clientVars
        <3>2. LockInv'
            BY <3>1 DEF LogInv, LockInv, HasChanges, Working, TypeOK
        <3>3. WaitInv'
            BY <3>1 DEF LogInv, WaitInv, TypeOK
        <3>4. WriterInv'
            <4> SUFFICES ASSUME NEW q \in Reqs PROVE WriterInv!(q)'
                BY DEF WriterInv
            <4>1. CASE q = r
                <5>1. /\ req[r] \in Request /\ info[r] \in ClientDocInfo /\ base[r] \in Nat
                      /\ base[r] = MaxOf(req[r].lo, info[r].clientSeq) /\ wrote[r] = 0
                      /\ HasChanges(r) => init[r] = docSeq
                    BY <3>1 DEF LogInv, WriterInv, TypeOK
                <5>2. CASE Size(r) > 0
                    <6>1. req[r].lo <= base[r] /\ info[r].clientSeq <= base[r] /\ base[r] < req[r].hi
                        BY <5>1, <5>2, MaxMinFacts DEF Size, Request, ClientDocInfo
                    <6>2. HasChanges(r) /\ PulledCP(r).clientSeq = req[r].hi
                        BY <5>1, <6>1 DEF PulledCP, HasChanges, MaxOf, Request, ClientDocInfo
                    <6>3. PulledPack(r).cp = PulledCP(r)
                        BY DEF PulledPack
                    <6>4. info'[r].clientSeq = req[r].hi /\ resp'[r].cp.clientSeq = req[r].hi
                        BY <3>1, <5>1, <6>2, <6>3 DEF TypeOK, ClientDocInfo
                    <6>5. pc'[r] = "store" /\ Size(r)' = Size(r) /\ wrote'[r] = 0
                        BY <3>1, <5>1, <5>2 DEF TypeOK, Size
                    <6>6. 1 .. wrote'[r] = {} /\ wrote'[r] <= Size(r)'
                        BY <5>2, <6>5, SizeType
                    <6>7. req' = req /\ init' = init /\ base' = base /\ docSeq' = docSeq
                        BY <3>1
                    <6> QED BY <4>1, <5>1, <6>1, <6>2, <6>4, <6>5, <6>6, <6>7 DEF HasChanges
                <5>3. CASE ~(Size(r) > 0)
                    BY <3>1, <4>1, <5>3 DEF TypeOK
                <5> QED BY <5>2, <5>3
            <4>2. CASE q # r
                BY <3>1, <4>2 DEF LogInv, WriterInv, TypeOK, HasChanges, Size
            <4> QED BY <4>1, <4>2
        <3> QED BY <1>0, <3>1, <3>2, <3>3, <3>4 DEF LogInv, RowsInv
    <2> QED BY <2>1, <2>2
<1>4. CASE StoreChange(r)
    <2> DEFINE s == init[r] + wrote[r] + 1
               c == [actor |-> req[r].client, clientSeq |-> base[r] + wrote[r] + 1]
    <2>1. /\ pc[r] = "store" /\ wrote[r] < Size(r)
          /\ changes' = [t \in DOMAIN changes \cup {s} |-> IF t = s THEN c ELSE changes[t]]
          /\ wrote' = [wrote EXCEPT ![r] = @ + 1]
          /\ UNCHANGED <<docSeq, lock, pc, req, info, init, base, resp, wait>>
        BY <1>4 DEF StoreChange, clientVars
    <2>2. HasChanges(r) /\ init[r] = docSeq /\ lock = r
        BY <2>1 DEF LogInv, WriterInv, LockInv, Working, HasChanges, TypeOK, Request
    <2>3. init[r] \in Nat /\ wrote[r] \in Nat /\ base[r] \in Nat /\ docSeq \in Nat /\ Size(r) \in Nat
        BY SizeType DEF TypeOK
    <2>4. LogStep
        BY <2>1, <2>2, <2>3 DEF LogStep, LogInv, RowsInv
    <2>5. LockInv' /\ WaitInv' /\ RowsInv'
        BY <2>1, <2>2, <2>3 DEF LogInv, LockInv, WaitInv, RowsInv, HasChanges, Working
    <2>6. WriterInv'
        <3> SUFFICES ASSUME NEW q \in Reqs PROVE WriterInv!(q)'
            BY DEF WriterInv
        <3>1. CASE q = r
            <4>1. wrote'[r] = wrote[r] + 1 /\ Size(r)' = Size(r)
                BY <2>1 DEF TypeOK, Size
            <4>2. \A j \in 1 .. wrote[r] + 1 :
                    /\ init[r] + j \in DOMAIN changes'
                    /\ changes'[init[r] + j] = [actor |-> req[r].client, clientSeq |-> base[r] + j]
                <5> SUFFICES ASSUME NEW j \in 1 .. wrote[r] + 1
                             PROVE  /\ init[r] + j \in DOMAIN changes'
                                    /\ changes'[init[r] + j]
                                        = [actor |-> req[r].client, clientSeq |-> base[r] + j]
                    OBVIOUS
                <5>1. CASE j = wrote[r] + 1
                    BY <2>1, <2>3, <5>1
                <5>2. CASE j \in 1 .. wrote[r]
                    <6>1. /\ init[r] + j \in DOMAIN changes
                          /\ changes[init[r] + j] = [actor |-> req[r].client, clientSeq |-> base[r] + j]
                        BY <2>1, <5>2 DEF LogInv, WriterInv
                    <6>2. init[r] + j # s
                        BY <2>3, <5>2
                    <6> HIDE DEF s, c
                    <6> QED BY <2>1, <6>1, <6>2
                <5> QED BY <2>3, <5>1, <5>2
            <4>3. wrote[r] + 1 <= Size(r)
                BY <2>1, <2>3
            <4> HIDE DEF s, c
            <4> QED BY <2>1, <2>2, <3>1, <4>1, <4>2, <4>3 DEF LogInv, WriterInv, HasChanges
        <3>2. CASE q # r
            <4>1. pc[q] # "store"
                BY <2>2, <3>2 DEF LogInv, LockInv, WriterInv, Working, HasChanges, TypeOK, Request
            <4> QED BY <2>1, <3>2, <4>1 DEF LogInv, WriterInv, TypeOK, HasChanges
        <3> QED BY <3>1, <3>2
    <2> QED BY <2>4, <2>5, <2>6 DEF LogInv
<1>5. CASE UpdateDoc(r)
    <2>1. pc[r] = "store" /\ wrote[r] = Size(r)
        BY <1>5 DEF UpdateDoc
    <2>2. HasChanges(r) /\ init[r] = docSeq /\ lock = r
        BY <2>1 DEF LogInv, WriterInv, LockInv, Working, HasChanges, TypeOK, Request
    <2>3. /\ docSeq' = docSeq + Size(r)
          /\ pc' = [pc EXCEPT ![r] = "client"]
          /\ UNCHANGED <<changes, lock, req, info, init, base, wrote, resp, wait>>
        BY <1>5, <2>2 DEF UpdateDoc, ServerSeq, clientVars
    <2>4. Size(r) \in Nat /\ docSeq \in Nat
        BY SizeType DEF TypeOK
    <2>5. RowsInv'
        <3> SUFFICES ASSUME NEW s \in 1 .. docSeq + Size(r) PROVE s \in DOMAIN changes
            BY <2>3 DEF RowsInv
        <3>1. CASE s <= docSeq
            BY <2>4, <3>1 DEF LogInv, RowsInv
        <3>2. CASE s > docSeq
            <4>1. s - docSeq \in 1 .. wrote[r] /\ init[r] + (s - docSeq) = s
                BY <2>1, <2>2, <2>4, <3>2
            <4> QED BY <2>1, <4>1 DEF LogInv, WriterInv
        <3> QED BY <2>4, <3>1, <3>2
    <2>6. LogStep
        BY <2>3, <2>4 DEF LogStep, LogInv, RowsInv
    <2>7. LockInv' /\ WaitInv'
        BY <2>1, <2>3 DEF LogInv, LockInv, WaitInv, HasChanges, Working, TypeOK
    <2>8. WriterInv'
        <3> SUFFICES ASSUME NEW q \in Reqs PROVE WriterInv!(q)'
            BY DEF WriterInv
        <3>1. CASE q = r
            BY <2>3, <3>1 DEF TypeOK
        <3>2. CASE q # r
            <4>1. pc[q] \in {"pull", "store"} => ~HasChanges(q)
                BY <2>2, <3>2 DEF LogInv, LockInv, Working
            <4>2. pc[q] # "store"
                BY <4>1 DEF LogInv, WriterInv, HasChanges, TypeOK, Request
            <4> QED BY <2>3, <3>2, <4>1, <4>2 DEF LogInv, WriterInv, TypeOK, HasChanges
        <3> QED BY <3>1, <3>2
    <2> QED BY <2>5, <2>6, <2>7, <2>8 DEF LogInv
<1>6. ASSUME NEW p \in {"synced", "min"}, pc[r] \in {"client", "synced"},
             pc' = [pc EXCEPT ![r] = p],
             UNCHANGED <<docSeq, changes, lock, req, info, init, base, wrote, resp, wait>>
      PROVE  LogInv'
    <2>1. LockInv' /\ WaitInv' /\ RowsInv'
        BY <1>6 DEF LogInv, LockInv, WaitInv, RowsInv, HasChanges, Working, TypeOK
    <2>2. WriterInv'
        BY <1>6 DEF LogInv, WriterInv, HasChanges, Size, TypeOK
    <2> QED BY <2>1, <2>2 DEF LogInv
<1>7. CASE UpdateClient(r)
    BY <1>0, <1>6, <1>7 DEF UpdateClient, clientVars
<1>8. CASE UpdateSynced(r)
    BY <1>0, <1>6, <1>8 DEF UpdateSynced, clientVars
<1>9. CASE FindMin(r)
    <2>1. /\ pc[r] \in Working /\ Return(r, "done", [resp[r] EXCEPT !.min = MinSyncedSeq])
          /\ UNCHANGED <<docSeq, changes, wait>>
        BY <1>9 DEF FindMin, Working, dbVars, clientVars
    <2>2. [resp[r] EXCEPT !.min = MinSyncedSeq] \in Response
        <3>1. resp[r] \in Response
            BY DEF TypeOK
        <3> QED BY <3>1, MinSyncedSeqType DEF Response
    <2> QED BY <1>0, <2>1, <2>2, ReturnLogInv
<1>10. CASE DBError(r)
    <2>1. pc[r] \in Working /\ Return(r, "failed", NoResp) /\ UNCHANGED <<docSeq, changes, wait>>
        BY <1>10 DEF DBError, Fail, dbVars, clientVars
    <2> QED BY <1>0, <2>1, ReturnLogInv, DefaultTypes
<1>11. CASE JobRead(r) \/ JobStore(r) \/ JobError(r)
    <2>1. UNCHANGED <<docSeq, changes, lock, handlerVars, wait>>
        BY <1>11 DEF JobRead, JobStore, JobError, dbVars, clientVars
    <2> QED BY <1>0, <2>1 DEF LogInv, LockInv, WaitInv, WriterInv, RowsInv, HasChanges, Size, handlerVars
<1> QED BY <1>1, <1>2, <1>3, <1>4, <1>5, <1>7, <1>8, <1>9, <1>10, <1>11 DEF ReqNext, HandlerStep

\* Every step keeps the invariant of the log, and the log.
LEMMA LogInvStep ==
    ASSUME TypeOK, LogInv, [Next]_vars
    PROVE  LogInv' /\ LogStep
<1>0. ASSUME UNCHANGED <<docSeq, changes>> PROVE LogStep
    BY <1>0 DEF LogStep, LogInv, RowsInv, TypeOK
<1>1. CASE UNCHANGED vars
    BY <1>0, <1>1 DEF vars, dbVars, handlerVars, clientVars, LogInv, LockInv, WaitInv,
                      WriterInv, RowsInv, HasChanges, Size
<1>2. CASE Crash
    <2>1. /\ pc' = [r \in Reqs |-> IF pc[r] # "idle" /\ Waited(r) THEN "failed" ELSE "idle"]
          /\ req' = [r \in Reqs |-> IF pc[r] # "idle" /\ Waited(r) THEN req[r] ELSE NoRequest]
          /\ wrote' = [r \in Reqs |-> 0]
          /\ lock' = None
          /\ UNCHANGED <<docSeq, changes, wait>>
        BY <1>2 DEF Crash, dbVars, clientVars
    <2>2. LockInv' /\ WriterInv' /\ RowsInv'
        BY <2>1, NoneAssumption DEF LogInv, LockInv, WriterInv, RowsInv, Working
    <2>3. WaitInv'
        BY <2>1 DEF LogInv, WaitInv, Waited, TypeOK
    <2> QED BY <1>0, <2>1, <2>2, <2>3 DEF LogInv
<1> QED BY <1>0, <1>1, <1>2, ClientLogInv, ReqLogInv DEF Next

\* In the initial states there is no log, no lock and no request.
LEMMA LogInvInit == Init => LogInv
BY NoneAssumption DEF Init, LogInv, LockInv, WaitInv, WriterInv, RowsInv, Working

\* The log is append-only (the property LogStable), for any number of clients
\* and requests and whatever calls are lost or cancelled and agents crash.
THEOREM LogIsStable == Spec => LogStable
<1>1. Init => TypeOK /\ LogInv
    BY LogInvInit, DefaultTypes, EmptyRootType DEF Init, TypeOK, NoRow
<1>2. TypeOK /\ LogInv /\ [Next]_vars => (TypeOK /\ LogInv)'
    BY TypeStep, LogInvStep
<1>3. TypeOK /\ LogInv /\ [Next]_vars => [LogStep]_vars
    BY LogInvStep
<1>4. Spec => [][LogStep]_vars
    BY <1>1, <1>2, <1>3, PTL DEF Spec
<1> QED BY <1>4 DEF LogStable, LogStep

-----------------------------------------------------------------------------
(***************************************************************************)
(* Acknowledged changes                                                    *)
(***************************************************************************)

\* A change that is in the log stays there.
LEMMA StoredStable ==
    ASSUME TypeOK, TypeOK', LogStep, NEW c, NEW n, Stored(c, n)
    PROVE  Stored(c, n)'
<1> SUFFICES ASSUME NEW k \in 1 .. n
             PROVE  \E s \in DOMAIN changes' :
                        s <= docSeq' /\ changes'[s] = [actor |-> c, clientSeq |-> k]
    BY DEF Stored
<1>1. PICK s \in DOMAIN changes : s <= docSeq /\ changes[s] = [actor |-> c, clientSeq |-> k]
    BY DEF Stored
<1>2. s \in 1 .. docSeq
    BY <1>1 DEF TypeOK
<1>3. s \in DOMAIN changes' /\ changes'[s] = changes[s] /\ docSeq <= docSeq'
    BY <1>2 DEF LogStep
<1>4. s <= docSeq'
    BY <1>2, <1>3 DEF TypeOK
<1> QED BY <1>1, <1>3, <1>4

\* The first m of n stored changes are stored; so is the greater of two seqs.
LEMMA StoredMax ==
    ASSUME NEW c, NEW a \in Nat, NEW b \in Nat, Stored(c, a), Stored(c, b)
    PROVE  Stored(c, MaxOf(a, b)) /\ Stored(c, MinOf(a, b))
BY DEF MaxOf, MinOf

\* The same for a seq that is only known to be at most a stored one.
LEMMA StoredBelow ==
    ASSUME NEW c, NEW a \in Nat, NEW b \in Nat, b <= a, Stored(c, a)
    PROVE  Stored(c, b)
<1>1. 1 .. b \subseteq 1 .. a
    OBVIOUS
<1> QED BY <1>1 DEF Stored

\* A handler that returns leaves nothing but the client seq of its response.
LEMMA ReturnStored ==
    ASSUME TypeOK, StoredInv, \A c, n : Stored(c, n) => Stored(c, n)',
           NEW r \in Reqs, pc[r] \in Working, NEW o \in {"done", "failed"}, NEW p \in Response,
           Return(r, o, p), UNCHANGED <<clientInfos, doc>>,
           o = "done" => Stored(req[r].client, p.cp.clientSeq)
    PROVE  StoredInv'
<1>1. ASSUME NEW c \in Clients
      PROVE  Stored(c, clientInfos[c].clientSeq)' /\ Stored(c, doc[c].acked)'
    BY DEF StoredInv
<1>2. ASSUME NEW q \in Reqs PROVE StoredInv!2!(q)'
    <2>1. CASE q = r
        <3>1. Stored(req[r].client, req[r].lo)
            BY DEF StoredInv, Working
        <3>2. pc'[r] \in {o, "idle"} /\ (pc'[r] # "idle" => req'[r] = req[r] /\ resp'[r] = p)
            BY DEF Return, TypeOK
        <3> QED BY <2>1, <3>1, <3>2
    <2>2. CASE q # r
        <3>1. pc'[q] = pc[q] /\ req'[q] = req[q] /\ info'[q] = info[q] /\ base'[q] = base[q] /\ resp'[q] = resp[q]
            BY <2>2 DEF Return, TypeOK
        <3> QED BY <3>1 DEF StoredInv
    <2> QED BY <2>1, <2>2
<1> QED BY <1>1, <1>2 DEF StoredInv

\* The steps of a client keep the stored prefixes.
LEMMA ClientStored ==
    ASSUME TypeOK, LogInv, StoredInv, \A c, n : Stored(c, n) => Stored(c, n)',
           NEW c \in Clients, ClientNext(c)
    PROVE  StoredInv'
<1>0. wait[c] # None => wait[c] \in Reqs /\ pc[wait[c]] # "idle" /\ req[wait[c]].client = c
    BY DEF TypeOK, LogInv, WaitInv
<1>1. CASE Update(c)
    <2>1. \A d \in Clients : doc'[d].acked = doc[d].acked
        BY <1>1 DEF Update, TypeOK
    <2>2. UNCHANGED <<clientInfos, handlerVars>>
        BY <1>1 DEF Update, dbVars
    <2> QED BY <2>1, <2>2 DEF StoredInv, handlerVars
<1>2. ASSUME NEW m \in Methods, Call(c, m) PROVE StoredInv'
    <2>1. PICK r \in Reqs :
            /\ pc[r] = "idle"
            /\ pc' = [pc EXCEPT ![r] = "recv"]
            /\ req' = [req EXCEPT ![r] =
                        [client |-> c, method |-> m, serverSeq |-> doc[c].cp.serverSeq,
                         lo |-> doc[c].acked, hi |-> doc[c].seq]]
        BY <1>2 DEF Call
    <2>2. UNCHANGED <<clientInfos, info, base, resp, doc>>
        BY <1>2 DEF Call, dbVars
    <2>3. ASSUME NEW q \in Reqs PROVE StoredInv!2!(q)'
        <3>1. CASE q = r
            <4>1. pc'[r] = "recv" /\ req'[r].client = c /\ req'[r].lo = doc[c].acked
                BY <2>1 DEF TypeOK
            <4> QED BY <3>1, <4>1 DEF StoredInv
        <3>2. CASE q # r
            <4>1. pc'[q] = pc[q] /\ req'[q] = req[q]
                BY <2>1, <3>2 DEF TypeOK
            <4> QED BY <2>2, <4>1 DEF StoredInv
        <3> QED BY <3>1, <3>2
    <2> QED BY <2>2, <2>3 DEF StoredInv
<1>3. ASSUME NEW r \in Reqs, Free(r), UNCHANGED clientInfos,
             \A q \in Reqs \ {r} : info'[q] = info[q] /\ base'[q] = base[q],
             \A d \in Clients : Stored(d, doc[d].acked)'
      PROVE  StoredInv'
    <2>1. ASSUME NEW q \in Reqs PROVE StoredInv!2!(q)'
        <3>1. CASE q = r
            BY <1>3, <3>1 DEF Free, TypeOK
        <3>2. CASE q # r
            <4>1. pc'[q] = pc[q] /\ req'[q] = req[q] /\ resp'[q] = resp[q]
                BY <1>3, <3>2 DEF Free, TypeOK
            <4> QED BY <1>3, <3>2, <4>1 DEF StoredInv
        <3> QED BY <3>1, <3>2
    <2>2. ASSUME NEW d \in Clients PROVE Stored(d, clientInfos[d].clientSeq)'
        BY <1>3 DEF StoredInv
    <2> QED BY <1>3, <2>1, <2>2 DEF StoredInv
<1>4. CASE Receive(c)
    <2> DEFINE r == wait[c]
    <2>1. r \in Reqs /\ req[r].client = c /\ pc[r] = "done"
        BY <1>0, <1>4 DEF Receive
    <2>2. Stored(c, resp[r].cp.clientSeq)
        BY <2>1 DEF StoredInv
    <2>3. doc[c].acked \in Nat /\ doc[c].seq \in Nat /\ resp[r].cp.clientSeq \in Nat
        BY <2>1 DEF TypeOK, Response, Checkpoint
    <2>4. Stored(c, MaxOf(doc[c].acked, MinOf(doc[c].seq, resp[r].cp.clientSeq)))
        <3>1. Stored(c, MinOf(doc[c].seq, resp[r].cp.clientSeq))
            BY <2>2, <2>3, MaxMinFacts, StoredBelow
        <3>2. Stored(c, doc[c].acked)
            BY DEF StoredInv
        <3> QED BY <2>3, <3>1, <3>2, MaxMinFacts, StoredMax
    <2>5. doc'[c].acked = MaxOf(doc[c].acked, MinOf(doc[c].seq, resp[r].cp.clientSeq))
        BY <1>4 DEF Receive, AppliedDoc, TypeOK
    <2>6. \A d \in Clients \ {c} : doc'[d] = doc[d]
        BY <1>4 DEF Receive, TypeOK
    <2>7. \A d \in Clients : Stored(d, doc[d].acked)'
        BY <2>4, <2>5, <2>6 DEF StoredInv
    <2>8. Free(r) /\ UNCHANGED <<clientInfos, info, base>>
        BY <1>4 DEF Receive, dbVars
    <2> QED BY <1>3, <2>1, <2>7, <2>8
<1>5. ASSUME UNCHANGED doc PROVE \A d \in Clients : Stored(d, doc[d].acked)'
    BY <1>5 DEF StoredInv
<1>6. CASE ReceiveError(c)
    <2>1. wait[c] \in Reqs /\ Free(wait[c]) /\ UNCHANGED <<clientInfos, info, base, doc>>
        BY <1>0, <1>6 DEF ReceiveError, dbVars
    <2> QED BY <1>3, <1>5, <2>1
<1>7. CASE Lost(c)
    <2>1. wait[c] \in Reqs /\ UNCHANGED <<clientInfos, info, base, doc>>
        BY <1>0, <1>7 DEF Lost, dbVars
    <2>2. CASE pc[wait[c]] \in {"done", "failed"}
        <3>1. Free(wait[c])
            BY <1>7, <2>2 DEF Lost
        <3> QED BY <1>3, <1>5, <2>1, <3>1
    <2>3. CASE pc[wait[c]] \notin {"done", "failed"}
        <3>1. UNCHANGED <<pc, req, resp>>
            BY <1>7, <2>3 DEF Lost
        <3> QED BY <2>1, <3>1 DEF StoredInv
    <2> QED BY <2>2, <2>3
<1>8. CASE Cancel(c)
    <2>1. /\ wait[c] \in Reqs /\ Free(wait[c]) /\ UNCHANGED <<clientInfos, doc>>
          /\ \A q \in Reqs \ {wait[c]} : info'[q] = info[q] /\ base'[q] = base[q]
        BY <1>0, <1>8 DEF Cancel, dbVars, TypeOK
    <2> QED BY <1>3, <1>5, <2>1
<1> QED BY <1>1, <1>2, <1>4, <1>6, <1>7, <1>8 DEF ClientNext, Attach, Sync, Detach

\* The steps of a handler keep the stored prefixes.
LEMMA ReqStored ==
    ASSUME TypeOK, LogInv, StoredInv, \A c, n : Stored(c, n) => Stored(c, n)',
           NEW r \in Reqs, ReqNext(r)
    PROVE  StoredInv'
<1>0. req[r] \in Request /\ info[r] \in ClientDocInfo /\ base[r] \in Nat /\ resp[r] \in Response
    BY DEF TypeOK
<1>1. ASSUME \A c \in Clients : Stored(c, clientInfos[c].clientSeq)',
             UNCHANGED <<doc, req>>,
             \A q \in Reqs \ {r} : pc'[q] = pc[q] /\ info'[q] = info[q] /\ base'[q] = base[q]
                                                  /\ resp'[q] = resp[q],
             StoredInv!2!(r)'
      PROVE  StoredInv'
    BY <1>1 DEF StoredInv
<1>2. ASSUME UNCHANGED clientInfos PROVE \A c \in Clients : Stored(c, clientInfos[c].clientSeq)'
    BY <1>2 DEF StoredInv
<1>3. CASE FindClient(r)
    <2>1. /\ pc[r] = "recv" /\ pc'[r] = "findDoc" /\ info'[r] = clientInfos[req[r].client]
          /\ UNCHANGED <<doc, req, clientInfos, base, resp>>
          /\ \A q \in Reqs \ {r} : pc'[q] = pc[q] /\ info'[q] = info[q]
        BY <1>3 DEF FindClient, dbVars, clientVars, TypeOK
    <2>2. req[r].client \in Clients
        BY <2>1 DEF TypeOK
    <2>3. StoredInv!2!(r)'
        BY <2>1, <2>2 DEF StoredInv
    <2> QED BY <1>1, <1>2, <2>1, <2>3
<1>4. CASE FindDoc(r)
    <2>1. CASE Admitted(r)
        <3>1. /\ pc[r] = "findDoc" /\ pc'[r] = "pull" /\ info'[r] = MarkedInfo(r)
              /\ UNCHANGED <<doc, req, clientInfos, resp>>
              /\ \A q \in Reqs \ {r} : pc'[q] = pc[q] /\ info'[q] = info[q] /\ base'[q] = base[q]
            BY <1>4, <2>1 DEF FindDoc, PushedBase, dbVars, clientVars, TypeOK
        <3>2. MarkedInfo(r).clientSeq = info[r].clientSeq \/ MarkedInfo(r).clientSeq = 0
            BY DEF MarkedInfo
        <3>3. Stored(req[r].client, MarkedInfo(r).clientSeq)
            <4>1. Stored(req[r].client, 0)
                BY DEF Stored
            <4> QED BY <3>1, <3>2, <4>1 DEF StoredInv
        <3>4. StoredInv!2!(r)'
            BY <3>1, <3>3 DEF StoredInv
        <3> QED BY <1>1, <1>2, <3>1, <3>4
    <2>2. CASE ~Admitted(r)
        <3>1. pc[r] \in Working /\ Return(r, "failed", NoResp) /\ UNCHANGED <<clientInfos, doc>>
            BY <1>4, <2>2 DEF FindDoc, PushedBase, Fail, Working, dbVars, clientVars
        <3> QED BY <3>1, ReturnStored, DefaultTypes
    <2> QED BY <2>1, <2>2
<1>5. CASE Pull(r)
    <2>1. CASE init[r] < req[r].serverSeq
        <3>1. pc[r] \in Working /\ Return(r, "failed", NoResp) /\ UNCHANGED <<clientInfos, doc>>
            BY <1>5, <2>1 DEF Pull, Fail, Working, dbVars, clientVars
        <3> QED BY <3>1, ReturnStored, DefaultTypes
    <2>2. CASE ~(init[r] < req[r].serverSeq)
        <3>1. /\ pc[r] = "pull" /\ pc'[r] = IF Size(r) > 0 THEN "store" ELSE "client"
              /\ resp'[r] = PulledPack(r)
              /\ info'[r].clientSeq = PulledCP(r).clientSeq
              /\ UNCHANGED <<doc, req, clientInfos, base>>
              /\ \A q \in Reqs \ {r} : pc'[q] = pc[q] /\ info'[q] = info[q] /\ resp'[q] = resp[q]
            BY <1>5, <2>2, <1>0 DEF Pull, dbVars, clientVars, TypeOK, ClientDocInfo
        <3>2. resp'[r].cp = PulledCP(r)
            BY <3>1 DEF PulledPack
        <3>3. base[r] = MaxOf(req[r].lo, info[r].clientSeq)
            BY <3>1 DEF LogInv, WriterInv
        <3>4. Stored(req[r].client, req[r].lo) /\ Stored(req[r].client, info[r].clientSeq)
            BY <3>1 DEF StoredInv
        <3>5. Stored(req[r].client, base[r])
            BY <1>0, <3>3, <3>4, StoredMax DEF Request, ClientDocInfo
        <3>6. ~(Size(r) > 0) => PulledCP(r).clientSeq = info[r].clientSeq
            BY <1>0, <3>3 DEF Size, PulledCP, HasChanges, MaxOf, Request, ClientDocInfo
        <3>7. StoredInv!2!(r)'
            BY <3>1, <3>2, <3>4, <3>5, <3>6
        <3> QED BY <1>1, <1>2, <3>1, <3>7
    <2> QED BY <2>1, <2>2
<1>6. CASE StoreChange(r)
    <2>1. UNCHANGED <<doc, req, clientInfos, pc, info, base, resp>>
        BY <1>6 DEF StoreChange, clientVars
    <2> QED BY <2>1 DEF StoredInv
<1>7. CASE UpdateDoc(r)
    <2>1. pc[r] = "store" /\ wrote[r] = Size(r)
        BY <1>7 DEF UpdateDoc
    <2>2. init[r] = docSeq /\ base[r] < req[r].hi
        BY <2>1 DEF LogInv, WriterInv, HasChanges, TypeOK, Request
    <2>3. /\ docSeq' = docSeq + Size(r) /\ pc'[r] = "client"
          /\ UNCHANGED <<changes, doc, req, clientInfos, info, base, resp>>
          /\ \A q \in Reqs \ {r} : pc'[q] = pc[q]
        BY <1>7, <2>2 DEF UpdateDoc, ServerSeq, clientVars, TypeOK
    <2>4. Size(r) = req[r].hi - base[r] /\ docSeq \in Nat /\ req[r].hi \in Nat
        BY <1>0, <2>2 DEF Size, TypeOK, Request
    <2>5. Stored(req[r].client, req[r].hi)'
        <3> SUFFICES ASSUME NEW k \in 1 .. req[r].hi
                     PROVE  \E s \in DOMAIN changes :
                                s <= docSeq' /\ changes[s] = [actor |-> req[r].client, clientSeq |-> k]
            BY <2>3 DEF Stored
        <3>1. CASE k <= base[r]
            <4>1. Stored(req[r].client, base[r])
                BY <2>1 DEF StoredInv
            <4>2. PICK s \in DOMAIN changes :
                    s <= docSeq /\ changes[s] = [actor |-> req[r].client, clientSeq |-> k]
                BY <1>0, <3>1, <4>1 DEF Stored
            <4>3. s <= docSeq'
                BY <1>0, <2>2, <2>3, <2>4, <4>2 DEF TypeOK
            <4> QED BY <4>2, <4>3
        <3>2. CASE k > base[r]
            <4> DEFINE j == k - base[r]
            <4>1. j \in 1 .. wrote[r] /\ base[r] + j = k /\ init[r] + j <= docSeq'
                BY <1>0, <2>1, <2>2, <2>3, <2>4, <3>2
            <4>2. /\ init[r] + j \in DOMAIN changes
                  /\ changes[init[r] + j] = [actor |-> req[r].client, clientSeq |-> base[r] + j]
                BY <2>1, <4>1 DEF LogInv, WriterInv
            <4> HIDE DEF j
            <4> QED BY <4>1, <4>2
        <3> QED BY <1>0, <3>1, <3>2
    <2>6. info[r].clientSeq = req[r].hi /\ resp[r].cp.clientSeq = req[r].hi
        BY <2>1 DEF LogInv, WriterInv
    <2>7. StoredInv!2!(r)'
        BY <2>1, <2>3, <2>5, <2>6 DEF StoredInv
    <2> QED BY <1>1, <1>2, <2>3, <2>7
<1>8. CASE UpdateClient(r)
    <2>1. /\ pc[r] = "client" /\ pc'[r] = "synced"
          /\ clientInfos' = [clientInfos EXCEPT ![req[r].client] = StoredInfo(r)]
          /\ UNCHANGED <<doc, req, info, base, resp>>
          /\ \A q \in Reqs \ {r} : pc'[q] = pc[q]
        BY <1>8 DEF UpdateClient, clientVars, TypeOK
    <2>2. req[r].client \in Clients /\ clientInfos[req[r].client] \in ClientDocInfo
        BY <2>1 DEF TypeOK
    <2>3. Stored(req[r].client, StoredInfo(r).clientSeq)
        <3>1. Stored(req[r].client, MaxOf(clientInfos[req[r].client].clientSeq, info[r].clientSeq))
            BY <1>0, <2>1, <2>2, StoredMax DEF StoredInv, ClientDocInfo
        <3>2. Stored(req[r].client, 0)
            BY DEF Stored
        <3> QED BY <3>1, <3>2 DEF StoredInfo
    <2>4. \A c \in Clients : Stored(c, clientInfos[c].clientSeq)'
        BY <2>1, <2>2, <2>3 DEF StoredInv, TypeOK
    <2>5. StoredInv!2!(r)'
        BY <2>1 DEF StoredInv
    <2> QED BY <1>1, <2>1, <2>4, <2>5
<1>9. CASE UpdateSynced(r)
    <2>1. /\ pc[r] = "synced" /\ pc'[r] = "min"
          /\ UNCHANGED <<doc, req, clientInfos, info, base, resp>>
          /\ \A q \in Reqs \ {r} : pc'[q] = pc[q]
        BY <1>9 DEF UpdateSynced, clientVars, TypeOK
    <2>2. StoredInv!2!(r)'
        BY <2>1 DEF StoredInv
    <2> QED BY <1>1, <1>2, <2>1, <2>2
<1>10. CASE FindMin(r)
    <2> DEFINE p == [resp[r] EXCEPT !.min = MinSyncedSeq]
    <2>1. pc[r] = "min" /\ Return(r, "done", p) /\ UNCHANGED <<clientInfos, doc>>
        BY <1>10 DEF FindMin, dbVars, clientVars
    <2>2. p \in Response /\ p.cp = resp[r].cp
        BY <1>0, MinSyncedSeqType DEF Response
    <2>3. Stored(req[r].client, p.cp.clientSeq)
        BY <2>1, <2>2 DEF StoredInv
    <2>4. pc[r] \in Working
        BY <2>1 DEF Working
    <2> HIDE DEF p
    <2> QED BY <2>1, <2>2, <2>3, <2>4, ReturnStored
<1>11. CASE DBError(r)
    <2>1. pc[r] \in Working /\ Return(r, "failed", NoResp) /\ UNCHANGED <<clientInfos, doc>>
        BY <1>11 DEF DBError, Fail, dbVars, clientVars
    <2> QED BY <2>1, ReturnStored, DefaultTypes
<1>12. CASE JobRead(r) \/ JobStore(r) \/ JobError(r)
    <2>1. UNCHANGED <<doc, clientInfos, handlerVars>>
        BY <1>12 DEF JobRead, JobStore, JobError, dbVars, clientVars
    <2> QED BY <2>1 DEF StoredInv, handlerVars
<1> QED BY <1>3, <1>4, <1>5, <1>6, <1>7, <1>8, <1>9, <1>10, <1>11, <1>12 DEF ReqNext, HandlerStep

\* Every step keeps the inductive invariant.
LEMMA IndInvStep ==
    ASSUME IndInv, [Next]_vars
    PROVE  IndInv'
<1>0. TypeOK /\ LogInv /\ StoredInv
    BY DEF IndInv
<1>1. TypeOK' /\ LogInv' /\ LogStep
    BY <1>0, TypeStep, LogInvStep
<1>2. \A c, n : Stored(c, n) => Stored(c, n)'
    BY <1>0, <1>1, StoredStable
<1>3. StoredInv'
    <2>1. CASE UNCHANGED vars
        BY <1>0, <1>2, <2>1 DEF StoredInv, vars, dbVars, handlerVars, clientVars
    <2>2. CASE Crash
        <3>1. /\ \A r \in Reqs : pc'[r] \in {"idle", "failed"}
              /\ \A r \in Reqs : pc'[r] # "idle" => pc[r] # "idle" /\ req'[r] = req[r]
              /\ UNCHANGED <<clientInfos, doc>>
            BY <2>2 DEF Crash, dbVars, clientVars
        <3> QED BY <1>0, <1>2, <3>1 DEF StoredInv
    <2> QED BY <1>0, <1>2, <2>1, <2>2, ClientStored, ReqStored DEF Next
<1> QED BY <1>1, <1>3 DEF IndInv

\* The inductive invariant holds in every reachable state.
THEOREM Invariance == Spec => []IndInv
<1>1. Init => IndInv
    <2>1. Init => TypeOK
        BY DefaultTypes, EmptyRootType DEF Init, TypeOK, NoRow
    <2>2. Init => StoredInv
        BY DEF Init, StoredInv, Stored, NoInfo
    <2> QED BY <2>1, <2>2, LogInvInit DEF IndInv
<1>2. IndInv /\ [Next]_vars => IndInv'
    BY IndInvStep
<1> QED BY <1>1, <1>2, PTL DEF Spec

\* A local change is dropped only when it is in the log (AckedChangesStored):
\* no acknowledged edit is ever lost, whatever faults happen.
THEOREM AckedChangesAreStored == Spec => []AckedChangesStored
<1>1. IndInv => AckedChangesStored
    BY DEF IndInv, StoredInv, AckedChangesStored
<1> QED BY <1>1, Invariance, PTL

-----------------------------------------------------------------------------
(***************************************************************************)
(* The log below a server seq                                              *)
(***************************************************************************)

\* What readers may ask for is the same after a step.
LEMMA LogBelow ==
    ASSUME TypeOK, TypeOK', LogStep, NEW n \in Nat, n <= docSeq
    PROVE  /\ n <= docSeq'
           /\ \A s \in 1 .. n : changes'[s] = changes[s]
           /\ Prefix(n)' = Prefix(n)
           /\ \A c, k : StoredWithin(c, k, n) => StoredWithin(c, k, n)'
<1>1. docSeq \in Nat /\ docSeq' \in Nat /\ docSeq <= docSeq'
    BY DEF TypeOK, LogStep
<1>2. \A s \in 1 .. n : s \in 1 .. docSeq
    BY <1>1
<1>3. \A s \in 1 .. n : changes'[s] = changes[s]
    BY <1>2 DEF LogStep
<1>4. Prefix(n)' = Prefix(n)
    BY <1>3 DEF Prefix
<1>5. \A c, k : StoredWithin(c, k, n) => StoredWithin(c, k, n)'
    BY <1>3 DEF StoredWithin
<1> QED BY <1>1, <1>3, <1>4, <1>5

\* A longer prefix holds what a shorter one does.
LEMMA Longer ==
    ASSUME NEW m \in Nat, NEW n \in Nat, m <= n
    PROVE  /\ Prefix(m) \subseteq Prefix(n)
           /\ \A c, k : StoredWithin(c, k, m) => StoredWithin(c, k, n)
<1>1. 1 .. m \subseteq 1 .. n
    OBVIOUS
<1> QED BY <1>1 DEF Prefix, StoredWithin

\* Fewer changes are stored where more are.
LEMMA Fewer ==
    ASSUME NEW c, NEW s, NEW j \in Nat, NEW k \in Nat, StoredWithin(c, j, s), StoredWithin(c, k, s)
    PROVE  /\ StoredWithin(c, MaxOf(j, k), s)
           /\ \A i \in Nat : i <= k => StoredWithin(c, i, s)
<1>1. \A i \in Nat : i <= k => 1 .. i \subseteq 1 .. k
    OBVIOUS
<1> QED BY <1>1 DEF StoredWithin, MaxOf

\* A stored prefix of a client's changes is stored within the whole log.
LEMMA StoredWithinLog ==
    ASSUME TypeOK, NEW c, NEW k, Stored(c, k)
    PROVE  StoredWithin(c, k, docSeq)
<1>1. \A s \in DOMAIN changes : s <= docSeq => s \in 1 .. docSeq
    BY DEF TypeOK
<1> QED BY <1>1 DEF Stored, StoredWithin

\* What FindChangeInfosBetweenServerSeqs finds in a log without gap.
LEMMA FindRows ==
    ASSUME TypeOK, RowsInv, NEW a \in Nat, NEW b \in Nat, b <= docSeq
    PROVE  FindChangeInfos(a, b) =
                [seen |-> {changes[s] : s \in (a + 1) .. b},
                 twice |-> {changes[s] : s \in {t \in (a + 1) .. b :
                                \E u \in ((a + 1) .. b) \ {t} : changes[u] = changes[t]}}]
<1>1. DOMAIN changes \subseteq Nat /\ docSeq \in Nat
    BY DEF TypeOK
<1>2. ASSUME NEW s \in (a + 1) .. b PROVE s \in DOMAIN changes
    <2>1. s \in 1 .. docSeq
        BY <1>1
    <2> QED BY <2>1 DEF RowsInv
<1>3. {s \in DOMAIN changes : a < s /\ s <= b} = (a + 1) .. b
    BY <1>1, <1>2
<1> QED BY <1>3 DEF FindChangeInfos

\* The changes of a stored range are the same after a step.
LEMMA FindStable ==
    ASSUME TypeOK, TypeOK', RowsInv, RowsInv', LogStep, NEW a \in Nat, NEW b \in Nat, b <= docSeq
    PROVE  FindChangeInfos(a, b)' = FindChangeInfos(a, b)
<1>1. b <= docSeq' /\ \A s \in 1 .. b : changes'[s] = changes[s]
    BY LogBelow
<1>2. \A s \in (a + 1) .. b : changes'[s] = changes[s]
    BY <1>1
<1>3. DOMAIN changes' \subseteq Nat /\ docSeq' \in Nat
    BY DEF TypeOK
<1>4. ASSUME NEW s \in (a + 1) .. b PROVE s \in DOMAIN changes'
    <2>1. s \in 1 .. docSeq'
        BY <1>1, <1>3
    <2> QED BY <2>1 DEF RowsInv
<1>5. {s \in DOMAIN changes' : a < s /\ s <= b} = (a + 1) .. b
    BY <1>3, <1>4
<1>6. FindChangeInfos(a, b)' =
                [seen |-> {changes'[s] : s \in (a + 1) .. b},
                 twice |-> {changes'[s] : s \in {t \in (a + 1) .. b :
                                \E u \in ((a + 1) .. b) \ {t} : changes'[u] = changes'[t]}}]
    BY <1>5 DEF FindChangeInfos
<1> QED BY <1>2, <1>6, FindRows

\* A snapshot and the changes behind it are a longer replay.
LEMMA FindExtend ==
    ASSUME TypeOK, RowsInv, NEW a \in Nat, NEW b \in Nat, a <= b, b <= docSeq
    PROVE  Execute(FindChangeInfos(0, a), FindChangeInfos(a, b)) = FindChangeInfos(0, b)
<1> DEFINE L(m, n) == (m + 1) .. n
           Seen(m, n) == {changes[s] : s \in L(m, n)}
           Twice(m, n) == {changes[s] : s \in {t \in L(m, n) :
                                \E u \in L(m, n) \ {t} : changes[u] = changes[t]}}
<1>1. L(0, b) = L(0, a) \cup L(a, b) /\ L(0, a) \cap L(a, b) = {}
    OBVIOUS
<1>2. a <= docSeq
    BY DEF TypeOK
<1>3. /\ FindChangeInfos(0, a) = [seen |-> Seen(0, a), twice |-> Twice(0, a)]
      /\ FindChangeInfos(a, b) = [seen |-> Seen(a, b), twice |-> Twice(a, b)]
      /\ FindChangeInfos(0, b) = [seen |-> Seen(0, b), twice |-> Twice(0, b)]
    BY <1>2, FindRows
<1> HIDE DEF L
<1>4. Seen(0, b) = Seen(0, a) \cup Seen(a, b)
    BY <1>1
<1>5. Twice(0, b) = Twice(0, a) \cup Twice(a, b) \cup (Seen(0, a) \cap Seen(a, b))
    <2>1. ASSUME NEW x \in Twice(0, b)
          PROVE  x \in Twice(0, a) \cup Twice(a, b) \cup (Seen(0, a) \cap Seen(a, b))
        <3>1. PICK t \in L(0, b), u \in L(0, b) : t # u /\ changes[u] = x /\ changes[t] = x
            BY <2>1
        <3> QED BY <1>1, <3>1
    <2>2. ASSUME NEW x \in Seen(0, a) \cap Seen(a, b)
          PROVE  x \in Twice(0, b)
        <3>1. PICK t \in L(0, a), u \in L(a, b) : changes[u] = x /\ changes[t] = x
            BY <2>2
        <3>2. t # u /\ t \in L(0, b) /\ u \in L(0, b)
            BY <1>1, <3>1
        <3> QED BY <3>1, <3>2
    <2>3. Twice(0, a) \subseteq Twice(0, b) /\ Twice(a, b) \subseteq Twice(0, b)
        BY <1>1
    <2> QED BY <2>1, <2>2, <2>3
<1> HIDE DEF Seen, Twice
<1> QED BY <1>3, <1>4, <1>5 DEF Execute

\* The changes of a replay are the prefix of the log.
LEMMA FindPrefix ==
    ASSUME TypeOK, RowsInv, NEW b \in Nat, b <= docSeq
    PROVE  FindChangeInfos(0, b).seen = Prefix(b)
BY FindRows DEF Prefix

-----------------------------------------------------------------------------
(***************************************************************************)
(* Replicas                                                                *)
(***************************************************************************)

\* The changes of a client, cut in two.
LEMMA LocalExtend ==
    ASSUME NEW c, NEW a \in Nat, NEW b \in Nat, a <= b
    PROVE  LocalChanges(c, 0, b).seen = LocalChanges(c, 0, a).seen \cup LocalChanges(c, a, b).seen
<1>1. (0 + 1) .. b = ((0 + 1) .. a) \cup ((a + 1) .. b)
    OBVIOUS
<1> QED BY <1>1 DEF LocalChanges

\* A step that leaves a replica alone keeps what is said of it.
LEMMA ReplicaKept ==
    ASSUME TypeOK, TypeOK', LogStep, NEW c \in Clients, ReplicaInv(c),
           doc'[c] = doc[c], root'[c] = root[c], syncedSeqs'[c] <= doc[c].cp.serverSeq
    PROVE  ReplicaInv(c)'
<1>1. doc[c].cp.serverSeq \in Nat /\ docSeq \in Nat /\ docSeq' \in Nat
    BY DEF TypeOK, Checkpoint
<1>2. /\ doc[c].cp.serverSeq <= docSeq'
      /\ Prefix(doc[c].cp.serverSeq)' = Prefix(doc[c].cp.serverSeq)
      /\ StoredWithin(c, doc[c].acked, doc[c].cp.serverSeq)'
    <2> DEFINE n == doc[c].cp.serverSeq
    <2>1. n \in Nat /\ n <= docSeq /\ StoredWithin(c, doc[c].acked, n) /\ doc'[c].cp.serverSeq = n
        BY <1>1 DEF ReplicaInv
    <2>2. \A m \in Nat : m <= docSeq => /\ m <= docSeq' /\ Prefix(m)' = Prefix(m)
                                        /\ \A d, k : StoredWithin(d, k, m) => StoredWithin(d, k, m)'
        BY LogBelow
    <2>3. doc'[c].acked = doc[c].acked
        OBVIOUS
    <2> QED BY <2>1, <2>2, <2>3
<1>3. Prefix(docSeq) \subseteq Prefix(docSeq)'
    <2>1. docSeq <= docSeq' /\ \A s \in 1 .. docSeq : changes'[s] = changes[s]
        BY <1>1, LogBelow
    <2> QED BY <1>1, <2>1 DEF Prefix
<1>4. LocalChanges(c, 0, doc[c].seq)' = LocalChanges(c, 0, doc[c].seq)
    BY DEF LocalChanges
<1> QED BY <1>1, <1>2, <1>3, <1>4 DEF ReplicaInv

\* An edit is shown on the replica of its client.
LEMMA ReplicaUpdate ==
    ASSUME TypeOK, TypeOK', NEW c \in Clients, ReplicaInv(c), Update(c)
    PROVE  ReplicaInv(c)'
<1> DEFINE n == doc[c].seq
           L(m) == LocalChanges(c, 0, m).seen
<1>1. n \in Nat /\ doc[c].acked \in Nat
    BY DEF TypeOK
<1>2. /\ doc'[c] = [doc[c] EXCEPT !.seq = n + 1]
      /\ root'[c] = Execute(root[c], LocalChanges(c, n, n + 1))
      /\ UNCHANGED <<docSeq, changes, syncedSeqs>>
    BY DEF Update, TypeOK, dbVars
<1>3. L(n + 1) = L(n) \cup LocalChanges(c, n, n + 1).seen
    <2>1. n + 1 \in Nat /\ n <= n + 1
        BY <1>1
    <2> HIDE DEF n
    <2> QED BY <1>1, <2>1, LocalExtend
<1>4. root'[c].seen = root[c].seen \cup LocalChanges(c, n, n + 1).seen
    BY <1>2 DEF Execute
<1>5. doc'[c].seq = n + 1 /\ doc'[c].acked = doc[c].acked /\ doc'[c].cp = doc[c].cp
    BY <1>2 DEF TypeOK
<1>6. \A m : Prefix(m)' = Prefix(m) /\ \A k : StoredWithin(c, k, m)' <=> StoredWithin(c, k, m)
    BY <1>2 DEF Prefix, StoredWithin
<1>7. LocalChanges(c, 0, doc[c].seq)'.seen = L(n + 1)
    BY <1>5 DEF LocalChanges
<1>8. /\ n >= doc[c].acked
      /\ Prefix(doc[c].cp.serverSeq) \cup L(n) \subseteq root[c].seen
      /\ root[c].seen \subseteq Prefix(docSeq) \cup L(n)
      /\ StoredWithin(c, doc[c].acked, doc[c].cp.serverSeq)
      /\ doc[c].cp.serverSeq <= docSeq /\ syncedSeqs[c] <= doc[c].cp.serverSeq
    BY <1>1 DEF ReplicaInv
<1>9. doc'[c].acked <= doc'[c].seq
    BY <1>1, <1>5, <1>8
<1> HIDE DEF n, L
<1> QED BY <1>2, <1>3, <1>4, <1>5, <1>6, <1>7, <1>8, <1>9 DEF ReplicaInv

\* What a client receives brings its replica to the server seq of the answer.
LEMMA ReplicaReceive ==
    ASSUME TypeOK, TypeOK', LogInv, NEW c \in Clients, ReplicaInv(c), Receive(c),
           \A r \in Reqs : RequestInv(r) /\ HandlerInv(r)
    PROVE  ReplicaInv(c)' /\ doc'[c].cp.serverSeq >= doc[c].cp.serverSeq /\ doc'[c].seq = doc[c].seq
<1> DEFINE r == wait[c]
           pack == resp[r]
           n == pack.cp.serverSeq
           m == doc[c].cp.serverSeq
           L(k) == LocalChanges(c, 0, k).seen
<1>1. r \in Reqs /\ pc[r] = "done" /\ req[r].client = c
    BY DEF Receive, TypeOK, LogInv, WaitInv
<1>2. /\ doc[c].acked \in Nat /\ doc[c].seq \in Nat /\ m \in Nat /\ docSeq \in Nat
      /\ n \in Nat /\ pack.cp.clientSeq \in Nat /\ req[r].hi \in Nat
    BY <1>1 DEF TypeOK, Response, Checkpoint, Request
<1>3. req[r].serverSeq = m /\ req[r].hi <= doc[c].seq
    BY <1>1 DEF RequestInv
<1>4. /\ n <= docSeq /\ m <= n
      /\ StoredWithin(c, pack.cp.clientSeq, n)
      /\ Covers(pack, m, n, L(req[r].hi))
    BY <1>1, <1>3 DEF HandlerInv
<1>5. /\ doc'[c].acked = MaxOf(doc[c].acked, MinOf(doc[c].seq, pack.cp.clientSeq))
      /\ doc'[c].cp.serverSeq = MaxOf(m, n)
      /\ doc'[c].seq = doc[c].seq
      /\ root'[c] = AppliedRoot(c, pack)
      /\ UNCHANGED <<docSeq, changes, syncedSeqs>>
    <2>1. /\ c \in DOMAIN doc /\ c \in DOMAIN root
          /\ doc[c] \in [attached : BOOLEAN, cp : Checkpoint, acked : Nat, seq : Nat]
        BY DEF TypeOK
    <2>2. /\ doc' = [doc EXCEPT ![c] =
                        [AppliedDoc(c, pack) EXCEPT
                            !.attached = CASE req[r].method = "attach" -> TRUE
                                           [] req[r].method = "detach" -> FALSE
                                           [] OTHER -> @]]
          /\ root' = [root EXCEPT ![c] = AppliedRoot(c, pack)]
          /\ UNCHANGED <<docSeq, changes, syncedSeqs>>
        BY DEF Receive, dbVars
    <2> DEFINE a == MaxOf(doc[c].acked, MinOf(doc[c].seq, pack.cp.clientSeq))
               cp == Forward(doc[c].cp, pack.cp)
    <2>3. AppliedDoc(c, pack) = [doc[c] EXCEPT !.acked = a, !.cp = cp]
        BY DEF AppliedDoc
    <2>4. cp.serverSeq = MaxOf(m, n)
        BY DEF Forward
    <2> HIDE DEF a, cp, pack, n, m
    <2>5. doc'[c].acked = a /\ doc'[c].cp = cp /\ doc'[c].seq = doc[c].seq
        BY <2>1, <2>2, <2>3
    <2>6. root'[c] = AppliedRoot(c, pack)
        BY <2>1, <2>2
    <2> QED BY <2>2, <2>4, <2>5, <2>6 DEF a
<1>6. doc'[c].cp.serverSeq = n
    BY <1>2, <1>4, <1>5 DEF MaxOf
<1>7. /\ doc[c].acked <= doc[c].seq
      /\ StoredWithin(c, doc[c].acked, m)
      /\ Prefix(m) \cup L(doc[c].seq) \subseteq root[c].seen
      /\ root[c].seen \subseteq Prefix(docSeq) \cup L(doc[c].seq)
      /\ syncedSeqs[c] <= m
    BY DEF ReplicaInv
<1>8. doc'[c].acked <= doc[c].seq /\ StoredWithin(c, doc'[c].acked, n)
    <2>1. MinOf(doc[c].seq, pack.cp.clientSeq) \in Nat
          /\ MinOf(doc[c].seq, pack.cp.clientSeq) <= doc[c].seq
          /\ MinOf(doc[c].seq, pack.cp.clientSeq) <= pack.cp.clientSeq
        BY <1>2, MaxMinFacts
    <2>2. StoredWithin(c, doc[c].acked, n)
        BY <1>2, <1>4, <1>7, Longer
    <2>3. StoredWithin(c, MinOf(doc[c].seq, pack.cp.clientSeq), n)
        BY <1>2, <1>4, <2>1, Fewer
    <2>4. doc'[c].acked \in {doc[c].acked, MinOf(doc[c].seq, pack.cp.clientSeq)}
        BY <1>5 DEF MaxOf
    <2> QED BY <1>7, <2>1, <2>2, <2>3, <2>4
<1>9. L(req[r].hi) \subseteq L(doc[c].seq)
    BY <1>2, <1>3, LocalExtend
<1>10. /\ pack.root.seen \subseteq Prefix(docSeq)
       /\ \A s \in (m + 1) .. n : changes[s] \in pack.root.seen \cup L(doc[c].seq)
       /\ pack.isSnapshot => Prefix(m) \subseteq pack.root.seen
    BY <1>4, <1>9 DEF Covers
<1>11. L(doc[c].seq) \cup Prefix(m) \cup pack.root.seen \subseteq root'[c].seen
       /\ root'[c].seen \subseteq Prefix(docSeq) \cup L(doc[c].seq)
    <2>1. CASE pack.isSnapshot
        <3>1. root'[c].seen = pack.root.seen \cup LocalChanges(c, doc[c].acked, doc[c].seq).seen
            BY <1>5, <2>1 DEF AppliedRoot, Execute
        <3>2. L(doc[c].seq) = L(doc[c].acked) \cup LocalChanges(c, doc[c].acked, doc[c].seq).seen
            <4>1. \A a, b \in Nat : a <= b => L(b) = L(a) \cup LocalChanges(c, a, b).seen
                BY LocalExtend
            <4> HIDE DEF L
            <4> QED BY <1>2, <1>7, <4>1
        <3>3. L(doc[c].acked) \subseteq Prefix(m)
            BY <1>7 DEF LocalChanges, StoredWithin, Prefix
        <3> HIDE DEF L, m
        <3> QED BY <1>10, <2>1, <3>1, <3>2, <3>3
    <2>2. CASE ~pack.isSnapshot
        <3>1. root'[c].seen = root[c].seen \cup pack.root.seen
            BY <1>5, <2>2 DEF AppliedRoot, Execute
        <3> HIDE DEF L, m
        <3> QED BY <1>7, <1>10, <3>1
    <2> QED BY <2>1, <2>2
<1>12. Prefix(n) \subseteq root'[c].seen
    <2> SUFFICES ASSUME NEW s \in 1 .. n PROVE changes[s] \in root'[c].seen
        BY DEF Prefix
    <2>1. CASE s \in 1 .. m
        BY <1>11, <2>1 DEF Prefix
    <2>2. CASE s \in (m + 1) .. n
        BY <1>10, <1>11, <2>2
    <2>3. m \in Nat /\ n \in Nat
        BY <1>2
    <2> HIDE DEF m, n
    <2> QED BY <2>1, <2>2, <2>3
<1>13. \A k : Prefix(k)' = Prefix(k) /\ \A j : StoredWithin(c, j, k)' <=> StoredWithin(c, j, k)
    BY <1>5 DEF Prefix, StoredWithin
<1>14. LocalChanges(c, 0, doc[c].seq)'.seen = L(doc[c].seq)
    BY <1>5 DEF LocalChanges
<1>15. syncedSeqs[c] <= n
    <2>1. syncedSeqs[c] \in Nat \cup {-1}
        BY DEF TypeOK, NoRow
    <2>2. syncedSeqs[c] <= m /\ m \in Nat /\ n \in Nat /\ m <= n
        BY <1>2, <1>4, <1>7
    <2> HIDE DEF m, n
    <2> QED BY <2>1, <2>2
<1>16. ReplicaInv(c)'
    <2> HIDE DEF r, pack, n, m, L
    <2> QED BY <1>4, <1>5, <1>6, <1>8, <1>11, <1>12, <1>13, <1>14, <1>15 DEF ReplicaInv
<1> QED BY <1>2, <1>4, <1>5, <1>6, <1>16

\* Every step keeps what is said of a replica, and takes none of it back.
LEMMA ReplicaStep ==
    ASSUME IndInv, DeliveryInv, [Next]_vars, TypeOK', LogStep, NEW c \in Clients
    PROVE  /\ ReplicaInv(c)'
           /\ doc'[c].cp.serverSeq >= doc[c].cp.serverSeq
           /\ doc'[c].seq >= doc[c].seq
<1>0. TypeOK /\ LogInv /\ ReplicaInv(c) /\ \A r \in Reqs : RequestInv(r) /\ HandlerInv(r)
    BY DEF IndInv, DeliveryInv
<1>1. doc[c].cp.serverSeq \in Nat /\ doc[c].seq \in Nat /\ syncedSeqs[c] <= doc[c].cp.serverSeq
    BY <1>0 DEF TypeOK, Checkpoint, ReplicaInv
<1>2. ASSUME doc'[c] = doc[c], root'[c] = root[c], syncedSeqs'[c] <= doc[c].cp.serverSeq
      PROVE  /\ ReplicaInv(c)'
             /\ doc'[c].cp.serverSeq >= doc[c].cp.serverSeq
             /\ doc'[c].seq >= doc[c].seq
    BY <1>0, <1>1, <1>2, ReplicaKept
<1>3. ASSUME UNCHANGED <<doc, root, syncedSeqs>>
      PROVE  /\ ReplicaInv(c)'
             /\ doc'[c].cp.serverSeq >= doc[c].cp.serverSeq
             /\ doc'[c].seq >= doc[c].seq
    BY <1>1, <1>2, <1>3
<1>4. ASSUME NEW d \in Clients, Update(d)
      PROVE  /\ ReplicaInv(c)'
             /\ doc'[c].cp.serverSeq >= doc[c].cp.serverSeq
             /\ doc'[c].seq >= doc[c].seq
    <2>1. CASE d = c
        <3>1. doc'[c].cp = doc[c].cp /\ doc'[c].seq = doc[c].seq + 1
            BY <1>0, <1>4, <2>1 DEF Update, TypeOK
        <3> QED BY <1>0, <1>1, <1>4, <2>1, <3>1, ReplicaUpdate
    <2>2. CASE d # c
        <3>1. doc'[c] = doc[c] /\ root'[c] = root[c] /\ syncedSeqs' = syncedSeqs
            BY <1>0, <1>4, <2>2 DEF Update, TypeOK, dbVars
        <3> QED BY <1>1, <1>2, <3>1
    <2> QED BY <2>1, <2>2
<1>5. ASSUME NEW d \in Clients, Receive(d)
      PROVE  /\ ReplicaInv(c)'
             /\ doc'[c].cp.serverSeq >= doc[c].cp.serverSeq
             /\ doc'[c].seq >= doc[c].seq
    <2>1. CASE d = c
        BY <1>0, <1>1, <1>5, <2>1, ReplicaReceive
    <2>2. CASE d # c
        <3>1. doc'[c] = doc[c] /\ root'[c] = root[c] /\ syncedSeqs' = syncedSeqs
            BY <1>0, <1>5, <2>2 DEF Receive, TypeOK, dbVars
        <3> QED BY <1>1, <1>2, <3>1
    <2> QED BY <2>1, <2>2
<1>6. ASSUME NEW r \in Reqs, UpdateSynced(r)
      PROVE  /\ ReplicaInv(c)'
             /\ doc'[c].cp.serverSeq >= doc[c].cp.serverSeq
             /\ doc'[c].seq >= doc[c].seq
    <2>1. UNCHANGED <<doc, root>> /\ pc[r] = "synced"
          /\ syncedSeqs' = [syncedSeqs EXCEPT ![req[r].client] =
                                IF info[r].status = "attached" THEN req[r].serverSeq ELSE NoRow]
        BY <1>6 DEF UpdateSynced, clientVars
    <2>2. req[r].client = c => req[r].serverSeq <= doc[c].cp.serverSeq
        BY <1>0, <2>1 DEF RequestInv
    <2>3. syncedSeqs'[c] <= doc[c].cp.serverSeq
        <3>1. CASE req[r].client = c
            <4>1. syncedSeqs'[c] \in {req[r].serverSeq, -1}
                BY <1>0, <2>1, <3>1 DEF TypeOK, NoRow
            <4> QED BY <1>1, <2>2, <3>1, <4>1
        <3>2. CASE req[r].client # c
            <4>1. syncedSeqs'[c] = syncedSeqs[c]
                BY <1>0, <2>1, <3>2 DEF TypeOK
            <4> QED BY <1>1, <4>1
        <3> QED BY <3>1, <3>2
    <2> QED BY <1>2, <2>1, <2>3
<1>7. CASE UNCHANGED vars
    BY <1>3, <1>7 DEF vars, dbVars, clientVars
<1>8. CASE Crash
    BY <1>3, <1>8 DEF Crash, dbVars, clientVars
<1>9. ASSUME NEW d \in Clients, ClientNext(d), ~Update(d), ~Receive(d)
      PROVE  UNCHANGED <<doc, root, syncedSeqs>>
    BY <1>9 DEF ClientNext, Attach, Sync, Detach, Call, ReceiveError, Lost, Cancel, dbVars
<1>10. ASSUME NEW r \in Reqs, ReqNext(r), ~UpdateSynced(r)
       PROVE  UNCHANGED <<doc, root, syncedSeqs>>
    BY <1>10 DEF ReqNext, HandlerStep, FindClient, FindDoc, Pull, StoreChange, UpdateDoc, UpdateClient,
                 FindMin, JobRead, JobStore, DBError, JobError, dbVars, clientVars
<1> QED BY <1>3, <1>4, <1>5, <1>6, <1>7, <1>8, <1>9, <1>10 DEF Next

-----------------------------------------------------------------------------
(***************************************************************************)
(* Requests                                                                *)
(***************************************************************************)

\* A request that is still the same claims no more than its client has.
LEMMA RequestKept ==
    ASSUME TypeOK, TypeOK', LogStep, NEW r \in Reqs, RequestInv(r),
           \A c \in Clients : ReplicaInv(c),
           pc'[r] # "idle" =>
                /\ pc[r] # "idle" /\ req'[r] = req[r]
                /\ doc'[req[r].client].cp.serverSeq >= doc[req[r].client].cp.serverSeq
                /\ doc'[req[r].client].seq >= doc[req[r].client].seq
                /\ wait'[req[r].client] = r =>
                    wait[req[r].client] = r /\ doc'[req[r].client] = doc[req[r].client]
    PROVE  RequestInv(r)'
<1> SUFFICES ASSUME pc'[r] # "idle" PROVE RequestInv(r)'
    BY DEF RequestInv
<1> DEFINE c == req[r].client
           n == req[r].serverSeq
<1>1. pc[r] # "idle" /\ req'[r] = req[r] /\ c \in Clients
    BY DEF TypeOK
<1>2. /\ doc[c].cp.serverSeq \in Nat /\ doc'[c].cp.serverSeq \in Nat
      /\ doc[c].seq \in Nat /\ doc'[c].seq \in Nat /\ n \in Nat /\ req[r].hi \in Nat /\ docSeq \in Nat
    BY <1>1 DEF TypeOK, Checkpoint, Request
<1>3. /\ n <= doc[c].cp.serverSeq /\ req[r].hi <= doc[c].seq
      /\ StoredWithin(c, req[r].lo, n)
      /\ wait[c] = r => n = doc[c].cp.serverSeq
    BY <1>1 DEF RequestInv
<1>4. doc[c].cp.serverSeq <= docSeq
    BY <1>1 DEF ReplicaInv
<1>5. StoredWithin(c, req[r].lo, n)'
    <2>1. n <= docSeq
        BY <1>2, <1>3, <1>4
    <2>2. \A m \in Nat : m <= docSeq => \A d, k : StoredWithin(d, k, m) => StoredWithin(d, k, m)'
        BY LogBelow
    <2> QED BY <1>1, <1>2, <1>3, <2>1, <2>2
<1>6. n <= doc'[c].cp.serverSeq /\ req[r].hi <= doc'[c].seq
    BY <1>1, <1>2, <1>3
<1>7. wait'[c] = r => n = doc'[c].cp.serverSeq
    BY <1>1, <1>3
<1> QED BY <1>1, <1>5, <1>6, <1>7 DEF RequestInv

\* Every step keeps what is said of a request.
LEMMA RequestStep ==
    ASSUME IndInv, DeliveryInv, [Next]_vars, TypeOK', LogStep, NEW r \in Reqs,
           \A c \in Clients : /\ doc'[c].cp.serverSeq >= doc[c].cp.serverSeq
                              /\ doc'[c].seq >= doc[c].seq
    PROVE  RequestInv(r)'
<1>0. /\ TypeOK /\ LogInv /\ NoneAssumption
      /\ \A c \in Clients : ReplicaInv(c)
      /\ \A q \in Reqs : RequestInv(q)
    BY NoneAssumption DEF IndInv, DeliveryInv, NoneAssumption
<1> DEFINE Same(q) == pc'[q] # "idle" => pc[q] # "idle" /\ req'[q] = req[q]
<1>1. ASSUME Same(r),
             \A c \in Clients : wait'[c] = r => wait[c] = r /\ doc'[c] = doc[c]
      PROVE  RequestInv(r)'
    <2>1. pc'[r] # "idle" => req[r].client \in Clients
        BY <1>0, <1>1 DEF TypeOK
    <2> QED BY <1>0, <1>1, <2>1, RequestKept
<1>2. ASSUME NEW c \in Clients, NEW m \in Methods, Call(c, m) PROVE RequestInv(r)'
    <2>1. PICK q \in Reqs :
            /\ pc[q] = "idle"
            /\ pc' = [pc EXCEPT ![q] = "recv"]
            /\ req' = [req EXCEPT ![q] =
                        [client |-> c, method |-> m, serverSeq |-> doc[c].cp.serverSeq,
                         lo |-> doc[c].acked, hi |-> doc[c].seq]]
            /\ wait' = [wait EXCEPT ![c] = q]
        BY <1>2 DEF Call
    <2>2. UNCHANGED <<docSeq, changes, doc>>
        BY <1>2 DEF Call, dbVars
    <2>3. CASE r = q
        <3>1. /\ req'[r].client = c /\ req'[r].serverSeq = doc[c].cp.serverSeq
              /\ req'[r].lo = doc[c].acked /\ req'[r].hi = doc[c].seq
            BY <1>0, <2>1, <2>3 DEF TypeOK
        <3>2. doc[c].cp.serverSeq \in Nat /\ doc[c].seq \in Nat
            BY <1>0 DEF TypeOK, Checkpoint
        <3>3. StoredWithin(c, doc[c].acked, doc[c].cp.serverSeq)
            BY <1>0 DEF ReplicaInv
        <3>4. \A k, s : StoredWithin(c, k, s)' <=> StoredWithin(c, k, s)
            BY <2>2 DEF StoredWithin
        <3> QED BY <2>2, <3>1, <3>2, <3>3, <3>4 DEF RequestInv
    <2>4. CASE r # q
        <3>1. Same(r) /\ \A d \in Clients : wait'[d] = r => wait[d] = r
            BY <1>0, <2>1, <2>4 DEF TypeOK
        <3> HIDE DEF Same
        <3> QED BY <1>1, <2>2, <3>1
    <2> QED BY <2>3, <2>4
<1>3. ASSUME NEW c \in Clients, Update(c) \/ Receive(c) PROVE RequestInv(r)'
    <2>4. /\ doc = [d \in Clients |-> doc[d]] /\ wait = [d \in Clients |-> wait[d]]
          /\ pc = [q \in Reqs |-> pc[q]] /\ req = [q \in Reqs |-> req[q]]
          /\ None # r
        BY <1>0 DEF TypeOK, NoneAssumption
    <2>1. Same(r)
        <3>1. CASE Update(c)
            BY <3>1 DEF Update, handlerVars
        <3>2. CASE Receive(c)
            <4>1. /\ pc' = [pc EXCEPT ![wait[c]] = "idle"]
                  /\ req' = [req EXCEPT ![wait[c]] = NoRequest]
                BY <3>2 DEF Receive, Free
            <4> QED BY <2>4, <4>1
        <3> QED BY <1>3, <3>1, <3>2
    <2>2. \A d \in Clients : d # c => wait'[d] = wait[d] /\ doc'[d] = doc[d]
        <3>1. CASE Update(c)
            BY <2>4, <3>1 DEF Update
        <3>2. CASE Receive(c)
            BY <2>4, <3>2 DEF Receive
        <3> QED BY <1>3, <3>1, <3>2
    <2>3. wait'[c] = None
        <3>1. CASE Update(c)
            BY <3>1 DEF Update
        <3>2. CASE Receive(c)
            BY <2>4, <3>2 DEF Receive
        <3> QED BY <1>3, <3>1, <3>2
    <2> HIDE DEF Same
    <2> QED BY <1>1, <2>1, <2>2, <2>3, <2>4
<1>4. ASSUME UNCHANGED doc, Same(r), \A d \in Clients : wait'[d] \in {wait[d], None}
      PROVE  RequestInv(r)'
    <2>1. None # r
        BY <1>0 DEF NoneAssumption
    <2> HIDE DEF Same
    <2> QED BY <1>1, <1>4, <2>1
<1>5. ASSUME NEW c \in Clients, ReceiveError(c) \/ Lost(c) \/ Cancel(c) PROVE RequestInv(r)'
    <2>1. UNCHANGED doc /\ Same(r)
        BY <1>0, <1>5 DEF ReceiveError, Lost, Cancel, Free, TypeOK
    <2>2. \A d \in Clients : wait'[d] \in {wait[d], None}
        BY <1>0, <1>5 DEF ReceiveError, Lost, Cancel, TypeOK
    <2> HIDE DEF Same
    <2> QED BY <1>4, <2>1, <2>2
<1>6. ASSUME NEW q \in Reqs, ReqNext(q) PROVE RequestInv(r)'
    <2>1. UNCHANGED <<doc, wait>>
        BY <1>6 DEF ReqNext, HandlerStep, FindClient, FindDoc, Pull, StoreChange, UpdateDoc, UpdateClient,
                    UpdateSynced, FindMin, JobRead, JobStore, DBError, JobError, clientVars
    <2>2. Same(r)
        <3>1. CASE JobRead(q) \/ JobStore(q) \/ JobError(q)
            BY <3>1 DEF JobRead, JobStore, JobError, handlerVars
        <3>2. CASE FindClient(q) \/ StoreChange(q) \/ UpdateClient(q) \/ UpdateSynced(q)
            BY <1>0, <3>2 DEF FindClient, StoreChange, UpdateClient, UpdateSynced, TypeOK
        <3>3. ASSUME NEW o, NEW p, Return(q, o, p), pc[q] # "idle" PROVE Same(r)
            BY <1>0, <3>3 DEF Return, TypeOK
        <3>4. CASE FindDoc(q) \/ Pull(q) \/ UpdateDoc(q)
            <4>1. pc[q] # "idle"
                BY <3>4 DEF FindDoc, Pull, UpdateDoc
            <4>2. CASE Fail(q)
                BY <3>3, <4>1, <4>2 DEF Fail
            <4>3. CASE ~Fail(q)
                BY <1>0, <3>4, <4>1, <4>3 DEF FindDoc, Pull, UpdateDoc, TypeOK
            <4> QED BY <4>2, <4>3
        <3>5. CASE FindMin(q) \/ DBError(q)
            <4>1. pc[q] # "idle" /\ \E o, p : Return(q, o, p)
                BY <3>5 DEF FindMin, DBError, Fail, Working
            <4> HIDE DEF Same
            <4> QED BY <3>3, <4>1
        <3> HIDE DEF Same
        <3> QED BY <1>6, <3>1, <3>2, <3>4, <3>5 DEF ReqNext, HandlerStep
    <2> HIDE DEF Same
    <2> QED BY <1>4, <2>1, <2>2
<1>7. CASE UNCHANGED vars
    <2>1. UNCHANGED <<doc, wait, pc, req>>
        BY <1>7 DEF vars, handlerVars, clientVars
    <2> QED BY <1>4, <2>1
<1>8. CASE Crash
    <2>1. UNCHANGED <<doc, wait>> /\ Same(r)
        BY <1>8 DEF Crash, clientVars
    <2> HIDE DEF Same
    <2> QED BY <1>4, <2>1
<1> QED BY <1>2, <1>3, <1>5, <1>6, <1>7, <1>8 DEF Next, ClientNext, Attach, Sync, Detach

-----------------------------------------------------------------------------
(***************************************************************************)
(* Handlers                                                                *)
(***************************************************************************)

\* An answer covers the same part of the log after a step.
LEMMA CoversKept ==
    ASSUME TypeOK, TypeOK', LogStep
    PROVE  \A pack, own : \A from, to \in Nat :
                from <= docSeq /\ to <= docSeq /\ Covers(pack, from, to, own)
                => Covers(pack, from, to, own)'
<1> SUFFICES ASSUME NEW pack, NEW own, NEW from \in Nat, NEW to \in Nat,
                    from <= docSeq, to <= docSeq, Covers(pack, from, to, own)
             PROVE  Covers(pack, from, to, own)'
    OBVIOUS
<1>1. docSeq \in Nat /\ docSeq' \in Nat
    BY DEF TypeOK
<1>2. \A s \in 1 .. docSeq : changes'[s] = changes[s]
    BY <1>1, LogBelow
<1>3. docSeq <= docSeq'
    BY DEF LogStep
<1>4. Prefix(docSeq) \subseteq Prefix(docSeq)'
    BY <1>1, <1>2, <1>3 DEF Prefix
<1>5. Prefix(from)' = Prefix(from)
    BY LogBelow
<1>6. \A s \in (from + 1) .. to : changes'[s] = changes[s]
    BY <1>1, <1>2
<1> QED BY <1>4, <1>5, <1>6 DEF Covers

\* The answer of pullPack covers the log up to the server seq it was read at.
LEMMA PulledPackCovers ==
    ASSUME TypeOK, RowsInv, SnapshotIsReplay, NEW r \in Reqs, init[r] <= docSeq,
           req[r].serverSeq <= init[r]
    PROVE  Covers(PulledPack(r), req[r].serverSeq, init[r], {})
<1> DEFINE a == req[r].serverSeq
           b == init[r]
           n == snapshot.serverSeq
           pack == PulledPack(r)
<1>1. a \in Nat /\ b \in Nat /\ n \in Nat /\ docSeq \in Nat
    BY DEF TypeOK, Request
<1>2. a <= b /\ b <= docSeq /\ n <= docSeq
    BY DEF SnapshotIsReplay
<1>3. snapshot.root = FindChangeInfos(0, n)
    BY DEF SnapshotIsReplay
<1>4. CASE b - a < SnapshotThreshold
    <2>1. ~pack.isSnapshot /\ pack.root = FindChangeInfos(a, b)
        BY <1>4 DEF PulledPack
    <2>2. pack.root.seen = {changes[s] : s \in (a + 1) .. b}
        BY <1>1, <1>2, <2>1, FindRows
    <2>3. (a + 1) .. b \subseteq 1 .. docSeq
        BY <1>1, <1>2
    <2> HIDE DEF a, b, pack
    <2> QED BY <2>1, <2>2, <2>3 DEF Covers, Prefix, a, b, pack
<1>5. CASE ~(b - a < SnapshotThreshold)
    <2>1. pack.root = IF n >= b THEN snapshot.root ELSE Execute(snapshot.root, FindChangeInfos(n, b))
        BY <1>5 DEF PulledPack
    <2>2. PICK m \in Nat : b <= m /\ m <= docSeq /\ pack.root = FindChangeInfos(0, m)
        <3>1. CASE n >= b
            BY <1>1, <1>2, <1>3, <2>1, <3>1
        <3>2. CASE ~(n >= b)
            <4>1. n <= b
                BY <1>1, <3>2
            <4>2. Execute(FindChangeInfos(0, n), FindChangeInfos(n, b)) = FindChangeInfos(0, b)
                BY <1>1, <1>2, <4>1, FindExtend
            <4>3. pack.root = FindChangeInfos(0, b)
                BY <1>3, <2>1, <3>2, <4>2
            <4> QED BY <1>1, <1>2, <4>3
        <3> QED BY <3>1, <3>2
    <2>3. pack.root.seen = Prefix(m)
        BY <2>2, FindPrefix
    <2>4. Prefix(m) \subseteq Prefix(docSeq) /\ Prefix(a) \subseteq Prefix(m)
        BY <1>1, <1>2, <2>2, Longer
    <2>5. \A s \in (a + 1) .. b : changes[s] \in Prefix(m)
        BY <1>1, <2>2 DEF Prefix
    <2> HIDE DEF a, b, pack
    <2> QED BY <2>3, <2>4, <2>5 DEF Covers, a, b, pack
<1> QED BY <1>4, <1>5

\* A handler whose locals are the same is where it was.
LEMMA HandlerKept ==
    ASSUME TypeOK, TypeOK', LogStep, NEW r \in Reqs, HandlerInv(r),
           pc'[r] = pc[r], req'[r] = req[r], init'[r] = init[r], base'[r] = base[r],
           info'[r] = info[r], resp'[r] = resp[r]
    PROVE  HandlerInv(r)'
<1> DEFINE c == req[r].client
           own == LocalChanges(c, 0, req[r].hi).seen
<1>1. /\ init[r] \in Nat /\ req[r].serverSeq \in Nat /\ resp[r].cp.serverSeq \in Nat
      /\ docSeq \in Nat /\ docSeq' \in Nat
    BY DEF TypeOK, Request, Response, Checkpoint
<1>2. \A m \in Nat : m <= docSeq =>
            m <= docSeq' /\ \A d, k : StoredWithin(d, k, m) => StoredWithin(d, k, m)'
    BY LogBelow
<1>3. \A pack, o : \A from, to \in Nat :
            from <= docSeq /\ to <= docSeq /\ Covers(pack, from, to, o) => Covers(pack, from, to, o)'
    BY CoversKept
<1>4. LocalChanges(c, 0, req[r].hi)'.seen = own
    BY DEF LocalChanges
<1>5. pc[r] = "pull" => init[r] <= docSeq' /\ StoredWithin(c, info[r].clientSeq, init[r])'
    BY <1>1, <1>2 DEF HandlerInv
<1>6. pc[r] = "store" =>
        /\ init[r] <= docSeq'
        /\ req[r].serverSeq <= init[r]
        /\ StoredWithin(c, base[r], init[r])'
        /\ Covers(resp[r], req[r].serverSeq, init[r], {})'
    <2> SUFFICES ASSUME pc[r] = "store"
                 PROVE  /\ init[r] <= docSeq'
                        /\ req[r].serverSeq <= init[r]
                        /\ StoredWithin(c, base[r], init[r])'
                        /\ Covers(resp[r], req[r].serverSeq, init[r], {})'
        OBVIOUS
    <2>1. init[r] <= docSeq /\ req[r].serverSeq <= init[r]
          /\ StoredWithin(c, base[r], init[r])
          /\ Covers(resp[r], req[r].serverSeq, init[r], {})
        BY DEF HandlerInv
    <2>2. req[r].serverSeq <= docSeq
        BY <1>1, <2>1
    <2> QED BY <1>1, <1>2, <1>3, <2>1, <2>2
<1>7. pc[r] \in {"client", "synced", "min", "done"} =>
        /\ resp[r].cp.serverSeq <= docSeq'
        /\ req[r].serverSeq <= resp[r].cp.serverSeq
        /\ StoredWithin(c, resp[r].cp.clientSeq, resp[r].cp.serverSeq)'
        /\ Covers(resp[r], req[r].serverSeq, resp[r].cp.serverSeq, own)'
    <2> SUFFICES ASSUME pc[r] \in {"client", "synced", "min", "done"}
                 PROVE  /\ resp[r].cp.serverSeq <= docSeq'
                        /\ req[r].serverSeq <= resp[r].cp.serverSeq
                        /\ StoredWithin(c, resp[r].cp.clientSeq, resp[r].cp.serverSeq)'
                        /\ Covers(resp[r], req[r].serverSeq, resp[r].cp.serverSeq, own)'
        OBVIOUS
    <2>1. /\ resp[r].cp.serverSeq <= docSeq /\ req[r].serverSeq <= resp[r].cp.serverSeq
          /\ StoredWithin(c, resp[r].cp.clientSeq, resp[r].cp.serverSeq)
          /\ Covers(resp[r], req[r].serverSeq, resp[r].cp.serverSeq, own)
        BY DEF HandlerInv
    <2>2. req[r].serverSeq <= docSeq
        BY <1>1, <2>1
    <2>3. own' = own
        BY <1>4
    <2> HIDE DEF own
    <2> QED BY <1>1, <1>2, <1>3, <2>1, <2>2, <2>3
<1>8. ServerSeq(r)' = ServerSeq(r)
    BY DEF ServerSeq, Size
<1>9. pc[r] \in {"store", "client", "synced", "min"} => resp[r].cp.serverSeq = ServerSeq(r)
    BY DEF HandlerInv
<1> HIDE DEF own
<1> QED BY <1>4, <1>5, <1>6, <1>7, <1>8, <1>9 DEF HandlerInv, own

\* The handler reads server_seq after the client seq it has read is stored.
LEMMA HandlerFindDoc ==
    ASSUME IndInv, TypeOK', NEW r \in Reqs, FindDoc(r)
    PROVE  HandlerInv(r)'
<1>0. TypeOK /\ StoredInv
    BY DEF IndInv
<1>1. CASE ~Admitted(r)
    <2>1. pc'[r] \in {"failed", "idle"}
        BY <1>0, <1>1 DEF FindDoc, Fail, Return, TypeOK
    <2> QED BY <2>1 DEF HandlerInv
<1>2. CASE Admitted(r)
    <2>1. /\ pc[r] = "findDoc" /\ pc'[r] = "pull" /\ init'[r] = docSeq /\ info'[r] = MarkedInfo(r)
          /\ UNCHANGED <<docSeq, changes, req>>
        BY <1>0, <1>2 DEF FindDoc, dbVars, TypeOK
    <2>2. Stored(req[r].client, info[r].clientSeq)
        BY <1>0, <2>1 DEF StoredInv
    <2>3. MarkedInfo(r).clientSeq \in {0, info[r].clientSeq}
        BY DEF MarkedInfo
    <2>4. StoredWithin(req[r].client, MarkedInfo(r).clientSeq, docSeq)
        <3>1. StoredWithin(req[r].client, info[r].clientSeq, docSeq)
            BY <1>0, <2>2, StoredWithinLog
        <3>2. StoredWithin(req[r].client, 0, docSeq)
            BY DEF StoredWithin
        <3> QED BY <2>3, <3>1, <3>2
    <2>5. \A c, k, s : StoredWithin(c, k, s)' <=> StoredWithin(c, k, s)
        BY <2>1 DEF StoredWithin
    <2>6. docSeq <= docSeq
        BY <1>0 DEF TypeOK
    <2> QED BY <2>1, <2>4, <2>5, <2>6 DEF HandlerInv
<1> QED BY <1>1, <1>2

\* What the handler has pulled covers the log to its initialServerSeq; with
\* nothing to push it is the answer.
LEMMA HandlerPull ==
    ASSUME IndInv, SnapshotIsReplay, TypeOK', NEW r \in Reqs, RequestInv(r), HandlerInv(r), Pull(r)
    PROVE  HandlerInv(r)'
<1>0. TypeOK /\ LogInv /\ StoredInv
    BY DEF IndInv
<1>1. CASE init[r] < req[r].serverSeq
    <2>1. pc'[r] \in {"failed", "idle"}
        BY <1>0, <1>1 DEF Pull, Fail, Return, TypeOK
    <2> QED BY <2>1 DEF HandlerInv
<1>2. CASE ~(init[r] < req[r].serverSeq)
    <2> DEFINE c == req[r].client
               a == req[r].serverSeq
               b == init[r]
    <2>1. /\ pc[r] = "pull" /\ pc'[r] = IF Size(r) > 0 THEN "store" ELSE "client"
          /\ resp'[r] = PulledPack(r)
          /\ UNCHANGED <<docSeq, changes, req, init, base>>
        BY <1>0, <1>2 DEF Pull, dbVars, TypeOK
    <2>2. /\ a \in Nat /\ b \in Nat /\ docSeq \in Nat /\ base[r] \in Nat /\ Size(r) \in Nat
          /\ req[r].lo \in Nat /\ req[r].hi \in Nat /\ info[r].clientSeq \in Nat
        BY <1>0, SizeType DEF TypeOK, Request, ClientDocInfo
    <2>3. a <= b /\ b <= docSeq /\ StoredWithin(c, info[r].clientSeq, b)
        BY <1>2, <2>1, <2>2 DEF HandlerInv
    <2>4. base[r] = MaxOf(req[r].lo, info[r].clientSeq)
        BY <1>0, <2>1 DEF LogInv, WriterInv
    <2>5. StoredWithin(c, base[r], b)
        <3>1. StoredWithin(c, req[r].lo, a)
            BY <2>1 DEF RequestInv
        <3>2. StoredWithin(c, req[r].lo, b)
            BY <2>2, <2>3, <3>1, Longer
        <3> QED BY <2>2, <2>3, <2>4, <3>2, Fewer
    <2>6. Covers(PulledPack(r), a, b, {})
        BY <1>0, <2>3, PulledPackCovers DEF LogInv
    <2>7. PulledPack(r).cp = PulledCP(r) /\ PulledCP(r).serverSeq = ServerSeq(r)
        BY DEF PulledPack, PulledCP
    <2>8. /\ \A d, k, s : StoredWithin(d, k, s)' <=> StoredWithin(d, k, s)
          /\ \A pack, own, from, to : Covers(pack, from, to, own)' <=> Covers(pack, from, to, own)
          /\ ServerSeq(r)' = ServerSeq(r)
        BY <2>1 DEF StoredWithin, Covers, Prefix, ServerSeq, Size
    <2>9. CASE Size(r) > 0
        <3>1. pc'[r] = "store"
            BY <2>1, <2>9
        <3> HIDE DEF a, b, c
        <3> QED BY <2>1, <2>3, <2>5, <2>6, <2>7, <2>8, <3>1 DEF HandlerInv, a, b, c
    <2>10. CASE ~(Size(r) > 0)
        <3>1. pc'[r] = "client" /\ ServerSeq(r) = b
            <4>1. Size(r) = 0
                BY <2>2, <2>10
            <4> QED BY <2>1, <2>2, <4>1 DEF ServerSeq
        <3>2. PulledCP(r).clientSeq = info[r].clientSeq
            <4>1. CASE HasChanges(r)
                <5>1. ~(base[r] < req[r].hi)
                    BY <2>2, <2>10 DEF Size
                <5>2. req[r].hi <= info[r].clientSeq
                    BY <2>2, <2>4, <4>1, <5>1 DEF MaxOf, HasChanges
                <5>3. MaxOf(info[r].clientSeq, req[r].hi) = info[r].clientSeq
                    BY <2>2, <5>2 DEF MaxOf
                <5> QED BY <4>1, <5>3 DEF PulledCP
            <4>2. CASE ~HasChanges(r)
                BY <4>2 DEF PulledCP
            <4> QED BY <4>1, <4>2
        <3>3. Covers(PulledPack(r), a, b, LocalChanges(c, 0, req[r].hi).seen)
            BY <2>6 DEF Covers
        <3> HIDE DEF a, b, c
        <3>4. LocalChanges(c, 0, req[r].hi)'.seen = LocalChanges(c, 0, req[r].hi).seen
            BY <2>1 DEF LocalChanges, c
        <3> QED BY <2>1, <2>3, <2>7, <2>8, <3>1, <3>2, <3>3, <3>4 DEF HandlerInv, a, b, c
    <2> QED BY <2>9, <2>10
<1> QED BY <1>1, <1>2

\* Once server_seq is stored the pushed changes are part of the answer.
LEMMA HandlerUpdateDoc ==
    ASSUME IndInv, TypeOK', LogStep, NEW r \in Reqs, HandlerInv(r), UpdateDoc(r)
    PROVE  HandlerInv(r)'
<1>0. TypeOK /\ LogInv
    BY DEF IndInv
<1>1. CASE docSeq # init[r]
    <2>1. pc'[r] \in {"failed", "idle"}
        BY <1>0, <1>1 DEF UpdateDoc, Fail, Return, TypeOK
    <2> QED BY <2>1 DEF HandlerInv
<1>2. CASE docSeq = init[r]
    <2> DEFINE c == req[r].client
               own == LocalChanges(c, 0, req[r].hi).seen
               n == ServerSeq(r)
    <2>1. /\ pc[r] = "store" /\ pc'[r] = "client" /\ wrote[r] = Size(r) /\ docSeq' = n
          /\ UNCHANGED <<changes, req, init, base, resp>>
        BY <1>0, <1>2 DEF UpdateDoc, TypeOK
    <2>2. /\ docSeq \in Nat /\ base[r] \in Nat /\ req[r].hi \in Nat /\ req[r].serverSeq \in Nat
          /\ Size(r) \in Nat /\ n \in Nat /\ init[r] \in Nat
        BY <1>0, SizeType DEF TypeOK, Request
    <2>3. /\ init[r] <= docSeq /\ req[r].serverSeq <= init[r]
          /\ StoredWithin(c, base[r], init[r])
          /\ Covers(resp[r], req[r].serverSeq, init[r], {})
          /\ resp[r].cp.serverSeq = n
        BY <2>1 DEF HandlerInv
    <2>4. /\ base[r] < req[r].hi /\ resp[r].cp.clientSeq = req[r].hi
          /\ \A j \in 1 .. wrote[r] : changes[init[r] + j] = [actor |-> c, clientSeq |-> base[r] + j]
        BY <1>0, <2>1 DEF LogInv, WriterInv
    <2>5. Size(r) = req[r].hi - base[r] /\ n = init[r] + (req[r].hi - base[r])
        BY <2>2, <2>4 DEF Size, ServerSeq
    <2> HIDE DEF n
    <2>6. init[r] <= n /\ req[r].serverSeq <= n
        BY <2>2, <2>3, <2>4, <2>5
    <2>7. StoredWithin(c, req[r].hi, n)
        <3> SUFFICES ASSUME NEW k \in 1 .. req[r].hi
                     PROVE  \E t \in 1 .. n : changes[t] = [actor |-> c, clientSeq |-> k]
            BY DEF StoredWithin
        <3>1. CASE k <= base[r]
            <4>1. k \in 1 .. base[r]
                BY <2>2, <3>1
            <4>2. PICK t \in 1 .. init[r] : changes[t] = [actor |-> c, clientSeq |-> k]
                BY <2>3, <4>1 DEF StoredWithin
            <4>3. t \in 1 .. n
                BY <2>2, <2>6
            <4> QED BY <4>2, <4>3
        <3>2. CASE k > base[r]
            <4> DEFINE j == k - base[r]
            <4>1. j \in 1 .. wrote[r] /\ base[r] + j = k /\ init[r] + j \in 1 .. n
                BY <2>1, <2>2, <2>5, <3>2
            <4> HIDE DEF j
            <4> QED BY <2>4, <4>1
        <3> QED BY <2>2, <3>1, <3>2
    <2>8. \A s \in (req[r].serverSeq + 1) .. n : changes[s] \in resp[r].root.seen \cup own
        <3> SUFFICES ASSUME NEW s \in (req[r].serverSeq + 1) .. n
                     PROVE  changes[s] \in resp[r].root.seen \cup own
            OBVIOUS
        <3>1. CASE s <= init[r]
            <4>1. s \in (req[r].serverSeq + 1) .. init[r]
                BY <2>2, <3>1
            <4> QED BY <2>3, <4>1 DEF Covers
        <3>2. CASE s > init[r]
            <4> DEFINE j == s - init[r]
            <4>1. j \in 1 .. wrote[r] /\ init[r] + j = s /\ base[r] + j \in (0 + 1) .. req[r].hi
                BY <2>1, <2>2, <2>5, <3>2
            <4> HIDE DEF j
            <4>2. changes[s] = [actor |-> c, clientSeq |-> base[r] + j]
                BY <2>4, <4>1
            <4> QED BY <4>1, <4>2 DEF LocalChanges
        <3> QED BY <2>2, <3>1, <3>2
    <2>9. Prefix(docSeq) \subseteq Prefix(n)
        BY <1>2, <2>2, <2>6, Longer
    <2> HIDE DEF own
    <2>10. Covers(resp[r], req[r].serverSeq, n, own)'
        <3>1. own' = own /\ n' = n
            BY <2>1 DEF own, n, LocalChanges, ServerSeq, Size
        <3>2. /\ resp[r].root.seen \subseteq Prefix(n)
              /\ resp[r].isSnapshot => Prefix(req[r].serverSeq) \subseteq resp[r].root.seen
            BY <2>3, <2>9 DEF Covers
        <3>3. \A s : Prefix(s)' = Prefix(s)
            BY <2>1 DEF Prefix
        <3> QED BY <2>1, <2>8, <3>1, <3>2, <3>3 DEF Covers
    <2>11. \A d, k, s : StoredWithin(d, k, s)' <=> StoredWithin(d, k, s)
        BY <2>1 DEF StoredWithin
    <2>12. ServerSeq(r)' = n /\ n <= docSeq'
        BY <2>1, <2>2 DEF n, ServerSeq, Size
    <2>13. StoredWithin(c, req[r].hi, n)'
        <3>1. c' = c /\ n' = n
            BY <2>1, <2>12 DEF n
        <3> QED BY <2>1, <2>7, <2>11, <3>1
    <2>14. own' = own /\ n' = n
        BY <2>1 DEF own, n, LocalChanges, ServerSeq, Size
    <2> QED BY <2>1, <2>3, <2>4, <2>6, <2>10, <2>12, <2>13, <2>14 DEF HandlerInv, own
<1> QED BY <1>1, <1>2

\* The last writes of a handler change nothing of its answer.
LEMMA HandlerFinish ==
    ASSUME IndInv, TypeOK', LogStep, NEW r \in Reqs, HandlerInv(r),
           UpdateClient(r) \/ UpdateSynced(r) \/ FindMin(r)
    PROVE  HandlerInv(r)'
<1>0. TypeOK
    BY DEF IndInv
<1> DEFINE c == req[r].client
           a == req[r].serverSeq
           b == resp[r].cp.serverSeq
           own == LocalChanges(c, 0, req[r].hi).seen
<1>1. pc[r] \in {"client", "synced", "min"} /\ UNCHANGED <<docSeq, changes>>
    BY DEF UpdateClient, UpdateSynced, FindMin, dbVars
<1>2. /\ b <= docSeq /\ a <= b
      /\ StoredWithin(c, resp[r].cp.clientSeq, b)
      /\ Covers(resp[r], a, b, own)
      /\ b = ServerSeq(r)
    BY <1>1 DEF HandlerInv
<1>3. CASE pc'[r] = "idle"
    BY <1>3 DEF HandlerInv
<1>4. CASE UpdateClient(r) \/ UpdateSynced(r)
    <2>1. pc'[r] \in {"synced", "min"} /\ UNCHANGED <<req, resp, init, base>>
        BY <1>0, <1>4 DEF UpdateClient, UpdateSynced, TypeOK
    <2>2. /\ StoredWithin(c, resp[r].cp.clientSeq, b)' <=> StoredWithin(c, resp[r].cp.clientSeq, b)
          /\ Covers(resp[r], a, b, own)' <=> Covers(resp[r], a, b, own)
          /\ ServerSeq(r)' = ServerSeq(r)
        BY <1>1, <2>1 DEF StoredWithin, Covers, Prefix, LocalChanges, ServerSeq, Size
    <2> QED BY <1>1, <1>2, <2>1, <2>2 DEF HandlerInv
<1>5. CASE FindMin(r) /\ pc'[r] # "idle"
    <2>1. /\ pc'[r] = "done" /\ req'[r] = req[r]
          /\ resp'[r] = [resp[r] EXCEPT !.min = MinSyncedSeq]
        BY <1>0, <1>5 DEF FindMin, Return, TypeOK
    <2>2. /\ resp'[r].cp = resp[r].cp /\ resp'[r].root = resp[r].root
          /\ resp'[r].isSnapshot = resp[r].isSnapshot
        BY <1>0, <2>1 DEF TypeOK, Response
    <2>3. /\ StoredWithin(c, resp[r].cp.clientSeq, b)' <=> StoredWithin(c, resp[r].cp.clientSeq, b)
          /\ Covers(resp[r], a, b, own)' <=> Covers(resp[r], a, b, own)
        BY <1>1, <2>1, <2>2 DEF StoredWithin, Covers, Prefix, LocalChanges
    <2> QED BY <1>1, <1>2, <2>1, <2>2, <2>3 DEF HandlerInv
<1> QED BY <1>3, <1>4, <1>5

\* Every step keeps what is said of a handler.
LEMMA HandlerInvStep ==
    ASSUME IndInv, DeliveryInv, [Next]_vars, TypeOK', LogStep, NEW r \in Reqs
    PROVE  HandlerInv(r)'
<1>0. TypeOK /\ LogInv /\ SnapshotIsReplay /\ \A q \in Reqs : RequestInv(q) /\ HandlerInv(q)
    BY DEF IndInv, DeliveryInv
<1>1. ASSUME pc'[r] \in {"idle", "recv", "findDoc", "failed"} PROVE HandlerInv(r)'
    BY <1>1 DEF HandlerInv
<1>2. ASSUME pc'[r] = pc[r], req'[r] = req[r], init'[r] = init[r], base'[r] = base[r],
             info'[r] = info[r], resp'[r] = resp[r]
      PROVE  HandlerInv(r)'
    BY <1>0, <1>2, HandlerKept
<1>3. ASSUME NEW q \in Reqs, Free(q), \A p \in Reqs \ {q} :
                init'[p] = init[p] /\ base'[p] = base[p] /\ info'[p] = info[p]
      PROVE  HandlerInv(r)'
    <2>1. CASE q = r
        BY <1>0, <1>1, <1>3, <2>1 DEF Free, TypeOK
    <2>2. CASE q # r
        BY <1>0, <1>2, <1>3, <2>2 DEF Free, TypeOK
    <2> QED BY <2>1, <2>2
<1>4. ASSUME NEW c \in Clients, ClientNext(c) PROVE HandlerInv(r)'
    <2>0. wait[c] # None => wait[c] \in Reqs
        BY <1>0 DEF TypeOK
    <2>1. CASE Update(c)
        BY <1>2, <2>1 DEF Update, handlerVars
    <2>2. ASSUME NEW m, Call(c, m) PROVE HandlerInv(r)'
        <3>1. PICK q \in Reqs : pc' = [pc EXCEPT ![q] = "recv"] /\ \E x : req' = [req EXCEPT ![q] = x]
            BY <2>2 DEF Call
        <3>2. UNCHANGED <<init, base, info, resp>>
            BY <2>2 DEF Call
        <3>3. CASE q = r
            BY <1>0, <1>1, <3>1, <3>3 DEF TypeOK
        <3>4. CASE q # r
            BY <1>0, <1>2, <3>1, <3>2, <3>4 DEF TypeOK
        <3> QED BY <3>3, <3>4
    <2>3. CASE Receive(c) \/ ReceiveError(c)
        BY <1>3, <2>0, <2>3 DEF Receive, ReceiveError
    <2>4. CASE Lost(c)
        <3>1. CASE pc[wait[c]] \in {"done", "failed"}
            BY <1>3, <2>0, <2>4, <3>1 DEF Lost
        <3>2. CASE pc[wait[c]] \notin {"done", "failed"}
            BY <1>2, <2>4, <3>2 DEF Lost
        <3> QED BY <3>1, <3>2
    <2>5. CASE Cancel(c)
        BY <1>0, <1>3, <2>0, <2>5 DEF Cancel, TypeOK
    <2> QED BY <1>4, <2>1, <2>2, <2>3, <2>4, <2>5 DEF ClientNext, Attach, Sync, Detach
<1>5. ASSUME NEW q \in Reqs, NEW o, NEW p, Return(q, o, p), q # r PROVE HandlerInv(r)'
    BY <1>0, <1>2, <1>5 DEF Return, TypeOK
<1>6. ASSUME NEW q \in Reqs, Fail(q) PROVE HandlerInv(r)'
    <2>1. CASE q = r
        BY <1>0, <1>1, <1>6, <2>1 DEF Fail, Return, TypeOK
    <2>2. CASE q # r
        BY <1>5, <1>6, <2>2 DEF Fail
    <2> QED BY <2>1, <2>2
<1>7. ASSUME NEW q \in Reqs, HandlerStep(q) \/ FindClient(q), q # r PROVE HandlerInv(r)'
    <2>1. CASE Fail(q)
        BY <1>6, <2>1
    <2>2. CASE FindMin(q)
        BY <1>5, <1>7, <2>2 DEF FindMin
    <2>3. CASE ~Fail(q) /\ ~FindMin(q)
        BY <1>0, <1>2, <1>7, <2>3 DEF HandlerStep, FindClient, FindDoc, Pull, StoreChange, UpdateDoc,
                                      UpdateClient, UpdateSynced, TypeOK
    <2> QED BY <2>1, <2>2, <2>3
<1>8. CASE FindClient(r)
    <2>1. pc'[r] = "findDoc"
        BY <1>0, <1>8 DEF FindClient, TypeOK
    <2> QED BY <1>1, <2>1
<1>9. CASE StoreChange(r)
    BY <1>2, <1>9 DEF StoreChange
<1>10. CASE HandlerStep(r)
    BY <1>0, <1>9, <1>10, HandlerFindDoc, HandlerPull, HandlerUpdateDoc, HandlerFinish DEF HandlerStep
<1>11. ASSUME NEW q \in Reqs, ReqNext(q) PROVE HandlerInv(r)'
    <2>1. CASE HandlerStep(q) \/ FindClient(q)
        BY <1>7, <1>8, <1>10, <2>1
    <2>2. CASE JobRead(q) \/ JobStore(q) \/ JobError(q)
        <3>1. UNCHANGED <<pc, req, info, init, base, resp>>
            BY <2>2 DEF JobRead, JobStore, JobError, handlerVars
        <3> QED BY <1>2, <3>1
    <2>3. CASE DBError(q)
        BY <1>6, <2>3 DEF DBError
    <2> QED BY <1>11, <2>1, <2>2, <2>3 DEF ReqNext
<1>12. CASE UNCHANGED vars
    BY <1>2, <1>12 DEF vars, handlerVars
<1>13. CASE Crash
    <2>1. pc'[r] \in {"failed", "idle"}
        BY <1>13 DEF Crash
    <2> QED BY <1>1, <2>1
<1> QED BY <1>4, <1>11, <1>12, <1>13 DEF Next

-----------------------------------------------------------------------------
(***************************************************************************)
(* Snapshots                                                               *)
(***************************************************************************)

\* Every step keeps what is said of the snapshots.
LEMMA SnapshotStep ==
    ASSUME IndInv, DeliveryInv, [Next]_vars, TypeOK', RowsInv', LogStep
    PROVE  SnapshotIsReplay' /\ \A r \in Reqs : JobInv(r)'
<1>0. /\ TypeOK /\ RowsInv /\ SnapshotIsReplay
      /\ \A r \in Reqs : JobInv(r) /\ HandlerInv(r)
    BY DEF IndInv, LogInv, DeliveryInv
<1>1. /\ docSeq \in Nat /\ docSeq' \in Nat /\ docSeq <= docSeq'
      /\ snapshot.serverSeq \in Nat
      /\ \A r \in Reqs : job[r].seq \in Nat
    BY <1>0 DEF TypeOK, LogStep
<1>2. \A m \in Nat : m <= docSeq => m <= docSeq' /\ FindChangeInfos(0, m)' = FindChangeInfos(0, m)
    BY <1>0, <1>1, FindStable
<1>3. snapshot.serverSeq <= docSeq /\ snapshot.root = FindChangeInfos(0, snapshot.serverSeq)
    BY <1>0 DEF SnapshotIsReplay
<1>4. ASSUME snapshot' = snapshot PROVE SnapshotIsReplay'
    BY <1>1, <1>2, <1>3, <1>4 DEF SnapshotIsReplay
<1>5. ASSUME NEW r \in Reqs, job'[r] = job[r] PROVE JobInv(r)'
    BY <1>0, <1>1, <1>2, <1>5 DEF JobInv
<1>6. ASSUME NEW r \in Reqs, job'[r] = NoJob PROVE JobInv(r)'
    BY <1>6 DEF JobInv, NoJob
<1>7. ASSUME NEW q \in Reqs, FindMin(q)
      PROVE  SnapshotIsReplay' /\ \A r \in Reqs : JobInv(r)'
    <2>1. snapshot' = snapshot
        BY <1>7 DEF FindMin, dbVars
    <2>2. ASSUME NEW r \in Reqs PROVE JobInv(r)'
        <3>1. CASE job'[r] = job[r]
            BY <1>5, <3>1
        <3>2. CASE job'[r] # job[r]
            <4>1. r = q /\ job'[r] = [pc |-> "wait", seq |-> ServerSeq(q), root |-> EmptyRoot]
                BY <1>0, <1>7, <3>2 DEF FindMin, TypeOK
            <4>2. ServerSeq(q) <= docSeq /\ ServerSeq(q) \in Nat
                <5>1. pc[q] = "min"
                    BY <1>7 DEF FindMin
                <5>2. resp[q].cp.serverSeq = ServerSeq(q) /\ resp[q].cp.serverSeq <= docSeq
                    BY <1>0, <5>1 DEF HandlerInv
                <5> QED BY <1>0, <5>2, SizeType
            <4> QED BY <1>2, <4>1, <4>2 DEF JobInv
        <3> QED BY <3>1, <3>2
    <2> QED BY <1>4, <2>1, <2>2
<1>8. ASSUME NEW q \in Reqs, JobRead(q)
      PROVE  SnapshotIsReplay' /\ \A r \in Reqs : JobInv(r)'
    <2>1. snapshot' = snapshot /\ docSeq' = docSeq /\ changes' = changes /\ job[q].pc = "wait"
        BY <1>8 DEF JobRead, dbVars
    <2>2. ASSUME NEW r \in Reqs, r # q PROVE JobInv(r)'
        <3>1. job'[r] = job[r]
            BY <1>0, <1>8, <2>2 DEF JobRead, TypeOK
        <3> QED BY <1>5, <3>1
    <2>3. CASE job[q].seq - snapshot.serverSeq < SnapshotInterval
        <3>1. job'[q] = NoJob
            BY <1>0, <1>8, <2>3 DEF JobRead, TypeOK
        <3> QED BY <1>4, <1>6, <2>1, <2>2, <3>1
    <2>4. CASE ~(job[q].seq - snapshot.serverSeq < SnapshotInterval)
        <3>1. /\ job'[q].seq = job[q].seq
              /\ job'[q].root = Execute(snapshot.root, FindChangeInfos(snapshot.serverSeq, job[q].seq))
            BY <1>0, <1>8, <2>4 DEF JobRead, TypeOK
        <3>2. snapshot.serverSeq <= job[q].seq
            BY <1>1, <2>4, SnapshotAssumption
        <3>3. job[q].seq <= docSeq
            BY <1>0, <2>1 DEF JobInv
        <3>4. job'[q].root = FindChangeInfos(0, job[q].seq)
            BY <1>0, <1>1, <1>3, <3>1, <3>2, <3>3, FindExtend
        <3>5. JobInv(q)'
            BY <1>1, <1>2, <3>1, <3>3, <3>4 DEF JobInv
        <3> QED BY <1>4, <2>1, <2>2, <3>5
    <2> QED BY <2>3, <2>4
<1>9. ASSUME NEW q \in Reqs, JobStore(q)
      PROVE  SnapshotIsReplay' /\ \A r \in Reqs : JobInv(r)'
    <2>1. \A r \in Reqs : JobInv(r)'
        <3>1. \A r \in Reqs : job'[r] \in {job[r], NoJob}
            BY <1>0, <1>9 DEF JobStore, TypeOK
        <3> QED BY <1>5, <1>6, <3>1
    <2>2. SnapshotIsReplay'
        <3>1. CASE snapshot.serverSeq < job[q].seq
            <4>1. snapshot' = [serverSeq |-> job[q].seq, root |-> job[q].root]
                BY <1>9, <3>1 DEF JobStore
            <4>2. job[q].seq <= docSeq /\ job[q].root = FindChangeInfos(0, job[q].seq)
                BY <1>0, <1>9 DEF JobInv, JobStore
            <4> QED BY <1>1, <1>2, <4>1, <4>2 DEF SnapshotIsReplay
        <3>2. CASE ~(snapshot.serverSeq < job[q].seq)
            BY <1>4, <1>9, <3>2 DEF JobStore
        <3> QED BY <3>1, <3>2
    <2> QED BY <2>1, <2>2
<1>10. ASSUME snapshot' = snapshot, \A r \in Reqs : job'[r] \in {job[r], NoJob}
       PROVE  SnapshotIsReplay' /\ \A r \in Reqs : JobInv(r)'
    BY <1>4, <1>5, <1>6, <1>10
<1>11. ASSUME NEW q \in Reqs, ReqNext(q), ~FindMin(q), ~JobRead(q), ~JobStore(q)
       PROVE  snapshot' = snapshot /\ \A r \in Reqs : job'[r] \in {job[r], NoJob}
    BY <1>0, <1>11 DEF ReqNext, HandlerStep, FindClient, FindDoc, Pull, StoreChange, UpdateDoc,
                       UpdateClient, UpdateSynced, DBError, JobError, dbVars, TypeOK
<1>12. ASSUME NEW c \in Clients, ClientNext(c)
       PROVE  snapshot' = snapshot /\ job' = job
    BY <1>12 DEF ClientNext, Update, Attach, Sync, Detach, Call, Receive, ReceiveError, Lost, Cancel, dbVars
<1>13. CASE UNCHANGED vars
    BY <1>10, <1>13 DEF vars, dbVars
<1>14. CASE Crash
    <2>1. snapshot' = snapshot /\ \A r \in Reqs : job'[r] = NoJob
        BY <1>14 DEF Crash, dbVars
    <2> QED BY <1>10, <2>1
<1> QED BY <1>7, <1>8, <1>9, <1>10, <1>11, <1>12, <1>13, <1>14 DEF Next

-----------------------------------------------------------------------------
(***************************************************************************)
(* The theorems                                                            *)
(***************************************************************************)

\* What is said of replicas, requests, handlers and snapshots holds at the start.
LEMMA DeliveryInit ==
    ASSUME Init
    PROVE  DeliveryInv
<1>1. 1 .. 0 = {} /\ (0 + 1) .. 0 = {}
    OBVIOUS
<1>2. ASSUME NEW c \in Clients PROVE ReplicaInv(c)
    <2>1. /\ doc[c] = [attached |-> FALSE, cp |-> InitialCheckpoint, acked |-> 0, seq |-> 0]
          /\ root[c] = EmptyRoot /\ syncedSeqs[c] = NoRow /\ docSeq = 0
        BY DEF Init
    <2>2. doc[c].acked = 0 /\ doc[c].seq = 0 /\ doc[c].cp.serverSeq = 0 /\ root[c].seen = {}
        BY <2>1 DEF InitialCheckpoint, EmptyRoot
    <2>3. Prefix(0) = {} /\ LocalChanges(c, 0, 0).seen = {} /\ StoredWithin(c, 0, 0)
        BY <1>1 DEF Prefix, LocalChanges, StoredWithin
    <2> QED BY <2>1, <2>2, <2>3 DEF ReplicaInv, NoRow
<1>3. ASSUME NEW r \in Reqs PROVE RequestInv(r) /\ HandlerInv(r) /\ JobInv(r)
    BY DEF Init, RequestInv, HandlerInv, JobInv, NoJob
<1>4. SnapshotIsReplay
    <2>1. snapshot.serverSeq = 0 /\ docSeq = 0 /\ snapshot.root = EmptyRoot /\ DOMAIN changes = {}
        BY DEF Init
    <2>2. FindChangeInfos(0, 0).seen = {} /\ FindChangeInfos(0, 0).twice = {}
        BY <2>1 DEF FindChangeInfos
    <2>3. FindChangeInfos(0, 0) = [seen |-> FindChangeInfos(0, 0).seen, twice |-> FindChangeInfos(0, 0).twice]
        BY DEF FindChangeInfos
    <2> QED BY <2>1, <2>2, <2>3 DEF SnapshotIsReplay, EmptyRoot
<1> QED BY <1>2, <1>3, <1>4 DEF DeliveryInv

\* Every step keeps it, with the inductive invariant of the log.
LEMMA DeliveryStep ==
    ASSUME IndInv, DeliveryInv, [Next]_vars
    PROVE  IndInv' /\ DeliveryInv' /\ LogStep
<1>1. IndInv' /\ LogStep
    BY IndInvStep, LogInvStep DEF IndInv
<1>2. TypeOK' /\ RowsInv'
    BY <1>1 DEF IndInv, LogInv
<1>3. ASSUME NEW c \in Clients
      PROVE  /\ ReplicaInv(c)'
             /\ doc'[c].cp.serverSeq >= doc[c].cp.serverSeq /\ doc'[c].seq >= doc[c].seq
    BY <1>1, <1>2, ReplicaStep
<1>4. ASSUME NEW r \in Reqs PROVE RequestInv(r)' /\ HandlerInv(r)'
    BY <1>1, <1>2, <1>3, RequestStep, HandlerInvStep
<1>5. SnapshotIsReplay' /\ \A r \in Reqs : JobInv(r)'
    BY <1>1, <1>2, SnapshotStep
<1> QED BY <1>1, <1>3, <1>4, <1>5 DEF DeliveryInv

\* What replicas, requests and answers claim holds in every reachable state,
\* faults included: packs.PushPull and ApplyChangePack keep it (DeliveryInv).
THEOREM Delivery == Spec => []DeliveryInv
<1>1. Init => DeliveryInv
    BY DeliveryInit
<1>2. IndInv /\ DeliveryInv /\ [Next]_vars => DeliveryInv'
    BY DeliveryStep
<1> QED BY <1>1, <1>2, Invariance, PTL DEF Spec

\* A replica misses nothing below its checkpoint (ReplicaComplete), whatever
\* snapshots, retries and faults brought it there.
THEOREM ReplicasAreComplete == Spec => []ReplicaComplete
<1>1. IndInv /\ DeliveryInv => ReplicaComplete
    <2> SUFFICES ASSUME IndInv, DeliveryInv, NEW c \in Clients, NEW s \in 1 .. doc[c].cp.serverSeq
                 PROVE  s \in DOMAIN changes /\ s <= docSeq /\ changes[s] \in root[c].seen
        BY DEF ReplicaComplete
    <2>1. doc[c].cp.serverSeq \in Nat /\ docSeq \in Nat
        BY DEF IndInv, TypeOK, Checkpoint
    <2>2. ReplicaInv(c)
        BY DEF DeliveryInv
    <2>3. doc[c].cp.serverSeq <= docSeq
        BY <2>2 DEF ReplicaInv
    <2>4. Prefix(doc[c].cp.serverSeq) \subseteq root[c].seen
        BY <2>2 DEF ReplicaInv
    <2>5. s \in 1 .. docSeq
        BY <2>1, <2>3
    <2>6. changes[s] \in root[c].seen
        BY <2>4 DEF Prefix
    <2>7. s \in DOMAIN changes
        BY <2>5 DEF IndInv, LogInv, RowsInv
    <2> QED BY <2>1, <2>5, <2>6, <2>7
<1> QED BY <1>1, Delivery, Invariance, PTL

\* A row of syncedseqs never claims more than its client has received
\* (SyncedSeqSound): garbage collection does not outrun a client with a row.
THEOREM SyncedSeqsAreSound == Spec => []SyncedSeqSound
<1>1. DeliveryInv => SyncedSeqSound
    BY DEF DeliveryInv, ReplicaInv, SyncedSeqSound
<1> QED BY <1>1, Delivery, PTL

\* The stored snapshot is the replay of the log up to its server seq
\* (SnapshotIsReplay), however storeSnapshot interleaves with the handlers.
THEOREM SnapshotsAreReplays == Spec => []SnapshotIsReplay
<1>1. DeliveryInv => SnapshotIsReplay
    BY DEF DeliveryInv
<1> QED BY <1>1, Delivery, PTL

-----------------------------------------------------------------------------
(***************************************************************************)
(* PushPull implements ChangeLog                                           *)
(***************************************************************************)

\* No client makes more edits than the bound of the model.
EditsBounded == \A c \in Clients : doc[c].seq <= MaxEdits

\* Only Update makes an edit, under the bound.
LEMMA EditsStep ==
    ASSUME TypeOK, EditsBounded, [Next]_vars
    PROVE  EditsBounded'
<1>1. ASSUME NEW c \in Clients, Update(c) PROVE EditsBounded'
    <2>1. doc[c].seq < MaxEdits /\ doc[c].seq \in Nat /\ MaxEdits \in Nat
        BY <1>1, BoundsAssumption DEF Update, TypeOK
    <2>2. doc'[c].seq = doc[c].seq + 1 /\ \A d \in Clients \ {c} : doc'[d] = doc[d]
        BY <1>1 DEF Update, TypeOK
    <2> QED BY <2>1, <2>2 DEF EditsBounded
<1>2. ASSUME NEW c \in Clients, Receive(c) PROVE EditsBounded'
    <2>1. \A d \in Clients : doc'[d].seq = doc[d].seq
        BY <1>2 DEF Receive, AppliedDoc, TypeOK
    <2> QED BY <2>1 DEF EditsBounded
<1>3. ASSUME UNCHANGED doc PROVE EditsBounded'
    BY <1>3 DEF EditsBounded
<1>4. ASSUME NEW c \in Clients, ClientNext(c), ~Update(c), ~Receive(c) PROVE UNCHANGED doc
    BY <1>4 DEF ClientNext, Attach, Sync, Detach, Call, ReceiveError, Lost, Cancel
<1>5. ASSUME NEW r \in Reqs, ReqNext(r) PROVE UNCHANGED doc
    BY <1>5 DEF ReqNext, HandlerStep, FindClient, FindDoc, Pull, StoreChange, UpdateDoc, UpdateClient,
                UpdateSynced, FindMin, JobRead, JobStore, DBError, JobError, clientVars
<1>6. CASE UNCHANGED vars \/ Crash
    BY <1>3, <1>6 DEF vars, Crash, clientVars
<1> QED BY <1>1, <1>2, <1>3, <1>4, <1>5, <1>6 DEF Next

\* The log of the refinement mapping has docSeq changes and their prefixes.
LEMMA LogFacts ==
    ASSUME TypeOK
    PROVE  /\ Len(Log) = docSeq /\ DOMAIN Log = 1 .. docSeq
           /\ \A n \in Nat : n <= docSeq => Promise!Prefix(n) = Prefix(n)
<1>1. docSeq \in Nat
    BY DEF TypeOK
<1>2. Len(Log) = docSeq /\ DOMAIN Log = 1 .. docSeq
    BY <1>1 DEF Log
<1>3. ASSUME NEW n \in Nat, n <= docSeq PROVE Promise!Prefix(n) = Prefix(n)
    <2>1. \A s \in 1 .. n : Log[s] = changes[s]
        BY <1>1, <1>3 DEF Log
    <2> QED BY <2>1 DEF Prefix, Promise!Prefix
<1> QED BY <1>2, <1>3

\* Own changes are the same set on both levels.
LEMMA OwnFacts ==
    ASSUME NEW c, NEW a, NEW b
    PROVE  Promise!Own(c, a, b) = LocalChanges(c, a, b).seen
BY DEF LocalChanges, Promise!Own

\* A step that keeps server_seq keeps the log of the refinement mapping.
LEMMA LogKept ==
    ASSUME LogStep, UNCHANGED docSeq
    PROVE  UNCHANGED Log
BY DEF LogStep, Log

\* A step that moves neither the log nor a replica is a stutter of ChangeLog.
LEMMA Stutters ==
    ASSUME LogStep, UNCHANGED <<docSeq, doc, root>>
    PROVE  UNCHANGED Promise!vars
BY LogKept DEF Promise!vars

\* Document.Update is an edit of ChangeLog.
LEMMA UpdateEdits ==
    ASSUME TypeOK, LogStep, NEW c \in Clients, Update(c)
    PROVE  Promise!Edit(c)
<1> DEFINE n == doc[c].seq
<1>1. /\ n \in Nat
      /\ doc' = [doc EXCEPT ![c].seq = n + 1]
      /\ root' = [root EXCEPT ![c] = Execute(root[c], LocalChanges(c, n, n + 1))]
      /\ UNCHANGED docSeq
    BY DEF Update, TypeOK, dbVars
<1>2. /\ doc'[c].seq = n + 1 /\ doc'[c].acked = doc[c].acked /\ doc'[c].cp = doc[c].cp
      /\ \A d \in Clients \ {c} : doc'[d] = doc[d] /\ root'[d] = root[d]
      /\ root'[c].seen = root[c].seen \cup LocalChanges(c, n, n + 1).seen
    BY <1>1 DEF TypeOK, Execute
<1>3. [d \in Clients |-> doc'[d].seq] = [[d \in Clients |-> doc[d].seq] EXCEPT ![c] = @ + 1]
    BY <1>2
<1>4. [d \in Clients |-> root'[d].seen]
        = [[d \in Clients |-> root[d].seen] EXCEPT ![c] = @ \cup LocalChanges(c, n, n + 1).seen]
    BY <1>2
<1>5. /\ [d \in Clients |-> doc'[d].acked] = [d \in Clients |-> doc[d].acked]
      /\ [d \in Clients |-> doc'[d].cp.serverSeq] = [d \in Clients |-> doc[d].cp.serverSeq]
    BY <1>2
<1>6. UNCHANGED Log
    BY <1>1, LogKept
<1>7. Promise!Own(c, n, n + 1) = LocalChanges(c, n, n + 1).seen
    BY OwnFacts
<1> QED BY <1>3, <1>4, <1>5, <1>6, <1>7 DEF Promise!Edit

\* What ApplyChangePack brings to a replica is a delivery of ChangeLog.
LEMMA ReceiveDelivers ==
    ASSUME IndInv, DeliveryInv, EditsBounded, [Next]_vars, TypeOK', LogStep,
           NEW c \in Clients, Receive(c)
    PROVE  Promise!Deliver(c)
<1> DEFINE n == doc'[c].cp.serverSeq
           k == doc'[c].acked
           shown == root'[c].seen
<1>0. TypeOK /\ LogInv /\ ReplicaInv(c) /\ \A r \in Reqs : RequestInv(r) /\ HandlerInv(r)
    BY DEF IndInv, DeliveryInv
<1>1. ReplicaInv(c)' /\ n >= doc[c].cp.serverSeq /\ doc'[c].seq = doc[c].seq
    BY <1>0, ReplicaReceive
<1>2. /\ \A d \in Clients \ {c} : doc'[d] = doc[d] /\ root'[d] = root[d]
      /\ UNCHANGED <<docSeq, changes>>
      /\ k = MaxOf(doc[c].acked, MinOf(doc[c].seq, resp[wait[c]].cp.clientSeq))
    BY <1>0 DEF Receive, TypeOK, dbVars, AppliedDoc
<1>3. /\ docSeq \in Nat /\ n \in Nat /\ k \in Nat /\ doc[c].cp.serverSeq \in Nat
      /\ doc[c].acked \in Nat /\ doc[c].seq \in Nat /\ MaxEdits \in Nat
    BY <1>0, BoundsAssumption DEF TypeOK, Checkpoint
<1>4. /\ k <= doc[c].seq /\ n <= docSeq /\ StoredWithin(c, k, n)
      /\ Prefix(n) \cup LocalChanges(c, 0, doc[c].seq).seen \subseteq shown
      /\ shown \subseteq Prefix(docSeq) \cup LocalChanges(c, 0, doc[c].seq).seen
    BY <1>1, <1>2 DEF ReplicaInv, StoredWithin, Prefix, LocalChanges
<1>5. doc[c].acked <= k
    <2>1. resp[wait[c]].cp.clientSeq \in Nat
        BY <1>0 DEF Receive, TypeOK, Response, Checkpoint
    <2> QED BY <1>2, <1>3, <2>1, MaxMinFacts
<1>6. k \in 0 .. MaxEdits
    BY <1>3, <1>4 DEF EditsBounded
<1>7. UNCHANGED Log /\ Len(Log) = docSeq
      /\ Promise!Prefix(n) = Prefix(n) /\ Promise!Prefix(docSeq) = Prefix(docSeq)
    BY <1>0, <1>2, <1>3, <1>4, LogKept, LogFacts
<1>8. LocalChanges(c, 0, k).seen \subseteq Prefix(docSeq)
    <2>1. Prefix(n) \subseteq Prefix(docSeq)
        BY <1>3, <1>4, Longer
    <2>2. LocalChanges(c, 0, k).seen \subseteq Prefix(n)
        BY <1>4 DEF LocalChanges, StoredWithin, Prefix
    <2> QED BY <2>1, <2>2
<1>9. \A a, b : Promise!Own(c, a, b) = LocalChanges(c, a, b).seen
    BY OwnFacts
<1>10. /\ [d \in Clients |-> doc'[d].seq] = [d \in Clients |-> doc[d].seq]
       /\ [d \in Clients |-> doc'[d].cp.serverSeq]
            = [[d \in Clients |-> doc[d].cp.serverSeq] EXCEPT ![c] = n]
       /\ [d \in Clients |-> doc'[d].acked] = [[d \in Clients |-> doc[d].acked] EXCEPT ![c] = k]
       /\ [d \in Clients |-> root'[d].seen] = [[d \in Clients |-> root[d].seen] EXCEPT ![c] = shown]
    <2>1. ASSUME NEW d \in Clients, d # c
          PROVE  doc'[d] = doc[d] /\ root'[d] = root[d]
        BY <1>2, <2>1
    <2>2. [d \in Clients |-> doc'[d].seq] = [d \in Clients |-> doc[d].seq]
        BY <1>1, <2>1
    <2>3. [d \in Clients |-> doc'[d].cp.serverSeq]
            = [[d \in Clients |-> doc[d].cp.serverSeq] EXCEPT ![c] = n]
        BY <2>1
    <2>4. [d \in Clients |-> doc'[d].acked] = [[d \in Clients |-> doc[d].acked] EXCEPT ![c] = k]
        BY <2>1
    <2>5. [d \in Clients |-> root'[d].seen] = [[d \in Clients |-> root[d].seen] EXCEPT ![c] = shown]
        BY <2>1
    <2> QED BY <2>2, <2>3, <2>4, <2>5
<1>11. n \in doc[c].cp.serverSeq .. docSeq
    BY <1>1, <1>3, <1>4
<1>12. /\ Prefix(n) \cup LocalChanges(c, 0, doc[c].seq).seen \subseteq shown
       /\ shown \in SUBSET (Prefix(docSeq) \cup LocalChanges(c, 0, doc[c].seq).seen)
    BY <1>4
<1> HIDE DEF n, k, shown
<1>13. \E m \in [d \in Clients |-> doc[d].cp.serverSeq][c] .. Len(Log) :
            [d \in Clients |-> doc[d].cp.serverSeq]'
                = [[d \in Clients |-> doc[d].cp.serverSeq] EXCEPT ![c] = m]
    BY <1>7, <1>10, <1>11
<1>14. \E j \in 0 .. MaxEdits :
        /\ [d \in Clients |-> doc[d].acked][c] <= j /\ j <= [d \in Clients |-> doc[d].seq][c]
        /\ Promise!Own(c, 0, j) \subseteq Promise!Prefix(Len(Log))
        /\ [d \in Clients |-> doc[d].acked]' = [[d \in Clients |-> doc[d].acked] EXCEPT ![c] = j]
    <2>1. [d \in Clients |-> doc[d].acked][c] = doc[c].acked /\ [d \in Clients |-> doc[d].seq][c] = doc[c].seq
        OBVIOUS
    <2>2. k <= doc[c].seq
        BY <1>4
    <2>3. Promise!Own(c, 0, k) \subseteq Promise!Prefix(Len(Log))
        BY <1>7, <1>8, <1>9
    <2> QED BY <1>5, <1>6, <1>10, <2>1, <2>2, <2>3
<1>15. \E x \in SUBSET (Promise!Prefix(Len(Log)) \cup Promise!Own(c, 0, [d \in Clients |-> doc[d].seq][c])) :
        /\ Promise!Prefix([d \in Clients |-> doc[d].cp.serverSeq]'[c])
                \cup Promise!Own(c, 0, [d \in Clients |-> doc[d].seq][c]) \subseteq x
        /\ [d \in Clients |-> root[d].seen]' = [[d \in Clients |-> root[d].seen] EXCEPT ![c] = x]
    <2>1. [d \in Clients |-> doc[d].seq][c] = doc[c].seq /\ [d \in Clients |-> doc[d].cp.serverSeq]'[c] = n
        BY <1>10
    <2>2. /\ Promise!Prefix(n) \cup Promise!Own(c, 0, doc[c].seq) \subseteq shown
          /\ shown \in SUBSET (Promise!Prefix(Len(Log)) \cup Promise!Own(c, 0, doc[c].seq))
        BY <1>7, <1>9, <1>12
    <2> QED BY <1>10, <2>1, <2>2
<1> QED BY <1>7, <1>10, <1>13, <1>14, <1>15 DEF Promise!Deliver

\* StoreChangeInfos appends a run of the client's changes without a gap.
LEMMA UpdateDocPushes ==
    ASSUME IndInv, DeliveryInv, EditsBounded, TypeOK', NEW r \in Reqs,
           UpdateDoc(r), docSeq = init[r]
    PROVE  Promise!Push(req[r].client)
<1> DEFINE c == req[r].client
           lo == base[r]
           hi == req[r].hi
           m == hi - lo
           run == [k \in 1 .. m |-> [actor |-> c, clientSeq |-> lo + k]]
<1>0. TypeOK /\ LogInv /\ RequestInv(r) /\ HandlerInv(r)
    BY DEF IndInv, DeliveryInv
<1>1. pc[r] = "store" /\ wrote[r] = Size(r) /\ UNCHANGED <<changes, doc, root>> /\ docSeq' = ServerSeq(r)
    BY DEF UpdateDoc, clientVars
<1>2. c \in Clients /\ lo \in Nat /\ hi \in Nat /\ docSeq \in Nat /\ doc[c].seq \in Nat /\ MaxEdits \in Nat
    BY <1>0, <1>1, BoundsAssumption DEF TypeOK, Request
<1>3. lo < hi /\ \A j \in 1 .. wrote[r] : changes[docSeq + j] = [actor |-> c, clientSeq |-> lo + j]
    BY <1>0, <1>1 DEF LogInv, WriterInv
<1>4. hi <= doc[c].seq
    BY <1>0, <1>1 DEF RequestInv
<1>5. wrote[r] = m /\ docSeq' = docSeq + m
    BY <1>1, <1>2, <1>3 DEF Size, ServerSeq
<1>6. lo \in 0 .. MaxEdits /\ hi \in 0 .. MaxEdits
    BY <1>2, <1>3, <1>4 DEF EditsBounded
<1>7. StoredWithin(c, lo, docSeq)
    BY <1>0, <1>1 DEF HandlerInv
<1>8. Promise!Own(c, 0, lo) \subseteq Promise!Prefix(Len(Log))
    <2>1. LocalChanges(c, 0, lo).seen \subseteq Prefix(docSeq)
        BY <1>7 DEF LocalChanges, StoredWithin, Prefix
    <2>2. Promise!Prefix(docSeq) = Prefix(docSeq) /\ Len(Log) = docSeq
        BY <1>0, <1>2, LogFacts
    <2> QED BY <2>1, <2>2, OwnFacts
<1>9. m \in Nat
    BY <1>2, <1>3
<1>10. Log' = Log \o run
    <2> DEFINE S == {changes[s] : s \in 1 .. docSeq + m}
    <2>1. Log' = [s \in 1 .. docSeq + m |-> changes[s]]
        BY <1>1, <1>5 DEF Log
    <2>2. \A j \in 1 .. m : run[j] = changes[docSeq + j]
        BY <1>3, <1>5
    <2> HIDE DEF m
    <2>3. \A j \in 1 .. m : docSeq + j \in 1 .. docSeq + m
        BY <1>2, <1>9
    <2>4. Log \in Seq(S) /\ Len(Log) = docSeq
        <3>1. \A s \in 1 .. docSeq : s \in 1 .. docSeq + m
            BY <1>2, <1>9
        <3>2. Log \in [1 .. docSeq -> S]
            BY <3>1 DEF Log
        <3> HIDE DEF S
        <3> QED BY <1>2, <3>2
    <2>5. run \in Seq(S) /\ Len(run) = m
        <3>1. run \in [1 .. m -> S]
            BY <2>2, <2>3
        <3> HIDE DEF S, run
        <3> QED BY <1>9, <3>1
    <2>6. Log' \in Seq(S) /\ Len(Log') = docSeq + m
        <3>1. Log' \in [1 .. docSeq + m -> S]
            BY <2>1
        <3>2. docSeq + m \in Nat
            BY <1>2, <1>9
        <3> HIDE DEF S
        <3> QED BY <3>1, <3>2
    <2> HIDE DEF run, S
    <2>7. /\ Log \o run \in Seq(S)
          /\ Len(Log \o run) = docSeq + m
          /\ \A i \in 1 .. docSeq + m : (Log \o run)[i] = IF i <= docSeq THEN Log[i] ELSE run[i - docSeq]
        <3>1. /\ Log \o run \in Seq(S) /\ Len(Log \o run) = Len(Log) + Len(run)
              /\ \A i \in 1 .. Len(Log) + Len(run) :
                    (Log \o run)[i] = IF i <= Len(Log) THEN Log[i] ELSE run[i - Len(Log)]
            BY <2>4, <2>5, ConcatProperties
        <3>2. Len(Log) = docSeq /\ Len(run) = m
            BY <2>4, <2>5
        <3> QED BY <3>1, <3>2
    <2>8. ASSUME NEW i \in 1 .. docSeq + m PROVE Log'[i] = (Log \o run)[i]
        <3>1. CASE i <= docSeq
            <4>1. i \in 1 .. docSeq
                BY <1>2, <3>1
            <4>2. Log[i] = changes[i]
                BY <4>1 DEF Log
            <4> QED BY <2>1, <2>7, <3>1, <4>2
        <3>2. CASE ~(i <= docSeq)
            <4>1. i - docSeq \in 1 .. m /\ docSeq + (i - docSeq) = i
                BY <1>2, <1>9, <3>2
            <4>2. run[i - docSeq] = changes[i]
                BY <2>2, <4>1
            <4> QED BY <2>1, <2>7, <3>2, <4>2
        <3> QED BY <3>1, <3>2
    <2> QED BY <2>6, <2>7, <2>8, SeqEqual
<1>11. [d \in Clients |-> doc[d].seq][c] = doc[c].seq
    BY <1>2
<1> HIDE DEF lo, hi, c
<1>12. \E a, b \in 0 .. MaxEdits :
        /\ a < b /\ b <= [d \in Clients |-> doc[d].seq][c]
        /\ Promise!Own(c, 0, a) \subseteq Promise!Prefix(Len(Log))
        /\ Log' = Log \o [k \in 1 .. (b - a) |-> [actor |-> c, clientSeq |-> a + k]]
    BY <1>3, <1>4, <1>6, <1>8, <1>10, <1>11
<1> USE DEF c
<1> QED BY <1>1, <1>12 DEF Promise!Push

\* Every step of PushPull is a step of ChangeLog or a stutter.
LEMMA RefinementStep ==
    ASSUME IndInv, DeliveryInv, EditsBounded, [Next]_vars
    PROVE  [Promise!Next]_(Promise!vars)
<1>0. TypeOK /\ TypeOK' /\ LogStep
    BY DeliveryStep DEF IndInv
<1>1. ASSUME UNCHANGED <<docSeq, doc, root>> PROVE UNCHANGED Promise!vars
    BY <1>0, <1>1, Stutters
<1>2. ASSUME NEW c \in Clients, ClientNext(c) PROVE Promise!Next \/ UNCHANGED Promise!vars
    <2>1. CASE Update(c)
        BY <1>0, <2>1, UpdateEdits DEF Promise!Next
    <2>2. CASE Receive(c)
        BY <1>0, <2>2, ReceiveDelivers DEF Promise!Next
    <2>3. CASE ~Update(c) /\ ~Receive(c)
        <3>1. UNCHANGED <<docSeq, doc, root>>
            BY <1>2, <2>3 DEF ClientNext, Attach, Sync, Detach, Call, ReceiveError, Lost, Cancel, dbVars
        <3> QED BY <1>1, <3>1
    <2> QED BY <2>1, <2>2, <2>3
<1>3. ASSUME NEW r \in Reqs, ReqNext(r) PROVE Promise!Next \/ UNCHANGED Promise!vars
    <2>1. CASE UpdateDoc(r) /\ docSeq = init[r]
        <3>1. req[r].client \in Clients
            BY <1>0, <2>1 DEF UpdateDoc, TypeOK
        <3> QED BY <1>0, <2>1, <3>1, UpdateDocPushes DEF Promise!Next
    <2>2. CASE ~(UpdateDoc(r) /\ docSeq = init[r])
        <3>1. UNCHANGED <<docSeq, doc, root>>
            BY <1>3, <2>2 DEF ReqNext, HandlerStep, FindClient, FindDoc, Pull, StoreChange, UpdateDoc,
                              UpdateClient, UpdateSynced, FindMin, JobRead, JobStore, DBError, JobError,
                              dbVars, clientVars
        <3> QED BY <1>1, <3>1
    <2> QED BY <2>1, <2>2
<1>4. CASE UNCHANGED vars \/ Crash
    <2>1. UNCHANGED <<docSeq, doc, root>>
        BY <1>4 DEF vars, Crash, dbVars, clientVars
    <2> QED BY <1>1, <2>1
<1> QED BY <1>2, <1>3, <1>4 DEF Next

\* PushPull implements ChangeLog (ImplementsChangeLog): the handlers, their
\* lock, their writes one by one and every fault are steps or stutters of one
\* append-only log and replicas that show their own edits and what they received.
THEOREM Refinement == Spec => ImplementsChangeLog
<1>1. Init => Promise!Init
    <2> SUFFICES ASSUME Init PROVE Promise!Init
        OBVIOUS
    <2>1. docSeq = 0 /\ doc = [c \in Clients |->
                [attached |-> FALSE, cp |-> InitialCheckpoint, acked |-> 0, seq |-> 0]]
          /\ root = [c \in Clients |-> EmptyRoot]
        BY DEF Init
    <2>2. Log = <<>>
        BY <2>1 DEF Log
    <2> QED BY <2>1, <2>2 DEF Promise!Init, InitialCheckpoint, EmptyRoot
<1>2. Init => EditsBounded
    <2> SUFFICES ASSUME Init, NEW c \in Clients PROVE doc[c].seq <= MaxEdits
        BY DEF EditsBounded
    <2>1. doc[c].seq = 0
        BY DEF Init
    <2> QED BY <2>1, BoundsAssumption
<1>3. IndInv /\ EditsBounded /\ [Next]_vars => EditsBounded'
    BY EditsStep DEF IndInv
<1>4. IndInv /\ DeliveryInv /\ EditsBounded /\ [Next]_vars => [Promise!Next]_(Promise!vars)
    BY RefinementStep
<1>5. Spec => []EditsBounded
    BY <1>2, <1>3, Invariance, PTL DEF Spec
<1> QED BY <1>1, <1>4, <1>5, Invariance, Delivery, PTL DEF Spec, ImplementsChangeLog, Promise!Spec

-----------------------------------------------------------------------------
(***************************************************************************)
(* Each change once                                                        *)
(***************************************************************************)

\* No change of client c in the log has a client seq above n.
LoggedUpTo(c, n) ==
    \A s \in 1 .. docSeq : changes[s].actor = c => changes[s].clientSeq <= n

\* A handler under the pushpull lock holds the client seq of its client's last
\* change in the log: pushChanges compares the changes with it.
HolderKnows(r) ==
    LET c == req[r].client
    IN  lock = r =>
            /\ pc[r] \in {"findDoc", "pull", "client"} => LoggedUpTo(c, info[r].clientSeq)
            /\ pc[r] = "store" => LoggedUpTo(c, base[r])

\* The row of the client holds it as well, unless a handler is about to write it.
RowKnows(c) ==
    \/ LoggedUpTo(c, clientInfos[c].clientSeq)
    \/ \E r \in Reqs : lock = r /\ req[r].client = c /\ pc[r] = "client"

\* Without DetachDocument the seqs of an attachment start from 0 once, before
\* the client has a change in the log.
AttachedInv ==
    /\ \A c \in Clients :
        /\ clientInfos[c].status # "detached"
        /\ clientInfos[c].status = "never" => clientInfos[c].clientSeq = 0
    /\ \A r \in Reqs :
        /\ req[r].method # "detach"
        /\ info[r].status # "detached"
        /\ info[r].status = "never" => info[r].clientSeq = 0
        /\ pc[r] \in {"pull", "store", "client"} => info[r].status = "attached"

\* Why a change that is sent again is found in the log.
RetryInv ==
    /\ AttachedInv
    /\ \A c \in Clients : RowKnows(c)
    /\ \A r \in Reqs : HolderKnows(r)
    /\ NoDuplicates

\* The log grows when a handler updates server_seq, by its pushedChanges.
LEMMA PushedChanges ==
    ASSUME IndInv, TypeOK', NEW r \in Reqs, UpdateDoc(r), docSeq = init[r]
    PROVE  /\ pc[r] = "store" /\ pc'[r] = "client" /\ HasChanges(r) /\ lock = r
           /\ \A q \in Reqs \ {r} : pc'[q] = pc[q]
           /\ UNCHANGED <<clientInfos, changes, syncedSeqs, lock, req, info, init, base, resp, doc, root, wait>>
           /\ req[r].client \in Clients
           /\ base[r] \in Nat /\ docSeq \in Nat /\ docSeq' \in Nat
           /\ docSeq < docSeq' /\ docSeq' = ServerSeq(r)
           /\ base[r] + (docSeq' - docSeq) = req[r].hi
           /\ info[r].clientSeq = req[r].hi /\ resp[r].cp.clientSeq = req[r].hi
           /\ req[r].lo <= base[r]
           /\ \A s \in (docSeq + 1) .. docSeq' :
                /\ changes[s].actor = req[r].client
                /\ changes[s].clientSeq = base[r] + (s - docSeq)
<1>0. TypeOK /\ LogInv
    BY DEF IndInv
<1>1. /\ pc[r] = "store" /\ wrote[r] = Size(r) /\ pc'[r] = "client"
      /\ docSeq' = ServerSeq(r)
      /\ \A q \in Reqs \ {r} : pc'[q] = pc[q]
      /\ UNCHANGED <<clientInfos, changes, syncedSeqs, lock, req, info, init, base, resp, doc, root, wait>>
    BY <1>0 DEF UpdateDoc, clientVars, TypeOK
<1>2. req[r].client \in Clients /\ base[r] \in Nat /\ docSeq \in Nat /\ docSeq' \in Nat
      /\ req[r].hi \in Nat /\ req[r].lo \in Nat
    BY <1>0, <1>1 DEF TypeOK, Request
<1>3. /\ req[r].lo <= base[r] /\ base[r] < req[r].hi
      /\ info[r].clientSeq = req[r].hi /\ resp[r].cp.clientSeq = req[r].hi
      /\ \A j \in 1 .. wrote[r] :
            changes[init[r] + j] = [actor |-> req[r].client, clientSeq |-> base[r] + j]
    BY <1>0, <1>1 DEF LogInv, WriterInv
<1>4. HasChanges(r) /\ lock = r
    <2>1. HasChanges(r)
        BY <1>2, <1>3 DEF HasChanges
    <2> QED BY <1>0, <1>1, <2>1 DEF LogInv, LockInv, Working
<1>5. Size(r) = req[r].hi - base[r] /\ docSeq' = docSeq + Size(r)
    BY <1>1, <1>3 DEF Size, ServerSeq
<1>6. docSeq < docSeq' /\ base[r] + (docSeq' - docSeq) = req[r].hi
    BY <1>2, <1>3, <1>5
<1>7. ASSUME NEW s \in (docSeq + 1) .. docSeq'
      PROVE  /\ changes[s].actor = req[r].client
             /\ changes[s].clientSeq = base[r] + (s - docSeq)
    <2>1. s - docSeq \in 1 .. wrote[r] /\ s = init[r] + (s - docSeq)
        <3>1. wrote[r] = docSeq' - docSeq
            BY <1>1, <1>2, <1>5
        <3> QED BY <1>2, <3>1
    <2>2. changes[s] = [actor |-> req[r].client, clientSeq |-> base[r] + (s - docSeq)]
        BY <1>3, <2>1
    <2> QED BY <2>2
<1> QED BY <1>1, <1>2, <1>3, <1>4, <1>6, <1>7

\* A push adds nothing twice if the handler knows what is in the log.
LEMMA PushedOnce ==
    ASSUME IndInv, TypeOK', NEW r \in Reqs, UpdateDoc(r), docSeq = init[r],
           LoggedUpTo(req[r].client, base[r]), NoDuplicates
    PROVE  NoDuplicates'
<1> DEFINE c == req[r].client
<1>1. /\ base[r] \in Nat /\ docSeq \in Nat /\ docSeq' \in Nat /\ changes' = changes
      /\ \A s \in (docSeq + 1) .. docSeq' :
            changes[s].actor = c /\ changes[s].clientSeq = base[r] + (s - docSeq)
    BY PushedChanges
<1>2. DOMAIN changes \subseteq Nat \ {0}
    BY DEF IndInv, TypeOK
<1>3. SUFFICES ASSUME NEW s \in DOMAIN changes, NEW t \in DOMAIN changes,
                      s <= docSeq', t <= docSeq', changes[s] = changes[t]
               PROVE  s = t
    BY <1>1 DEF NoDuplicates
<1>4. s \in Nat \ {0} /\ t \in Nat \ {0}
    BY <1>2
<1>5. CASE s <= docSeq /\ t <= docSeq
    BY <1>3, <1>5 DEF NoDuplicates
<1>6. ASSUME NEW x \in 1 .. docSeq, NEW y \in (docSeq + 1) .. docSeq', changes[x] = changes[y]
      PROVE  FALSE
    <2>1. changes[x].actor = c /\ changes[x].clientSeq = base[r] + (y - docSeq)
        BY <1>1, <1>6
    <2>2. changes[x].clientSeq <= base[r]
        BY <2>1 DEF LoggedUpTo
    <2> QED BY <1>1, <2>1, <2>2
<1>7. CASE s <= docSeq /\ t > docSeq
    BY <1>1, <1>3, <1>4, <1>6, <1>7
<1>8. CASE s > docSeq /\ t <= docSeq
    BY <1>1, <1>3, <1>4, <1>6, <1>8
<1>9. CASE s > docSeq /\ t > docSeq
    <2>1. s \in (docSeq + 1) .. docSeq' /\ t \in (docSeq + 1) .. docSeq'
        BY <1>1, <1>3, <1>4, <1>9
    <2>2. base[r] + (s - docSeq) = base[r] + (t - docSeq)
        BY <1>1, <1>3, <2>1
    <2> QED BY <1>1, <1>4, <2>2
<1> QED BY <1>1, <1>4, <1>5, <1>7, <1>8, <1>9

\* No other step adds to the log.
LEMMA OnlyPushesGrow ==
    ASSUME [Next]_vars, ~(\E r \in Reqs : UpdateDoc(r) /\ docSeq = init[r])
    PROVE  UNCHANGED docSeq
<1>1. ASSUME NEW c \in Clients, ClientNext(c) PROVE UNCHANGED docSeq
    BY <1>1 DEF ClientNext, Update, Attach, Sync, Detach, Call, Receive, ReceiveError, Lost, Cancel, dbVars
<1>2. ASSUME NEW r \in Reqs, ReqNext(r) PROVE UNCHANGED docSeq
    BY <1>2 DEF ReqNext, HandlerStep, FindClient, FindDoc, Pull, StoreChange, UpdateDoc, UpdateClient,
                UpdateSynced, FindMin, JobRead, JobStore, DBError, JobError, dbVars
<1> QED BY <1>1, <1>2 DEF Next, Crash, vars, dbVars

\* What readers find is the same then, and so is what is said of it.
LEMMA LogSame ==
    ASSUME TypeOK, LogStep, UNCHANGED docSeq
    PROVE  /\ \A s \in 1 .. docSeq : changes'[s] = changes[s]
           /\ \A c, n : LoggedUpTo(c, n) => LoggedUpTo(c, n)'
<1>1. \A s \in 1 .. docSeq : changes'[s] = changes[s]
    BY DEF LogStep
<1> QED BY <1>1 DEF LoggedUpTo

LEMMA NoDuplicatesSame ==
    ASSUME TypeOK, TypeOK', LogStep, UNCHANGED docSeq, NoDuplicates
    PROVE  NoDuplicates'
<1> SUFFICES ASSUME NEW s \in DOMAIN changes', NEW t \in DOMAIN changes',
                    s <= docSeq, t <= docSeq, changes'[s] = changes'[t]
             PROVE  s = t
    BY DEF NoDuplicates
<1>1. docSeq \in Nat /\ s \in Nat \ {0} /\ t \in Nat \ {0}
    BY DEF TypeOK
<1>2. s \in 1 .. docSeq /\ t \in 1 .. docSeq
    BY <1>1
<1>3. s \in DOMAIN changes /\ t \in DOMAIN changes /\ changes[s] = changes[t]
    BY <1>2 DEF LogStep
<1> QED BY <1>3 DEF NoDuplicates

\* Attachments stay attachments as long as no client detaches.
LEMMA AttachedStep ==
    ASSUME TypeOK, AttachedInv, "detach" \notin Methods, [Next]_vars
    PROVE  AttachedInv'
<1> DEFINE Client(c) == /\ clientInfos[c].status # "detached"
                        /\ clientInfos[c].status = "never" => clientInfos[c].clientSeq = 0
           Handler(r) == /\ req[r].method # "detach"
                         /\ info[r].status # "detached"
                         /\ info[r].status = "never" => info[r].clientSeq = 0
                         /\ pc[r] \in {"pull", "store", "client"} => info[r].status = "attached"
<1>0. /\ \A c \in Clients : Client(c)
      /\ \A r \in Reqs : Handler(r)
    BY DEF AttachedInv
<1>2. ASSUME NEW r \in Reqs, UNCHANGED clientInfos,
             \A q \in Reqs \ {r} : req'[q] = req[q] /\ info'[q] = info[q] /\ pc'[q] = pc[q],
             Handler(r)'
      PROVE  AttachedInv'
    <2>1. \A c \in Clients : Client(c)'
        BY <1>0, <1>2
    <2>2. ASSUME NEW q \in Reqs PROVE Handler(q)'
        <3>1. CASE q = r
            BY <1>2, <3>1
        <3>2. CASE q # r
            BY <1>0, <1>2, <3>2
        <3> QED BY <3>1, <3>2
    <2> HIDE DEF Client, Handler
    <2> QED BY <2>1, <2>2 DEF AttachedInv, Client, Handler
<1>3. ASSUME UNCHANGED <<clientInfos, req, info, pc>> PROVE AttachedInv'
    BY <1>0, <1>3 DEF AttachedInv
<1>4. ASSUME NEW r \in Reqs, NEW o \in {"done", "failed"}, NEW p, Return(r, o, p), UNCHANGED clientInfos
      PROVE  AttachedInv'
    <2>1. \A q \in Reqs \ {r} : req'[q] = req[q] /\ info'[q] = info[q] /\ pc'[q] = pc[q]
        BY <1>4 DEF Return, TypeOK
    <2>2. Handler(r)'
        BY <1>0, <1>4 DEF Return, TypeOK, NoRequest, NoInfo
    <2> HIDE DEF Handler
    <2> QED BY <1>2, <1>4, <2>1, <2>2
<1>5. ASSUME NEW r \in Reqs, Free(r), UNCHANGED <<clientInfos, info>> PROVE AttachedInv'
    <2>1. \A q \in Reqs \ {r} : req'[q] = req[q] /\ info'[q] = info[q] /\ pc'[q] = pc[q]
        BY <1>5 DEF Free, TypeOK
    <2>2. Handler(r)'
        BY <1>0, <1>5 DEF Free, TypeOK, NoRequest
    <2> HIDE DEF Handler
    <2> QED BY <1>2, <1>5, <2>1, <2>2
<1>6. ASSUME NEW c \in Clients, NEW m \in Methods, Call(c, m) PROVE AttachedInv'
    <2>1. PICK r \in Reqs :
            /\ pc' = [pc EXCEPT ![r] = "recv"]
            /\ req' = [req EXCEPT ![r] =
                        [client |-> c, method |-> m, serverSeq |-> doc[c].cp.serverSeq,
                         lo |-> doc[c].acked, hi |-> doc[c].seq]]
        BY <1>6 DEF Call
    <2>2. UNCHANGED <<clientInfos, info>> /\ m # "detach"
        BY <1>6 DEF Call, dbVars
    <2>3. \A q \in Reqs \ {r} : req'[q] = req[q] /\ info'[q] = info[q] /\ pc'[q] = pc[q]
        BY <2>1, <2>2 DEF TypeOK
    <2>4. Handler(r)'
        BY <1>0, <2>1, <2>2 DEF TypeOK
    <2> HIDE DEF Handler
    <2> QED BY <1>2, <2>2, <2>3, <2>4
<1>7. ASSUME NEW c \in Clients, ClientNext(c) PROVE AttachedInv'
    <2>1. CASE Update(c)
        BY <1>3, <2>1 DEF Update, dbVars, handlerVars
    <2>2. CASE Attach(c) \/ Sync(c) \/ Detach(c)
        BY <1>6, <2>2 DEF Attach, Sync, Detach
    <2>3. CASE Receive(c) \/ ReceiveError(c)
        BY <1>5, <2>3 DEF Receive, ReceiveError, dbVars, TypeOK
    <2>4. CASE Lost(c)
        BY <1>3, <1>5, <2>4 DEF Lost, dbVars, TypeOK
    <2>5. CASE Cancel(c)
        <3>1. PICK r \in Reqs :
                Free(r) /\ info' = [info EXCEPT ![r] = NoInfo] /\ UNCHANGED clientInfos
            BY <2>5 DEF Cancel, dbVars, TypeOK
        <3>2. \A q \in Reqs \ {r} : req'[q] = req[q] /\ info'[q] = info[q] /\ pc'[q] = pc[q]
            BY <3>1 DEF Free, TypeOK
        <3>3. Handler(r)'
            BY <3>1 DEF Free, TypeOK, NoRequest, NoInfo
        <3> QED BY <1>2, <3>1, <3>2, <3>3
    <2> QED BY <1>7, <2>1, <2>2, <2>3, <2>4, <2>5 DEF ClientNext
<1>8. ASSUME NEW r \in Reqs, UNCHANGED <<clientInfos, req>>,
             \A q \in Reqs \ {r} : info'[q] = info[q] /\ pc'[q] = pc[q],
             \/ pc'[r] = "findDoc" /\ info'[r] = clientInfos[req[r].client] /\ req[r].client \in Clients
             \/ pc'[r] \in {"pull", "store", "client"} /\ info'[r].status = "attached"
             \/ pc'[r] \in {"synced", "min"} /\ info'[r] = info[r]
      PROVE  AttachedInv'
    <2>1. Handler(r)'
        BY <1>0, <1>8
    <2> HIDE DEF Handler
    <2> QED BY <1>2, <1>8, <2>1
<1>9. ASSUME NEW r \in Reqs, ReqNext(r) PROVE AttachedInv'
    <2>1. CASE FindClient(r)
        BY <1>8, <2>1 DEF FindClient, dbVars, TypeOK
    <2>2. CASE FindDoc(r)
        <3>1. CASE Admitted(r)
            <4>1. MarkedInfo(r).status = "attached"
                BY <1>0, <3>1 DEF Admitted, MarkedInfo, TypeOK, Request
            <4> QED BY <1>8, <2>2, <3>1, <4>1 DEF FindDoc, dbVars, TypeOK
        <3>2. CASE ~Admitted(r)
            BY <1>4, <2>2, <3>2 DEF FindDoc, Fail, dbVars
        <3> QED BY <3>1, <3>2
    <2>3. CASE Pull(r)
        <3>1. CASE init[r] < req[r].serverSeq
            BY <1>4, <2>3, <3>1 DEF Pull, Fail, dbVars
        <3>2. CASE ~(init[r] < req[r].serverSeq)
            <4>1. /\ pc'[r] \in {"store", "client"} /\ info'[r].status = info[r].status
                  /\ info[r].status = "attached" /\ UNCHANGED <<clientInfos, req>>
                  /\ \A q \in Reqs \ {r} : info'[q] = info[q] /\ pc'[q] = pc[q]
                BY <1>0, <2>3, <3>2 DEF Pull, dbVars, TypeOK, ClientDocInfo
            <4> QED BY <1>8, <4>1
        <3> QED BY <3>1, <3>2
    <2>4. CASE StoreChange(r)
        BY <1>3, <2>4 DEF StoreChange
    <2>5. CASE UpdateDoc(r)
        <3>1. CASE docSeq = init[r]
            BY <1>0, <1>8, <2>5, <3>1 DEF UpdateDoc, TypeOK
        <3>2. CASE docSeq # init[r]
            BY <1>4, <2>5, <3>2 DEF UpdateDoc, Fail
        <3> QED BY <3>1, <3>2
    <2>6. CASE UpdateClient(r)
        <3>1. /\ pc[r] = "client" /\ info[r].status = "attached" /\ UNCHANGED <<req, info>>
              /\ \A q \in Reqs \ {r} : pc'[q] = pc[q]
              /\ pc'[r] = "synced"
            BY <1>0, <2>6 DEF UpdateClient, TypeOK
        <3>2. \A c \in Clients : clientInfos'[c] = clientInfos[c] \/ clientInfos'[c].status = "attached"
            BY <2>6, <3>1 DEF UpdateClient, StoredInfo, TypeOK
        <3>3. \A c \in Clients : Client(c)'
            BY <1>0, <3>2
        <3>4. \A q \in Reqs : Handler(q)'
            BY <1>0, <3>1
        <3> HIDE DEF Client, Handler
        <3> QED BY <3>3, <3>4 DEF AttachedInv, Client, Handler
    <2>7. CASE UpdateSynced(r)
        BY <1>8, <2>7 DEF UpdateSynced, TypeOK
    <2>8. CASE FindMin(r) \/ DBError(r)
        BY <1>4, <2>8 DEF FindMin, DBError, Fail, dbVars
    <2>9. CASE JobRead(r) \/ JobStore(r) \/ JobError(r)
        BY <1>3, <2>9 DEF JobRead, JobStore, JobError, dbVars, handlerVars
    <2> QED BY <1>9, <2>1, <2>2, <2>3, <2>4, <2>5, <2>6, <2>7, <2>8, <2>9 DEF ReqNext, HandlerStep
<1>10. CASE Crash
    <2>1. \A r \in Reqs : Handler(r)'
        BY <1>0, <1>10 DEF Crash, NoRequest, NoInfo
    <2>2. \A c \in Clients : Client(c)'
        BY <1>0, <1>10 DEF Crash, dbVars
    <2> HIDE DEF Client, Handler
    <2> QED BY <2>1, <2>2 DEF AttachedInv, Client, Handler
<1>11. CASE UNCHANGED vars
    BY <1>3, <1>11 DEF vars, dbVars, handlerVars
<1> HIDE DEF Client, Handler
<1> QED BY <1>7, <1>9, <1>10, <1>11 DEF Next

\* A push keeps what the handlers and the rows hold.
LEMMA RetryPush ==
    ASSUME IndInv, TypeOK', RetryInv, NEW q \in Reqs, UpdateDoc(q), docSeq = init[q]
    PROVE  /\ \A c \in Clients : RowKnows(c)'
           /\ \A r \in Reqs : HolderKnows(r)'
           /\ NoDuplicates'
<1>1. /\ pc[q] = "store" /\ pc'[q] = "client" /\ lock = q
      /\ UNCHANGED <<clientInfos, changes, lock, req, info, base>>
      /\ base[q] \in Nat /\ docSeq \in Nat /\ docSeq' \in Nat
      /\ docSeq < docSeq' /\ base[q] + (docSeq' - docSeq) = req[q].hi
      /\ info[q].clientSeq = req[q].hi
      /\ \A s \in (docSeq + 1) .. docSeq' :
            /\ changes[s].actor = req[q].client
            /\ changes[s].clientSeq = base[q] + (s - docSeq)
    BY PushedChanges
<1>2. LoggedUpTo(req[q].client, base[q])
    BY <1>1 DEF RetryInv, HolderKnows
<1>3. NoDuplicates'
    BY <1>2, PushedOnce DEF RetryInv
<1>4. ASSUME NEW r \in Reqs PROVE HolderKnows(r)'
    <2> SUFFICES ASSUME r = q PROVE LoggedUpTo(req[q].client, info[q].clientSeq)'
        BY <1>1 DEF HolderKnows
    <2> SUFFICES ASSUME NEW s \in 1 .. docSeq', changes[s].actor = req[q].client
                 PROVE  changes[s].clientSeq <= req[q].hi
        BY <1>1 DEF LoggedUpTo
    <2>1. CASE s <= docSeq
        <3>1. changes[s].clientSeq <= base[q]
            BY <1>1, <1>2, <2>1 DEF LoggedUpTo
        <3>2. changes[s].clientSeq \in Nat
            <4>1. s \in DOMAIN changes
                BY <1>1, <2>1 DEF IndInv, LogInv, RowsInv
            <4> QED BY <4>1 DEF IndInv, TypeOK, Change
        <3> QED BY <1>1, <3>1, <3>2
    <2>2. CASE s > docSeq
        BY <1>1, <2>2
    <2> QED BY <1>1, <2>1, <2>2
<1>5. ASSUME NEW c \in Clients PROVE RowKnows(c)'
    <2>1. CASE c = req[q].client
        BY <1>1, <2>1 DEF RowKnows
    <2>2. CASE c # req[q].client
        <3>1. LoggedUpTo(c, clientInfos[c].clientSeq)
            BY <1>1, <2>2 DEF RetryInv, RowKnows
        <3>2. ASSUME NEW s \in 1 .. docSeq', changes[s].actor = c
              PROVE  s \in 1 .. docSeq
            BY <1>1, <2>2, <3>2
        <3> QED BY <1>1, <3>1, <3>2 DEF RowKnows, LoggedUpTo
    <2> QED BY <2>1, <2>2
<1> QED BY <1>3, <1>4, <1>5

\* A handler that goes on as before holds what it held.
LEMMA HolderKept ==
    ASSUME TypeOK, LogStep, UNCHANGED docSeq, NEW r \in Reqs, HolderKnows(r), LockInv',
           \/ pc'[r] \notin {"findDoc", "pull", "store", "client"}
           \/ /\ pc'[r] = pc[r] /\ req'[r] = req[r] /\ info'[r] = info[r] /\ base'[r] = base[r]
              /\ lock' = r => lock = r
    PROVE  HolderKnows(r)'
<1>1. \A s \in 1 .. docSeq : changes'[s] = changes[s]
    BY LogSame
<1> QED BY <1>1 DEF HolderKnows, LoggedUpTo

\* A row that grows holds what it held, or what the handler that wrote it did.
LEMMA RowKept ==
    ASSUME TypeOK, TypeOK', LogStep, UNCHANGED docSeq, LogInv, NEW c \in Clients, RowKnows(c),
           clientInfos[c].clientSeq <= clientInfos'[c].clientSeq,
           \A r \in Reqs : lock = r /\ req[r].client = c /\ pc[r] = "client" =>
                \/ lock' = r /\ req'[r].client = c /\ pc'[r] = "client"
                \/ HolderKnows(r) /\ info[r].clientSeq <= clientInfos'[c].clientSeq
    PROVE  RowKnows(c)'
<1>1. \A s \in 1 .. docSeq : changes'[s] = changes[s] /\ changes[s].clientSeq \in Nat
    <2>1. \A s \in 1 .. docSeq : s \in DOMAIN changes /\ changes'[s] = changes[s]
        BY DEF LogStep
    <2> QED BY <2>1 DEF TypeOK, Change
<1>2. ASSUME NEW n \in Nat, LoggedUpTo(c, n), n <= clientInfos'[c].clientSeq
      PROVE  RowKnows(c)'
    <2>1. clientInfos'[c].clientSeq \in Nat
        BY DEF TypeOK, ClientDocInfo
    <2> DEFINE row == clientInfos'[c].clientSeq
    <2>2. \A s \in 1 .. docSeq : changes'[s].actor = c => changes'[s].clientSeq <= row
        <3> HIDE DEF row
        <3> QED BY <1>1, <1>2, <2>1 DEF LoggedUpTo, row
    <2> QED BY <2>2 DEF RowKnows, LoggedUpTo
<1>3. CASE LoggedUpTo(c, clientInfos[c].clientSeq)
    BY <1>2, <1>3 DEF TypeOK, ClientDocInfo
<1>4. ASSUME NEW r \in Reqs, lock = r, req[r].client = c, pc[r] = "client" PROVE RowKnows(c)'
    <2>1. CASE lock' = r /\ req'[r].client = c /\ pc'[r] = "client"
        BY <2>1 DEF RowKnows
    <2>2. CASE HolderKnows(r) /\ info[r].clientSeq <= clientInfos'[c].clientSeq
        BY <1>2, <1>4, <2>2 DEF HolderKnows, TypeOK, ClientDocInfo
    <2> QED BY <1>4, <2>1, <2>2
<1> QED BY <1>3, <1>4 DEF RowKnows

\* The steps of a client leave the working handlers alone.
LEMMA RetryClient ==
    ASSUME IndInv, IndInv', LogStep, RetryInv, Faults \subseteq {"lost"},
           NEW c \in Clients, ClientNext(c)
    PROVE  /\ \A d \in Clients : RowKnows(d)'
           /\ \A r \in Reqs : HolderKnows(r)'
<1>0. TypeOK /\ TypeOK' /\ LogInv /\ LockInv'
    BY DEF IndInv, LogInv
<1>1. UNCHANGED <<clientInfos, docSeq, lock, info, base>>
    BY DEF ClientNext, Update, Attach, Sync, Detach, Call, Receive, ReceiveError, Lost, Cancel, Fault,
           dbVars, handlerVars
<1>2. ASSUME NEW r \in Reqs
      PROVE  \/ pc[r] \in {"idle", "done", "failed"} /\ pc'[r] \in {"idle", "recv"}
             \/ pc'[r] = pc[r] /\ req'[r] = req[r]
    <2>1. CASE Update(c)
        BY <2>1 DEF Update, handlerVars
    <2>2. ASSUME NEW m \in Methods, Call(c, m)
          PROVE  \/ pc[r] \in {"idle", "done", "failed"} /\ pc'[r] \in {"idle", "recv"}
                 \/ pc'[r] = pc[r] /\ req'[r] = req[r]
        BY <1>0, <2>2 DEF Call, TypeOK
    <2>3. CASE Receive(c) \/ ReceiveError(c) \/ Lost(c)
        <3>1. \/ pc[wait[c]] \in {"done", "failed"} /\ Free(wait[c])
              \/ UNCHANGED <<pc, req>>
            BY <2>3 DEF Receive, ReceiveError, Lost
        <3> QED BY <1>0, <3>1 DEF Free, TypeOK
    <2>4. ~Cancel(c)
        BY DEF Cancel, Fault
    <2> QED BY <2>1, <2>2, <2>3, <2>4 DEF ClientNext, Attach, Sync, Detach
<1>3. ASSUME NEW r \in Reqs PROVE HolderKnows(r)'
    BY <1>0, <1>1, <1>2, HolderKept DEF RetryInv
<1>4. ASSUME NEW d \in Clients PROVE RowKnows(d)'
    <2>1. \A r \in Reqs : lock = r /\ req[r].client = d /\ pc[r] = "client" =>
                lock' = r /\ req'[r].client = d /\ pc'[r] = "client"
        BY <1>1, <1>2
    <2>2. RowKnows(d) /\ clientInfos[d].clientSeq <= clientInfos'[d].clientSeq
        BY <1>0, <1>1 DEF RetryInv, TypeOK, ClientDocInfo
    <2> QED BY <1>0, <1>1, <2>1, <2>2, RowKept
<1> QED BY <1>3, <1>4

\* Another handler neither takes the lock of this one nor lowers a row.
LEMMA RetryOther ==
    ASSUME TypeOK, LogInv, AttachedInv, NEW q \in Reqs, ReqNext(q), NEW r \in Reqs \ {q}
    PROVE  /\ pc'[r] = pc[r] /\ req'[r] = req[r] /\ info'[r] = info[r] /\ base'[r] = base[r]
           /\ lock' = r <=> lock = r
<1> DEFINE Same == /\ pc'[r] = pc[r] /\ req'[r] = req[r] /\ info'[r] = info[r] /\ base'[r] = base[r]
                   /\ lock' = r <=> lock = r
<1>1. CASE FindClient(q)
    BY <1>1, NoneAssumption DEF FindClient, LogInv, LockInv, TypeOK
<1>2. ASSUME NEW o, NEW p, Return(q, o, p) PROVE Same
    BY <1>2, NoneAssumption DEF Return, TypeOK
<1>3. CASE FindDoc(q) \/ Pull(q) \/ UpdateDoc(q)
    <2>1. CASE Fail(q)
        BY <1>2, <2>1 DEF Fail
    <2>2. CASE ~Fail(q)
        BY <1>3, <2>2 DEF FindDoc, Pull, UpdateDoc, TypeOK
    <2> QED BY <2>1, <2>2
<1>4. CASE StoreChange(q) \/ UpdateClient(q) \/ UpdateSynced(q)
    BY <1>4 DEF StoreChange, UpdateClient, UpdateSynced, TypeOK
<1>5. CASE FindMin(q) \/ DBError(q)
    BY <1>2, <1>5 DEF FindMin, DBError, Fail
<1>6. CASE JobRead(q) \/ JobStore(q) \/ JobError(q)
    BY <1>6 DEF JobRead, JobStore, JobError, handlerVars
<1> QED BY <1>1, <1>3, <1>4, <1>5, <1>6 DEF ReqNext, HandlerStep

\* The handler itself reads the row when it gets the lock, compares the changes
\* with it and does not forget it.
LEMMA RetryHolder ==
    ASSUME IndInv, IndInv', LogStep, UNCHANGED docSeq, RetryInv, Faults \subseteq {"lost"},
           NEW r \in Reqs, ReqNext(r)
    PROVE  HolderKnows(r)'
<1>0. /\ TypeOK /\ LogInv /\ LockInv' /\ HolderKnows(r) /\ AttachedInv
      /\ \A c, n : LoggedUpTo(c, n) => LoggedUpTo(c, n)'
      /\ \A s \in 1 .. docSeq : changes'[s] = changes[s] /\ changes[s].clientSeq \in Nat
    <2>1. \A s \in 1 .. docSeq : s \in DOMAIN changes
        BY DEF LogStep
    <2> QED BY <2>1, LogSame DEF IndInv, LogInv, RetryInv, TypeOK, Change
<1>1. ASSUME NEW n \in Nat, NEW m \in Nat, n <= m, LoggedUpTo(req[r].client, n), req' = req
      PROVE  \A s \in 1 .. docSeq' : changes'[s].actor = req'[r].client => changes'[s].clientSeq <= m
    BY <1>0, <1>1 DEF LoggedUpTo
<1>2. CASE FindClient(r)
    <2>0. pc'[r] = "findDoc" /\ info'[r] = clientInfos[req[r].client] /\ UNCHANGED <<req, clientInfos>>
        BY <1>0, <1>2 DEF FindClient, TypeOK, dbVars
    <2> SUFFICES ASSUME lock' = r
                 PROVE  LoggedUpTo(req[r].client, clientInfos[req[r].client].clientSeq)'
        BY <2>0 DEF HolderKnows, LoggedUpTo
    <2>1. lock = None /\ pc[r] = "recv"
        BY <1>0, <1>2 DEF FindClient, LogInv, LockInv, Working
    <2>2. req[r].client \in Clients /\ UNCHANGED <<req, clientInfos>>
        BY <1>0, <1>2, <2>1 DEF TypeOK, FindClient, dbVars
    <2>3. LoggedUpTo(req[r].client, clientInfos[req[r].client].clientSeq)
        BY <2>1, <2>2, NoneAssumption DEF RetryInv, RowKnows
    <2> QED BY <1>0, <2>2, <2>3 DEF LoggedUpTo
<1>3. ASSUME NEW o \in {"done", "failed"}, NEW p, Return(r, o, p) PROVE HolderKnows(r)'
    <2>1. pc'[r] \notin {"findDoc", "pull", "store", "client"}
        BY <1>0, <1>3 DEF Return, TypeOK
    <2> QED BY <1>0, <2>1, HolderKept
<1>4. CASE FindDoc(r)
    <2>1. CASE Admitted(r)
        <3>1. /\ pc[r] = "findDoc" /\ pc'[r] = "pull" /\ UNCHANGED <<req, lock>>
              /\ info'[r] = MarkedInfo(r)
            BY <1>0, <1>4, <2>1 DEF FindDoc, TypeOK
        <3>2. MarkedInfo(r).clientSeq = info[r].clientSeq
            BY <1>0, <2>1 DEF AttachedInv, Admitted, MarkedInfo, TypeOK, Request, ClientDocInfo
        <3>3. lock = r => LoggedUpTo(req[r].client, info[r].clientSeq)
            BY <1>0, <3>1 DEF HolderKnows
        <3> QED BY <1>0, <3>1, <3>2, <3>3 DEF HolderKnows, LoggedUpTo
    <2>2. CASE ~Admitted(r)
        BY <1>3, <1>4, <2>2 DEF FindDoc, Fail
    <2> QED BY <2>1, <2>2
<1>5. CASE Pull(r)
    <2>1. CASE init[r] < req[r].serverSeq
        BY <1>3, <1>5, <2>1 DEF Pull, Fail
    <2>2. CASE ~(init[r] < req[r].serverSeq)
        <3>1. /\ pc[r] = "pull" /\ pc'[r] \in {"store", "client"} /\ UNCHANGED <<req, lock, base>>
              /\ info'[r].clientSeq = PulledCP(r).clientSeq
            BY <1>0, <1>5, <2>2 DEF Pull, TypeOK, ClientDocInfo
        <3>2. /\ info[r].clientSeq \in Nat /\ req[r].hi \in Nat /\ req[r].lo \in Nat
              /\ base[r] = MaxOf(req[r].lo, info[r].clientSeq)
            BY <1>0, <3>1 DEF TypeOK, ClientDocInfo, Request, LogInv, WriterInv
        <3>3. /\ PulledCP(r).clientSeq \in Nat /\ info[r].clientSeq <= PulledCP(r).clientSeq
              /\ base[r] \in Nat /\ info[r].clientSeq <= base[r]
            BY <3>2 DEF PulledCP, MaxOf
        <3>4. lock = r => LoggedUpTo(req[r].client, info[r].clientSeq)
            BY <1>0, <3>1 DEF HolderKnows
        <3>5. lock = r =>
                /\ \A s \in 1 .. docSeq' : changes'[s].actor = req'[r].client =>
                        changes'[s].clientSeq <= PulledCP(r).clientSeq
                /\ \A s \in 1 .. docSeq' : changes'[s].actor = req'[r].client =>
                        changes'[s].clientSeq <= base[r]
            BY <1>1, <3>1, <3>2, <3>3, <3>4
        <3> QED BY <3>1, <3>5 DEF HolderKnows, LoggedUpTo
    <2> QED BY <2>1, <2>2
<1>6. CASE StoreChange(r)
    BY <1>0, <1>6, HolderKept DEF StoreChange
<1>7. CASE UpdateDoc(r)
    <2>1. CASE docSeq # init[r]
        BY <1>3, <1>7, <2>1 DEF UpdateDoc, Fail
    <2>2. CASE docSeq = init[r]
        <3>1. docSeq < docSeq' /\ docSeq \in Nat /\ docSeq' \in Nat
            BY <1>7, <2>2, PushedChanges DEF IndInv
        <3> QED BY <3>1
    <2> QED BY <2>1, <2>2
<1>8. CASE UpdateClient(r) \/ UpdateSynced(r)
    <2>1. pc'[r] \in {"synced", "min"}
        BY <1>0, <1>8 DEF UpdateClient, UpdateSynced, TypeOK
    <2> QED BY <1>0, <2>1, HolderKept
<1>9. CASE FindMin(r)
    BY <1>3, <1>9 DEF FindMin
<1>10. CASE JobRead(r) \/ JobStore(r) \/ JobError(r)
    <2>1. UNCHANGED <<lock, pc, req, info, base>>
        BY <1>10 DEF JobRead, JobStore, JobError, handlerVars
    <2> QED BY <1>0, <2>1, HolderKept
<1>11. ~DBError(r)
    BY DEF DBError, Fault
<1> QED BY <1>2, <1>4, <1>5, <1>6, <1>7, <1>8, <1>9, <1>10, <1>11 DEF ReqNext, HandlerStep

\* The rows never lose a client seq.
LEMMA RetryRows ==
    ASSUME IndInv, IndInv', LogStep, UNCHANGED docSeq, RetryInv, Faults \subseteq {"lost"},
           NEW r \in Reqs, ReqNext(r), NEW c \in Clients
    PROVE  RowKnows(c)'
<1>0. TypeOK /\ TypeOK' /\ LogInv /\ RowKnows(c) /\ HolderKnows(r) /\ AttachedInv
    BY DEF IndInv, RetryInv
<1>1. ASSUME NEW q \in Reqs \ {r}, lock = q, req[q].client = c, pc[q] = "client"
      PROVE  lock' = q /\ req'[q].client = c /\ pc'[q] = "client"
    BY <1>0, <1>1, RetryOther
<1>2. /\ clientInfos[c].clientSeq \in Nat
      /\ \A q \in Reqs : info[q].clientSeq \in Nat /\ (pc[q] # "idle" => req[q].client \in Clients)
    BY <1>0 DEF TypeOK, ClientDocInfo
<1>3. CASE UpdateClient(r)
    <2>1. pc[r] = "client" /\ info[r].status = "attached"
        BY <1>0, <1>3 DEF UpdateClient, AttachedInv
    <2>2. /\ c # req[r].client => clientInfos'[c] = clientInfos[c]
          /\ c = req[r].client => clientInfos'[c].clientSeq = MaxOf(clientInfos[c].clientSeq, info[r].clientSeq)
        BY <1>0, <1>3, <2>1 DEF UpdateClient, StoredInfo, TypeOK
    <2>3. clientInfos[c].clientSeq <= clientInfos'[c].clientSeq
        BY <1>2, <2>2 DEF MaxOf
    <2>4. req[r].client = c => info[r].clientSeq <= clientInfos'[c].clientSeq
        BY <1>2, <2>2 DEF MaxOf
    <2>5. \A q \in Reqs : lock = q /\ req[q].client = c /\ pc[q] = "client" =>
                \/ lock' = q /\ req'[q].client = c /\ pc'[q] = "client"
                \/ HolderKnows(q) /\ info[q].clientSeq <= clientInfos'[c].clientSeq
        BY <1>0, <1>1, <2>4
    <2> QED BY <1>0, <2>3, <2>5, RowKept
<1>4. CASE ~UpdateClient(r)
    <2>1. UNCHANGED clientInfos
        BY <1>4 DEF ReqNext, HandlerStep, FindClient, FindDoc, Pull, StoreChange, UpdateDoc, UpdateSynced,
                    FindMin, JobRead, JobStore, DBError, JobError, dbVars
    <2>2. pc[r] = "client" => lock' = lock /\ req' = req /\ pc' = pc
        BY <1>4 DEF ReqNext, HandlerStep, FindClient, FindDoc, Pull, StoreChange, UpdateDoc, UpdateSynced,
                    FindMin, JobRead, JobStore, DBError, JobError, Fault, handlerVars
    <2>3. \A q \in Reqs : lock = q /\ req[q].client = c /\ pc[q] = "client" =>
                lock' = q /\ req'[q].client = c /\ pc'[q] = "client"
        BY <1>1, <2>2
    <2> QED BY <1>0, <1>2, <2>1, <2>3, RowKept
<1> QED BY <1>3, <1>4

\* Every step keeps it, if calls get lost but neither the database nor the
\* agent fails and no client detaches.
LEMMA RetryStep ==
    ASSUME IndInv, RetryInv, Faults \subseteq {"lost"}, "detach" \notin Methods, [Next]_vars
    PROVE  RetryInv'
<1>1. IndInv' /\ LogStep /\ TypeOK /\ TypeOK' /\ LockInv' /\ AttachedInv'
    BY IndInvStep, LogInvStep, AttachedStep DEF IndInv, LogInv, RetryInv
<1>2. ASSUME NEW r \in Reqs, UpdateDoc(r), docSeq = init[r] PROVE RetryInv'
    BY <1>1, <1>2, RetryPush DEF RetryInv
<1>3. CASE ~(\E r \in Reqs : UpdateDoc(r) /\ docSeq = init[r])
    <2>1. UNCHANGED docSeq
        BY <1>3, OnlyPushesGrow
    <2>2. NoDuplicates'
        BY <1>1, <2>1, NoDuplicatesSame DEF RetryInv
    <2>3. (\A c \in Clients : RowKnows(c)') /\ (\A r \in Reqs : HolderKnows(r)')
        <3>1. ASSUME NEW c \in Clients, ClientNext(c)
              PROVE  (\A d \in Clients : RowKnows(d)') /\ (\A r \in Reqs : HolderKnows(r)')
            BY <1>1, <3>1, RetryClient
        <3>2. ASSUME NEW r \in Reqs, ReqNext(r)
              PROVE  (\A d \in Clients : RowKnows(d)') /\ (\A q \in Reqs : HolderKnows(q)')
            <4>1. \A d \in Clients : RowKnows(d)'
                BY <1>1, <2>1, <3>2, RetryRows
            <4>2. HolderKnows(r)'
                BY <1>1, <2>1, <3>2, RetryHolder
            <4>3. ASSUME NEW q \in Reqs \ {r} PROVE HolderKnows(q)'
                <5>1. /\ pc'[q] = pc[q] /\ req'[q] = req[q] /\ info'[q] = info[q] /\ base'[q] = base[q]
                      /\ lock' = q => lock = q
                    BY <1>1, <3>2, <4>3, RetryOther DEF IndInv, RetryInv
                <5> QED BY <1>1, <2>1, <5>1, HolderKept DEF RetryInv
            <4> QED BY <4>1, <4>2, <4>3
        <3>3. ~Crash
            BY DEF Crash, Fault
        <3>4. CASE UNCHANGED vars
            <4>1. UNCHANGED <<clientInfos, lock, pc, req, info, base>>
                BY <3>4 DEF vars, dbVars, handlerVars
            <4>2. ASSUME NEW r \in Reqs PROVE HolderKnows(r)'
                BY <1>1, <2>1, <4>1, HolderKept DEF RetryInv
            <4>3. ASSUME NEW c \in Clients PROVE RowKnows(c)'
                BY <1>1, <2>1, <4>1, RowKept DEF RetryInv, IndInv, TypeOK, ClientDocInfo
            <4> QED BY <4>2, <4>3
        <3> QED BY <3>1, <3>2, <3>3, <3>4 DEF Next
    <2> QED BY <1>1, <2>2, <2>3 DEF RetryInv
<1> QED BY <1>2, <1>3

\* A change that is sent again after its answer was lost has one place in the
\* log (NoDuplicates): packs.pushChanges finds its client seq in the row that
\* the handler has read under the lock.  A failing database or agent between
\* StoreChangeInfos and UpdateClientInfoAfterPushPull, or DetachDocument,
\* which resets the seq, are excluded: with them the property does not hold.
THEOREM RetriesStoreOnce ==
    ASSUME Faults \subseteq {"lost"}, "detach" \notin Methods
    PROVE  Spec => []NoDuplicates
<1>1. Init => RetryInv
    <2>1. Init => AttachedInv
        BY DEF Init, AttachedInv, NoInfo, NoRequest
    <2>2. Init => \A c \in Clients : RowKnows(c)
        <3> SUFFICES ASSUME Init, NEW c \in Clients PROVE RowKnows(c)
            OBVIOUS
        <3>1. docSeq = 0
            BY DEF Init
        <3>2. LoggedUpTo(c, clientInfos[c].clientSeq)
            BY <3>1 DEF LoggedUpTo
        <3> QED BY <3>2 DEF RowKnows
    <2>3. Init => \A r \in Reqs : HolderKnows(r)
        BY DEF Init, HolderKnows
    <2>4. Init => NoDuplicates
        BY DEF Init, NoDuplicates
    <2> QED BY <2>1, <2>2, <2>3, <2>4 DEF RetryInv
<1>2. IndInv /\ RetryInv /\ [Next]_vars => RetryInv'
    BY RetryStep
<1>3. RetryInv => NoDuplicates
    BY DEF RetryInv
<1> QED BY <1>1, <1>2, <1>3, Invariance, PTL DEF Spec

\* The changes of client c in the log are among its first n, below server seq s.
LoggedWithin(c, n, s) ==
    \A t \in 1 .. docSeq : changes[t].actor = c => changes[t].clientSeq <= n /\ t <= s

\* The client knows what it has in the log, or the answer on its way tells it.
Settled(c) == LoggedWithin(c, doc[c].acked, doc[c].cp.serverSeq)

Answered(c) ==
    \E r \in Reqs :
        /\ wait[c] = r
        /\ pc[r] \in {"client", "synced", "min", "done"}
        /\ LoggedWithin(c, req[r].hi, resp[r].cp.serverSeq)
        /\ req[r].hi <= resp[r].cp.clientSeq

\* The client of every request waits for it, with the local changes it sent.
Awaited(r) ==
    pc[r] # "idle" => /\ wait[req[r].client] = r
                      /\ req[r].lo = doc[req[r].client].acked

\* Why no change is sent again while no call fails.
OnceInv ==
    /\ \A r \in Reqs : Awaited(r)
    /\ \A c \in Clients : Settled(c) \/ Answered(c)
    /\ NoDuplicates

\* What is said of a client's changes in the log is so after a step that adds none.
LEMMA LoggedKept ==
    ASSUME TypeOK, LogStep, NEW c,
           \A t \in 1 .. docSeq' : t \in 1 .. docSeq \/ changes'[t].actor # c
    PROVE  \A n, s : LoggedWithin(c, n, s) => LoggedWithin(c, n, s)'
BY DEF LogStep, LoggedWithin

\* A request of another client is neither answered nor given up, and a client
\* that waits for it still does.
LEMMA AnsweredKept ==
    ASSUME NEW c, Answered(c),
           \A n, s : LoggedWithin(c, n, s) => LoggedWithin(c, n, s)',
           \A r \in Reqs : wait[c] = r /\ pc[r] \in {"client", "synced", "min", "done"} =>
                /\ wait'[c] = r
                /\ pc'[r] \in {"client", "synced", "min", "done"}
                /\ req'[r] = req[r] /\ resp'[r].cp = resp[r].cp
    PROVE  Answered(c)'
<1>1. PICK r \in Reqs :
        /\ wait[c] = r
        /\ pc[r] \in {"client", "synced", "min", "done"}
        /\ LoggedWithin(c, req[r].hi, resp[r].cp.serverSeq)
        /\ req[r].hi <= resp[r].cp.clientSeq
    BY DEF Answered
<1>2. /\ wait'[c] = r
      /\ pc'[r] \in {"client", "synced", "min", "done"}
      /\ req'[r] = req[r] /\ resp'[r].cp = resp[r].cp
    BY <1>1
<1>3. LoggedWithin(c, req[r].hi, resp[r].cp.serverSeq)'
    <2> DEFINE n == req[r].hi
               s == resp[r].cp.serverSeq
    <2>1. \A t \in 1 .. docSeq' : changes'[t].actor = c => changes'[t].clientSeq <= n /\ t <= s
        <3> HIDE DEF n, s
        <3>1. LoggedWithin(c, n, s)
            BY <1>1 DEF n, s
        <3> QED BY <3>1 DEF LoggedWithin
    <2> QED BY <1>2, <2>1 DEF LoggedWithin
<1> QED BY <1>1, <1>2, <1>3 DEF Answered

\* A push adds changes that its client knows from the answer.
LEMMA OncePush ==
    ASSUME IndInv, DeliveryInv, OnceInv, TypeOK', LogStep, NEW q \in Reqs,
           UpdateDoc(q), docSeq = init[q]
    PROVE  OnceInv'
<1>0. PICK d \in Clients : d = req[q].client
    BY PushedChanges
<1>1. /\ pc[q] = "store" /\ pc'[q] = "client"
      /\ \A r \in Reqs \ {q} : pc'[r] = pc[r]
      /\ UNCHANGED <<changes, req, resp, doc, wait>>
      /\ base[q] \in Nat /\ docSeq \in Nat /\ docSeq' \in Nat
      /\ docSeq < docSeq' /\ docSeq' = ServerSeq(q)
      /\ base[q] + (docSeq' - docSeq) = req[q].hi
      /\ resp[q].cp.clientSeq = req[q].hi
      /\ req[q].lo <= base[q]
      /\ \A s \in (docSeq + 1) .. docSeq' :
            changes[s].actor = d /\ changes[s].clientSeq = base[q] + (s - docSeq)
    BY <1>0, PushedChanges
<1>2. wait[d] = q /\ req[q].lo = doc[d].acked
    BY <1>0, <1>1 DEF OnceInv, Awaited
<1>3. Settled(d)
    BY <1>1, <1>2 DEF OnceInv, Answered
<1>4. \A t \in 1 .. docSeq : changes[t].clientSeq \in Nat
    BY DEF IndInv, TypeOK, LogInv, RowsInv, Change
<1>5. req[q].lo \in Nat /\ req[q].hi \in Nat /\ doc[d].acked \in Nat /\ doc[d].cp.serverSeq \in Nat
    BY <1>1 DEF IndInv, TypeOK, Request, Checkpoint
<1>6. LoggedUpTo(d, base[q])
    BY <1>1, <1>2, <1>3, <1>4, <1>5 DEF Settled, LoggedWithin, LoggedUpTo
<1>7. NoDuplicates'
    BY <1>0, <1>6, PushedOnce DEF OnceInv
<1>8. \A r \in Reqs : Awaited(r)'
    BY <1>1 DEF OnceInv, Awaited
<1>9. Answered(d)'
    <2>1. docSeq' = resp[q].cp.serverSeq
        <3>1. HandlerInv(q)
            BY DEF DeliveryInv
        <3>2. resp[q].cp.serverSeq = ServerSeq(q)
            BY <1>1, <3>1 DEF HandlerInv
        <3> QED BY <1>1, <3>2
    <2>2. ASSUME NEW t \in 1 .. docSeq', changes[t].actor = d
          PROVE  changes[t].clientSeq <= req[q].hi /\ t <= docSeq'
        <3>1. CASE t <= docSeq
            <4>1. changes[t].clientSeq <= base[q]
                BY <1>1, <1>6, <2>2, <3>1 DEF LoggedUpTo
            <4>2. t \in 1 .. docSeq
                BY <1>1, <3>1
            <4> QED BY <1>1, <1>4, <4>1, <4>2
        <3>2. CASE t > docSeq
            BY <1>1, <3>2
        <3> QED BY <1>1, <3>1, <3>2
    <2>3. LoggedWithin(d, req[q].hi, resp[q].cp.serverSeq)'
        BY <1>1, <2>1, <2>2 DEF LoggedWithin
    <2>4. req[q].hi <= resp[q].cp.clientSeq
        BY <1>1, <1>5
    <2> QED BY <1>1, <1>2, <2>3, <2>4 DEF Answered
<1>10. ASSUME NEW c \in Clients, c # d PROVE Settled(c)' \/ Answered(c)'
    <2>1. \A t \in 1 .. docSeq' : t \in 1 .. docSeq \/ changes'[t].actor # c
        BY <1>1, <1>10
    <2>2. \A n, s : LoggedWithin(c, n, s) => LoggedWithin(c, n, s)'
        BY <2>1, LoggedKept DEF IndInv
    <2>3. CASE Settled(c)
        <3> DEFINE n == doc[c].acked
                   s == doc[c].cp.serverSeq
        <3>1. \A t \in 1 .. docSeq' : changes'[t].actor = c => changes'[t].clientSeq <= n /\ t <= s
            <4> HIDE DEF n, s
            <4>1. LoggedWithin(c, n, s)
                BY <2>3 DEF Settled, n, s
            <4> QED BY <2>2, <4>1 DEF LoggedWithin
        <3> QED BY <1>1, <3>1 DEF Settled, LoggedWithin
    <2>4. CASE Answered(c)
        <3>1. \A r \in Reqs : wait[c] = r /\ pc[r] \in {"client", "synced", "min", "done"} =>
                /\ wait'[c] = r
                /\ pc'[r] \in {"client", "synced", "min", "done"}
                /\ req'[r] = req[r] /\ resp'[r].cp = resp[r].cp
            BY <1>1
        <3> QED BY <2>2, <2>4, <3>1, AnsweredKept
    <2>5. Settled(c) \/ Answered(c)
        BY DEF OnceInv
    <2> QED BY <2>3, <2>4, <2>5
<1> QED BY <1>7, <1>8, <1>9, <1>10 DEF OnceInv

\* A client that does nothing knows what it knew.
LEMMA KnownKept ==
    ASSUME TypeOK, LogStep, UNCHANGED docSeq, NEW c, Settled(c) \/ Answered(c), doc'[c] = doc[c],
           \A r \in Reqs : wait[c] = r /\ pc[r] \in {"client", "synced", "min", "done"} =>
                /\ wait'[c] = r
                /\ pc'[r] \in {"client", "synced", "min", "done"}
                /\ req'[r] = req[r] /\ resp'[r].cp = resp[r].cp
    PROVE  Settled(c)' \/ Answered(c)'
<1>1. \A n, s : LoggedWithin(c, n, s) => LoggedWithin(c, n, s)'
    BY LoggedKept
<1>2. CASE Settled(c)
    <2>1. \A s \in 1 .. docSeq : changes'[s] = changes[s]
        BY DEF LogStep
    <2> QED BY <1>2, <2>1 DEF Settled, LoggedWithin
<1>3. CASE Answered(c)
    BY <1>1, <1>3, AnsweredKept
<1> QED BY <1>2, <1>3

\* The client takes the client seq of the answer, and its server seq.
LEMMA OnceReceive ==
    ASSUME IndInv, DeliveryInv, OnceInv, TypeOK', LogStep, NEW c \in Clients, Receive(c)
    PROVE  Settled(c)' \/ Answered(c)'
<1>1. PICK r \in Reqs : r = wait[c] /\ pc[r] = "done" /\ req[r].client = c
    BY DEF Receive, IndInv, TypeOK, LogInv, WaitInv
<1>2. /\ UNCHANGED docSeq
      /\ doc'[c].acked = MaxOf(doc[c].acked, MinOf(doc[c].seq, resp[r].cp.clientSeq))
      /\ doc'[c].cp.serverSeq = MaxOf(doc[c].cp.serverSeq, resp[r].cp.serverSeq)
    <2>1. doc[c].cp \in Checkpoint /\ resp[r].cp \in Checkpoint
        BY DEF IndInv, TypeOK, Response
    <2> QED BY <1>1, <2>1 DEF Receive, dbVars, AppliedDoc, Forward, IndInv, TypeOK
<1>3. /\ doc[c].acked \in Nat /\ doc[c].seq \in Nat /\ doc[c].cp.serverSeq \in Nat
      /\ resp[r].cp.clientSeq \in Nat /\ resp[r].cp.serverSeq \in Nat /\ req[r].hi \in Nat
    BY DEF IndInv, TypeOK, Checkpoint, Response, Request
<1>4. req[r].hi <= doc[c].seq
    <2>1. RequestInv(r)
        BY DEF DeliveryInv
    <2> QED BY <1>1, <2>1 DEF RequestInv
<1>5. PICK n \in Nat, s \in Nat :
        LoggedWithin(c, n, s) /\ n <= doc'[c].acked /\ s <= doc'[c].cp.serverSeq
    <2>1. CASE Settled(c)
        <3>1. doc[c].acked <= doc'[c].acked /\ doc[c].cp.serverSeq <= doc'[c].cp.serverSeq
            BY <1>2, <1>3 DEF MaxOf, MinOf
        <3> QED BY <1>3, <2>1, <3>1 DEF Settled
    <2>2. CASE Answered(c)
        <3>1. LoggedWithin(c, req[r].hi, resp[r].cp.serverSeq) /\ req[r].hi <= resp[r].cp.clientSeq
            BY <1>1, <2>2 DEF Answered
        <3>2. req[r].hi <= doc'[c].acked /\ resp[r].cp.serverSeq <= doc'[c].cp.serverSeq
            BY <1>2, <1>3, <1>4, <3>1 DEF MaxOf, MinOf
        <3> QED BY <1>3, <3>1, <3>2
    <2> QED BY <2>1, <2>2 DEF OnceInv
<1>6. \A t \in 1 .. docSeq : /\ changes'[t] = changes[t]
                             /\ changes[t].clientSeq \in Nat
    BY DEF LogStep, IndInv, TypeOK, Change
<1>7. doc'[c].acked \in Nat /\ doc'[c].cp.serverSeq \in Nat /\ docSeq \in Nat
    BY DEF TypeOK, IndInv, Checkpoint
<1> DEFINE a == doc'[c].acked
           b == doc'[c].cp.serverSeq
<1>8. \A t \in 1 .. docSeq : changes'[t].actor = c => changes'[t].clientSeq <= a /\ t <= b
    <2> HIDE DEF a, b
    <2> QED BY <1>5, <1>6, <1>7 DEF LoggedWithin, a, b
<1> QED BY <1>2, <1>8 DEF Settled, LoggedWithin

\* The steps of a client keep it.
LEMMA OnceClient ==
    ASSUME IndInv, DeliveryInv, OnceInv, TypeOK', LogStep, Faults = {}, NEW c \in Clients, ClientNext(c)
    PROVE  /\ \A r \in Reqs : Awaited(r)'
           /\ \A d \in Clients : Settled(d)' \/ Answered(d)'
<1>0. /\ TypeOK /\ LogInv /\ NoneAssumption
      /\ \A r \in Reqs : Awaited(r)
      /\ \A d \in Clients : Settled(d) \/ Answered(d)
    BY NoneAssumption DEF IndInv, OnceInv, NoneAssumption
<1>1. UNCHANGED docSeq
    BY DEF ClientNext, Update, Attach, Sync, Detach, Call, Receive, ReceiveError, Lost, Cancel, dbVars
<1>2. CASE Update(c)
    <2>1. /\ UNCHANGED <<pc, req, resp, wait>> /\ wait[c] = None
          /\ doc'[c].acked = doc[c].acked /\ doc'[c].cp = doc[c].cp
          /\ \A d \in Clients \ {c} : doc'[d] = doc[d]
        BY <1>0, <1>2 DEF Update, handlerVars, TypeOK
    <2>2. ASSUME NEW r \in Reqs PROVE Awaited(r)'
        <3>1. \A d \in Clients : doc'[d].acked = doc[d].acked
            BY <2>1
        <3>2. pc[r] # "idle" => req[r].client \in Clients
            BY <1>0 DEF TypeOK
        <3> QED BY <1>0, <2>1, <3>1, <3>2 DEF Awaited
    <2>3. ASSUME NEW d \in Clients PROVE Settled(d)' \/ Answered(d)'
        <3>1. CASE d = c
            <4>1. Settled(c)
                BY <1>0, <2>1 DEF Answered, NoneAssumption
            <4>2. \A s \in 1 .. docSeq : changes'[s] = changes[s]
                BY DEF LogStep
            <4> QED BY <1>1, <2>1, <3>1, <4>1, <4>2 DEF Settled, LoggedWithin
        <3>2. CASE d # c
            BY <1>0, <1>1, <2>1, <3>2, KnownKept
        <3> QED BY <3>1, <3>2
    <2> QED BY <2>2, <2>3
<1>3. ASSUME NEW m \in Methods, Call(c, m)
      PROVE  /\ \A r \in Reqs : Awaited(r)'
             /\ \A d \in Clients : Settled(d)' \/ Answered(d)'
    <2>1. PICK q \in Reqs :
            /\ pc[q] = "idle"
            /\ pc' = [pc EXCEPT ![q] = "recv"]
            /\ req' = [req EXCEPT ![q] =
                        [client |-> c, method |-> m, serverSeq |-> doc[c].cp.serverSeq,
                         lo |-> doc[c].acked, hi |-> doc[c].seq]]
            /\ wait' = [wait EXCEPT ![c] = q]
        BY <1>3 DEF Call
    <2>2. UNCHANGED <<doc, resp>> /\ wait[c] = None
        BY <1>3 DEF Call
    <2>3. ASSUME NEW r \in Reqs PROVE Awaited(r)'
        <3>1. CASE r = q
            BY <1>0, <2>1, <2>2, <3>1 DEF Awaited, TypeOK
        <3>2. CASE r # q
            BY <1>0, <2>1, <2>2, <3>2 DEF Awaited, TypeOK, NoneAssumption
        <3> QED BY <3>1, <3>2
    <2>4. ASSUME NEW d \in Clients PROVE Settled(d)' \/ Answered(d)'
        <3>1. \A r \in Reqs : wait[d] = r /\ pc[r] \in {"client", "synced", "min", "done"} =>
                /\ wait'[d] = r
                /\ pc'[r] \in {"client", "synced", "min", "done"}
                /\ req'[r] = req[r] /\ resp'[r].cp = resp[r].cp
            BY <1>0, <2>1, <2>2 DEF TypeOK, NoneAssumption
        <3> QED BY <1>0, <1>1, <2>2, <3>1, KnownKept
    <2> QED BY <2>3, <2>4
<1>4. CASE Receive(c) \/ ReceiveError(c)
    <2>1. PICK q \in Reqs :
            /\ q = wait[c] /\ pc[q] \in {"done", "failed"} /\ req[q].client = c
            /\ wait' = [wait EXCEPT ![c] = None]
            /\ pc' = [pc EXCEPT ![q] = "idle"]
            /\ req' = [req EXCEPT ![q] = NoRequest]
            /\ resp' = [resp EXCEPT ![q] = NoResp]
        <3>1. wait[c] # None /\ wait[c] \in Reqs
            BY <1>0, <1>4 DEF Receive, ReceiveError, TypeOK
        <3>2. req[wait[c]].client = c
            BY <1>0, <3>1 DEF LogInv, WaitInv
        <3>3. CASE Receive(c)
            BY <3>1, <3>2, <3>3 DEF Receive, Free
        <3>4. CASE ReceiveError(c)
            BY <3>1, <3>2, <3>4 DEF ReceiveError, Free
        <3> QED BY <1>4, <3>3, <3>4
    <2>2. \A d \in Clients \ {c} : doc'[d] = doc[d]
        BY <1>0, <1>4 DEF Receive, ReceiveError, TypeOK
    <2>3. ASSUME NEW r \in Reqs PROVE Awaited(r)'
        <3>1. CASE r = q
            BY <1>0, <2>1, <3>1 DEF Awaited, TypeOK
        <3>2. CASE r # q
            <4>1. pc[r] # "idle" => req[r].client # c
                BY <1>0, <2>1, <3>2 DEF Awaited
            <4>2. pc'[r] = pc[r] /\ req'[r] = req[r]
                BY <1>0, <2>1, <3>2 DEF TypeOK
            <4>3. pc[r] # "idle" => req[r].client \in Clients \ {c}
                BY <1>0, <4>1 DEF TypeOK
            <4> QED BY <1>0, <2>1, <2>2, <4>2, <4>3 DEF Awaited, TypeOK
        <3> QED BY <3>1, <3>2
    <2>4. ASSUME NEW d \in Clients \ {c} PROVE Settled(d)' \/ Answered(d)'
        <3>1. wait[d] # q
            BY <1>0, <2>1 DEF LogInv, WaitInv, NoneAssumption
        <3>2. \A r \in Reqs : wait[d] = r /\ pc[r] \in {"client", "synced", "min", "done"} =>
                /\ wait'[d] = r
                /\ pc'[r] \in {"client", "synced", "min", "done"}
                /\ req'[r] = req[r] /\ resp'[r].cp = resp[r].cp
            BY <1>0, <2>1, <3>1 DEF TypeOK
        <3> QED BY <1>0, <1>1, <2>2, <3>2, KnownKept
    <2>5. Settled(c)' \/ Answered(c)'
        <3>1. CASE Receive(c)
            BY <3>1, OnceReceive
        <3>2. CASE ReceiveError(c)
            <4>1. pc[q] = "failed" /\ doc' = doc
                BY <2>1, <3>2 DEF ReceiveError
            <4>2. \A r \in Reqs : wait[c] = r /\ pc[r] \in {"client", "synced", "min", "done"} => FALSE
                BY <2>1, <4>1
            <4> QED BY <1>0, <1>1, <4>1, <4>2, KnownKept
        <3> QED BY <1>4, <3>1, <3>2
    <2> QED BY <2>3, <2>4, <2>5
<1>5. ~Lost(c) /\ ~Cancel(c)
    BY DEF Lost, Cancel, Fault
<1> QED BY <1>2, <1>3, <1>4, <1>5 DEF ClientNext, Attach, Sync, Detach

\* A handler that works on keeps its answer, and one that returns hands it over.
LEMMA OnceReq ==
    ASSUME TypeOK, LogInv, OnceInv, TypeOK', LogStep, UNCHANGED docSeq, Faults = {},
           NEW q \in Reqs, ReqNext(q)
    PROVE  /\ \A r \in Reqs : Awaited(r)'
           /\ \A d \in Clients : Settled(d)' \/ Answered(d)'
<1> DEFINE Known == {"client", "synced", "min", "done"}
<1>0. /\ \A r \in Reqs : Awaited(r)
      /\ \A d \in Clients : Settled(d) \/ Answered(d)
      /\ UNCHANGED <<doc, wait>>
    BY DEF OnceInv, ReqNext, HandlerStep, FindClient, FindDoc, Pull, StoreChange, UpdateDoc, UpdateClient,
           UpdateSynced, FindMin, JobRead, JobStore, DBError, JobError, clientVars
<1>1. ASSUME \A r \in Reqs : /\ pc'[r] # "idle" => pc[r] # "idle" /\ req'[r] = req[r]
                             /\ pc[r] \in Known =>
                                    pc'[r] \in Known /\ req'[r] = req[r] /\ resp'[r].cp = resp[r].cp
      PROVE  /\ \A r \in Reqs : Awaited(r)'
             /\ \A d \in Clients : Settled(d)' \/ Answered(d)'
    <2>1. ASSUME NEW r \in Reqs PROVE Awaited(r)'
        BY <1>0, <1>1 DEF Awaited
    <2>2. ASSUME NEW d \in Clients PROVE Settled(d)' \/ Answered(d)'
        BY <1>0, <1>1, KnownKept
    <2> QED BY <2>1, <2>2
<1>2. ASSUME NEW r \in Reqs
      PROVE  /\ pc'[r] # "idle" => pc[r] # "idle" /\ req'[r] = req[r]
             /\ pc[r] \in Known => pc'[r] \in Known /\ req'[r] = req[r] /\ resp'[r].cp = resp[r].cp
    <2>1. CASE FindClient(q) \/ StoreChange(q) \/ UpdateClient(q) \/ UpdateSynced(q)
        BY <2>1 DEF FindClient, StoreChange, UpdateClient, UpdateSynced, TypeOK
    <2>2. CASE FindDoc(q) \/ Pull(q) \/ UpdateDoc(q)
        <3>1. pc[q] \in {"findDoc", "pull", "store"}
            BY <2>2 DEF FindDoc, Pull, UpdateDoc
        <3>2. CASE Fail(q)
            BY <3>1, <3>2 DEF Fail, Return, TypeOK
        <3>3. CASE ~Fail(q)
            BY <2>2, <3>1, <3>3 DEF FindDoc, Pull, UpdateDoc, TypeOK
        <3> QED BY <3>2, <3>3
    <2>3. CASE FindMin(q)
        <3>1. pc[q] = "min" /\ Return(q, "done", [resp[q] EXCEPT !.min = MinSyncedSeq])
            BY <2>3 DEF FindMin
        <3>2. wait[req[q].client] = q /\ resp[q] \in Response
            BY <1>0, <3>1 DEF Awaited, TypeOK
        <3>3. /\ pc' = [pc EXCEPT ![q] = "done"] /\ req' = [req EXCEPT ![q] = @]
              /\ resp' = [resp EXCEPT ![q] = [resp[q] EXCEPT !.min = MinSyncedSeq]]
            BY <3>1, <3>2 DEF Return, Waited
        <3>4. resp'[r].cp = resp[r].cp
            BY <3>2, <3>3 DEF TypeOK, Response
        <3> QED BY <3>1, <3>3, <3>4 DEF TypeOK
    <2>4. CASE JobRead(q) \/ JobStore(q)
        BY <2>4 DEF JobRead, JobStore, handlerVars
    <2>5. ~DBError(q) /\ ~JobError(q)
        BY DEF DBError, JobError, Fault
    <2> QED BY <2>1, <2>2, <2>3, <2>4, <2>5 DEF ReqNext, HandlerStep
<1> HIDE DEF Known
<1> QED BY <1>1, <1>2

\* Every step keeps it, while nothing fails.
LEMMA OnceStep ==
    ASSUME IndInv, DeliveryInv, OnceInv, Faults = {}, [Next]_vars
    PROVE  OnceInv'
<1>1. IndInv' /\ LogStep /\ TypeOK /\ LogInv /\ TypeOK'
    BY IndInvStep, LogInvStep DEF IndInv
<1>2. ASSUME NEW r \in Reqs, UpdateDoc(r), docSeq = init[r] PROVE OnceInv'
    BY <1>1, <1>2, OncePush
<1>3. CASE ~(\E r \in Reqs : UpdateDoc(r) /\ docSeq = init[r])
    <2>1. UNCHANGED docSeq
        BY <1>3, OnlyPushesGrow
    <2>2. NoDuplicates'
        BY <1>1, <2>1, NoDuplicatesSame DEF OnceInv
    <2>3. /\ \A r \in Reqs : Awaited(r)'
          /\ \A d \in Clients : Settled(d)' \/ Answered(d)'
        <3>1. CASE UNCHANGED vars
            <4>1. UNCHANGED <<doc, pc, req, resp, wait>>
                BY <3>1 DEF vars, handlerVars, clientVars
            <4>2. ASSUME NEW r \in Reqs PROVE Awaited(r)'
                BY <4>1 DEF OnceInv, Awaited
            <4>3. ASSUME NEW d \in Clients PROVE Settled(d)' \/ Answered(d)'
                BY <1>1, <2>1, <4>1, KnownKept DEF OnceInv
            <4> QED BY <4>2, <4>3
        <3>2. ~Crash
            BY DEF Crash, Fault
        <3> QED BY <1>1, <2>1, <3>1, <3>2, OnceClient, OnceReq DEF Next
    <2> QED BY <2>2, <2>3 DEF OnceInv
<1> QED BY <1>2, <1>3

LEMMA OnceInit == Init => OnceInv
<1> SUFFICES ASSUME Init PROVE OnceInv
    OBVIOUS
<1>1. docSeq = 0 /\ changes = [s \in {} |-> None] /\ \A r \in Reqs : pc[r] = "idle"
    BY DEF Init
<1>2. ASSUME NEW c \in Clients PROVE Settled(c)
    BY <1>1 DEF Settled, LoggedWithin
<1>3. NoDuplicates
    BY <1>1 DEF NoDuplicates
<1>4. ASSUME NEW r \in Reqs PROVE Awaited(r)
    BY <1>1 DEF Awaited
<1> QED BY <1>2, <1>3, <1>4 DEF OnceInv

\* While no call fails, attachments may end and start again and no change gets
\* a second place in the log (NoDuplicates): DetachDocument resets the seqs,
\* but a client without a call of its own knows what it has in the log.
THEOREM CallsStoreOnce ==
    ASSUME Faults = {}
    PROVE  Spec => []NoDuplicates
<1>1. IndInv /\ DeliveryInv /\ OnceInv /\ [Next]_vars => OnceInv'
    BY OnceStep
<1>2. OnceInv => NoDuplicates
    BY DEF OnceInv
<1> QED BY <1>1, <1>2, OnceInit, Invariance, Delivery, PTL DEF Spec

\* A replica shows each change once, and nothing but what it has received and
\* its own edits.
ExactRoot(c) ==
    /\ root[c].twice = {}
    /\ root[c].seen \subseteq Prefix(doc[c].cp.serverSeq) \cup LocalChanges(c, 0, doc[c].seq).seen

\* The changes of an answer are new to its client.
ExactPack(r) ==
    pc[r] \in {"store", "client", "synced", "min", "done"} /\ ~resp[r].isSnapshot =>
        /\ resp[r].root.twice = {}
        /\ \A x \in resp[r].root.seen :
            /\ x.actor # req[r].client
            /\ \E s \in (req[r].serverSeq + 1) .. resp[r].cp.serverSeq :
                    s <= docSeq /\ changes[s] = x

\* Why replicas that have received the same are equal.
ExactInv ==
    /\ \A c \in Clients : ExactRoot(c)
    /\ \A r \in Reqs : ExactPack(r)

\* An answer that is kept is as new as it was.
LEMMA PackKept ==
    ASSUME TypeOK, TypeOK', LogStep, NEW r \in Reqs, ExactPack(r),
           \/ pc'[r] \notin {"store", "client", "synced", "min", "done"}
           \/ /\ pc[r] \in {"store", "client", "synced", "min", "done"}
              /\ req'[r] = req[r]
              /\ resp'[r].isSnapshot = resp[r].isSnapshot
              /\ resp'[r].root = resp[r].root /\ resp'[r].cp = resp[r].cp
    PROVE  ExactPack(r)'
<1> SUFFICES ASSUME pc'[r] \in {"store", "client", "synced", "min", "done"}, ~resp[r].isSnapshot,
                    pc[r] \in {"store", "client", "synced", "min", "done"},
                    req'[r] = req[r], resp'[r].root = resp[r].root, resp'[r].cp = resp[r].cp
             PROVE  /\ resp[r].root.twice = {}
                    /\ \A x \in resp[r].root.seen :
                        /\ x.actor # req[r].client
                        /\ \E s \in (req[r].serverSeq + 1) .. resp[r].cp.serverSeq :
                                s <= docSeq' /\ changes'[s] = x
    BY DEF ExactPack
<1>1. docSeq \in Nat /\ docSeq' \in Nat /\ docSeq <= docSeq' /\ req[r].serverSeq \in Nat
    BY DEF LogStep, TypeOK, Request
<1>2. ASSUME NEW x \in resp[r].root.seen
      PROVE  /\ x.actor # req[r].client
             /\ \E s \in (req[r].serverSeq + 1) .. resp[r].cp.serverSeq :
                    s <= docSeq' /\ changes'[s] = x
    <2>1. x.actor # req[r].client
        BY DEF ExactPack
    <2>2. PICK s \in (req[r].serverSeq + 1) .. resp[r].cp.serverSeq : s <= docSeq /\ changes[s] = x
        BY DEF ExactPack
    <2>3. resp[r].cp.serverSeq \in Nat
        BY DEF TypeOK, Response, Checkpoint
    <2>4. s \in 1 .. docSeq
        BY <1>1, <2>2, <2>3
    <2>5. s <= docSeq' /\ changes'[s] = x
        BY <1>1, <2>2, <2>4 DEF LogStep
    <2> QED BY <2>1, <2>2, <2>5
<1> QED BY <1>2 DEF ExactPack

\* The changes that are pulled are new to the client.
LEMMA PulledOnce ==
    ASSUME IndInv, DeliveryInv, OnceInv, IndInv', NEW r \in Reqs, Pull(r)
    PROVE  ExactPack(r)'
<1>0. /\ TypeOK /\ TypeOK' /\ RowsInv /\ HandlerInv(r) /\ RequestInv(r) /\ Awaited(r) /\ pc[r] = "pull"
      /\ req[r].client \in Clients
    BY DEF IndInv, TypeOK, LogInv, DeliveryInv, OnceInv, Pull
<1> DEFINE c == req[r].client
           a == req[r].serverSeq
           b == init[r]
<1>1. /\ a \in Nat /\ b \in Nat /\ b <= docSeq /\ docSeq \in Nat /\ Size(r) \in Nat
      /\ UNCHANGED <<docSeq, changes>>
    <2>1. Size(r) \in Nat
        BY <1>0, SizeType
    <2> QED BY <1>0, <2>1 DEF TypeOK, Request, HandlerInv, Pull, dbVars
<1>2. CASE b < a
    <2>1. pc'[r] \in {"failed", "idle"}
        BY <1>0, <1>2 DEF Pull, Fail, Return, TypeOK
    <2> QED BY <2>1 DEF ExactPack
<1>3. CASE ~(b < a)
    <2>1. resp'[r] = PulledPack(r) /\ UNCHANGED req
        BY <1>0, <1>3 DEF Pull, TypeOK
    <2>2. SUFFICES ASSUME ~PulledPack(r).isSnapshot PROVE ExactPack(r)'
        BY <2>1 DEF ExactPack
    <2>3. PulledPack(r).root = FindChangeInfos(a, b) /\ PulledPack(r).cp.serverSeq = b + Size(r)
        BY <2>2 DEF PulledPack, PulledCP, ServerSeq
    <2>4. FindChangeInfos(a, b) =
                [seen |-> {changes[s] : s \in (a + 1) .. b},
                 twice |-> {changes[s] : s \in {t \in (a + 1) .. b :
                                \E u \in ((a + 1) .. b) \ {t} : changes[u] = changes[t]}}]
        BY <1>0, <1>1, FindRows
    <2>5. \A s \in (a + 1) .. b : s \in DOMAIN changes /\ s \in 1 .. docSeq
        BY <1>0, <1>1 DEF RowsInv
    <2>6. FindChangeInfos(a, b).twice = {}
        <3>1. \A s, t \in (a + 1) .. b : changes[s] = changes[t] => s = t
            BY <1>1, <2>5 DEF OnceInv, NoDuplicates
        <3> QED BY <2>4, <3>1
    <2>7. Settled(c) /\ a = doc[c].cp.serverSeq
        BY <1>0 DEF Awaited, RequestInv, OnceInv, Answered
    <2>8. ASSUME NEW x \in FindChangeInfos(a, b).seen
          PROVE  /\ x.actor # c
                 /\ \E s \in (a + 1) .. (b + Size(r)) : s <= docSeq /\ changes[s] = x
        <3>1. PICK s \in (a + 1) .. b : changes[s] = x
            BY <2>4
        <3>2. s \in 1 .. docSeq /\ a < s /\ s \in (a + 1) .. (b + Size(r)) /\ s <= docSeq
            BY <1>1, <2>5
        <3>3. x.actor # c
            BY <1>1, <2>7, <3>1, <3>2 DEF Settled, LoggedWithin
        <3> QED BY <3>1, <3>2, <3>3
    <2> QED BY <1>1, <2>1, <2>3, <2>6, <2>8 DEF ExactPack
<1> QED BY <1>2, <1>3

\* Document.Update makes a change that the replica does not show.
LEMMA UpdatedOnce ==
    ASSUME IndInv, DeliveryInv, OnceInv, TypeOK', LogStep, NEW c \in Clients, Update(c), ExactRoot(c)
    PROVE  ExactRoot(c)'
<1> DEFINE n == doc[c].seq
           m == doc[c].cp.serverSeq
           L(k) == LocalChanges(c, 0, k).seen
           N == LocalChanges(c, n, n + 1)
<1>1. TypeOK /\ ReplicaInv(c) /\ n \in Nat /\ m \in Nat /\ doc[c].acked \in Nat /\ docSeq \in Nat
    BY DEF IndInv, TypeOK, DeliveryInv, Checkpoint
<1>2. /\ root'[c] = Execute(root[c], N)
      /\ doc'[c].seq = n + 1 /\ doc'[c].cp = doc[c].cp
      /\ UNCHANGED <<docSeq, changes>> /\ wait[c] = None
    BY <1>1 DEF Update, TypeOK, dbVars
<1>3. L(n + 1) = L(n) \cup N.seen
    <2>1. n + 1 \in Nat /\ n <= n + 1
        BY <1>1
    <2> HIDE DEF n
    <2> QED BY <1>1, <2>1, LocalExtend
<1>4. Settled(c)
    BY <1>2, NoneAssumption DEF OnceInv, Answered
<1>5. root[c].seen \cap N.seen = {}
    <2> SUFFICES ASSUME NEW x \in root[c].seen, x \in N.seen PROVE FALSE
        OBVIOUS
    <2>1. x.actor = c /\ x.clientSeq = n + 1
        BY <1>1 DEF LocalChanges
    <2>2. CASE x \in Prefix(m)
        <3>1. PICK s \in 1 .. m : x = changes[s]
            BY <2>2 DEF Prefix
        <3>2. s \in 1 .. docSeq
            BY <1>1 DEF ReplicaInv
        <3>3. changes[s].clientSeq <= doc[c].acked
            BY <1>4, <2>1, <3>1, <3>2 DEF Settled, LoggedWithin
        <3>4. doc[c].acked <= n
            BY <1>1 DEF ReplicaInv
        <3> QED BY <1>1, <2>1, <3>1, <3>3, <3>4
    <2>3. CASE x \in L(n)
        BY <1>1, <2>1, <2>3 DEF LocalChanges
    <2> QED BY <2>2, <2>3 DEF ExactRoot
<1>6. N.twice = {} /\ root[c].twice = {} /\ root[c].seen \subseteq Prefix(m) \cup L(n)
    BY DEF LocalChanges, ExactRoot
<1>7. root'[c].twice = {} /\ root'[c].seen = root[c].seen \cup N.seen
    <2> HIDE DEF N
    <2> QED BY <1>2, <1>5, <1>6 DEF Execute
<1>8. Prefix(doc[c].cp.serverSeq)' = Prefix(m)
    BY <1>2 DEF Prefix
<1>9. LocalChanges(c, 0, doc[c].seq)'.seen = L(n + 1)
    BY <1>2 DEF LocalChanges
<1> HIDE DEF L, N, n, m
<1> QED BY <1>3, <1>6, <1>7, <1>8, <1>9 DEF ExactRoot

\* The changes the client executes on its replica are new to it.
LEMMA ReceivedOnce ==
    ASSUME IndInv, DeliveryInv, OnceInv, ExactInv, TypeOK', NEW c \in Clients, Receive(c),
           \A r \in Reqs : ~resp[r].isSnapshot
    PROVE  ExactRoot(c)'
<1>1. PICK r \in Reqs : r = wait[c] /\ pc[r] = "done" /\ req[r].client = c
    BY DEF Receive, IndInv, TypeOK, LogInv, WaitInv
<1> DEFINE m == doc[c].cp.serverSeq
           k == resp[r].cp.serverSeq
           M == doc'[c].cp.serverSeq
           own == LocalChanges(c, 0, doc[c].seq).seen
           old == root[c].seen
           new == resp[r].root.seen
<1>2. /\ TypeOK /\ HandlerInv(r) /\ RequestInv(r) /\ ReplicaInv(c) /\ ExactRoot(c) /\ ExactPack(r) /\ NoDuplicates
    BY DEF IndInv, DeliveryInv, ExactInv, OnceInv
<1>3. /\ UNCHANGED <<docSeq, changes>>
      /\ doc'[c].seq = doc[c].seq
      /\ M = MaxOf(m, k)
      /\ root'[c] = Execute(root[c], resp[r].root)
    <2>1. doc[c].cp \in Checkpoint /\ resp[r].cp \in Checkpoint
        BY <1>2 DEF TypeOK, Response
    <2>2. /\ UNCHANGED <<docSeq, changes>>
          /\ doc'[c].seq = doc[c].seq
          /\ M = MaxOf(m, k)
        BY <1>1, <1>2, <2>1 DEF Receive, dbVars, AppliedDoc, Forward, TypeOK
    <2>3. root'[c] = Execute(root[c], resp[r].root)
        BY <1>1, <1>2 DEF Receive, AppliedRoot, TypeOK
    <2> QED BY <2>2, <2>3
<1>4. /\ m \in Nat /\ k \in Nat /\ M \in Nat /\ m <= M /\ k <= M /\ docSeq \in Nat
      /\ m <= docSeq /\ k <= docSeq /\ req[r].serverSeq = m
    <2>1. /\ m \in Nat /\ k \in Nat /\ docSeq \in Nat
          /\ m <= docSeq /\ k <= docSeq /\ req[r].serverSeq = m
        BY <1>1, <1>2 DEF TypeOK, Checkpoint, Response, HandlerInv, RequestInv, ReplicaInv
    <2> HIDE DEF m, k, M
    <2> QED BY <1>3, <2>1 DEF MaxOf
<1>5. /\ root[c].twice = {} /\ old \subseteq Prefix(m) \cup own
      /\ resp[r].root.twice = {}
      /\ \A x \in new : x.actor # c /\ \E s \in (m + 1) .. k : changes[s] = x
    BY <1>1, <1>2, <1>4 DEF ExactRoot, ExactPack
<1>6. old \cap new = {}
    <2> SUFFICES ASSUME NEW x \in old, x \in new PROVE FALSE
        OBVIOUS
    <2>1. PICK s \in (m + 1) .. k : changes[s] = x
        BY <1>5
    <2>2. x \notin own
        BY <1>5 DEF LocalChanges
    <2>3. PICK t \in 1 .. m : changes[t] = x
        BY <1>5, <2>2 DEF Prefix
    <2>4. s \in 1 .. docSeq /\ t \in 1 .. docSeq /\ s # t
        BY <1>4
    <2>5. s \in DOMAIN changes /\ t \in DOMAIN changes
        BY <2>4 DEF IndInv, LogInv, RowsInv
    <2> QED BY <1>2, <2>1, <2>3, <2>4, <2>5 DEF NoDuplicates
<1>7. root'[c].twice = {} /\ root'[c].seen = old \cup new
    BY <1>3, <1>5, <1>6 DEF Execute
<1>8. Prefix(m) \subseteq Prefix(M) /\ new \subseteq Prefix(M)
    <2>1. Prefix(m) \subseteq Prefix(M)
        BY <1>4, Longer
    <2>2. \A s \in (m + 1) .. k : s \in 1 .. M
        BY <1>4
    <2> QED BY <1>5, <2>1, <2>2 DEF Prefix
<1>9. Prefix(doc[c].cp.serverSeq)' = Prefix(M)
    BY <1>3 DEF Prefix
<1>10. LocalChanges(c, 0, doc[c].seq)'.seen = own
    BY <1>3 DEF LocalChanges
<1> HIDE DEF m, k, M, own, old, new
<1> QED BY <1>5, <1>7, <1>8, <1>9, <1>10 DEF ExactRoot

\* A replica that is left alone shows what it did.
LEMMA RootKept ==
    ASSUME IndInv, DeliveryInv, TypeOK', LogStep, NEW c \in Clients, ExactRoot(c),
           doc'[c] = doc[c], root'[c] = root[c]
    PROVE  ExactRoot(c)'
<1> DEFINE m == doc[c].cp.serverSeq
<1>1. m \in Nat /\ m <= docSeq /\ TypeOK
    BY DEF IndInv, TypeOK, Checkpoint, DeliveryInv, ReplicaInv
<1>2. \A s \in 1 .. m : changes'[s] = changes[s]
    <2> HIDE DEF m
    <2> QED BY <1>1, LogBelow
<1>3. Prefix(doc[c].cp.serverSeq)' = Prefix(m)
    BY <1>2 DEF Prefix
<1>4. LocalChanges(c, 0, doc[c].seq)' = LocalChanges(c, 0, doc[c].seq)
    BY DEF LocalChanges
<1> HIDE DEF m
<1> QED BY <1>3, <1>4 DEF ExactRoot, m

\* Every step but a pull keeps the answers there are.
LEMMA PacksKept ==
    ASSUME IndInv, OnceInv, Faults = {}, [Next]_vars, NEW r \in Reqs, ~Pull(r)
    PROVE  \/ pc'[r] \notin {"store", "client", "synced", "min", "done"}
           \/ /\ pc[r] \in {"store", "client", "synced", "min", "done"}
              /\ req'[r] = req[r]
              /\ resp'[r].isSnapshot = resp[r].isSnapshot
              /\ resp'[r].root = resp[r].root /\ resp'[r].cp = resp[r].cp
<1> DEFINE Busy == {"store", "client", "synced", "min", "done"}
           Kept == /\ req'[r] = req[r]
                   /\ resp'[r].isSnapshot = resp[r].isSnapshot
                   /\ resp'[r].root = resp[r].root /\ resp'[r].cp = resp[r].cp
           Fine == pc'[r] \notin Busy \/ (pc[r] \in Busy /\ Kept)
<1>0. TypeOK /\ LogInv
    BY DEF IndInv
<1>1. ASSUME pc'[r] = pc[r] \/ (pc[r] \in Busy), req'[r] = req[r], resp'[r] = resp[r] PROVE Fine
    BY <1>1
<1>2. ASSUME NEW c \in Clients, ClientNext(c) PROVE Fine
    <2>1. CASE Update(c)
        BY <1>1, <2>1 DEF Update, handlerVars
    <2>2. ASSUME NEW m \in Methods, Call(c, m) PROVE Fine
        <3>1. PICK q \in Reqs : /\ pc' = [pc EXCEPT ![q] = "recv"]
                                /\ \A p \in Reqs \ {q} : req'[p] = req[p]
            BY <1>0, <2>2 DEF Call, TypeOK
        <3>2. CASE q = r
            <4>1. pc'[r] = "recv"
                BY <1>0, <3>1, <3>2 DEF TypeOK
            <4> QED BY <4>1
        <3>3. CASE q # r
            <4>1. pc'[r] = pc[r] /\ req'[r] = req[r] /\ resp'[r] = resp[r]
                BY <1>0, <2>2, <3>1, <3>3 DEF Call, TypeOK
            <4> QED BY <1>1, <4>1
        <3> QED BY <3>2, <3>3
    <2>3. CASE Receive(c) \/ ReceiveError(c)
        <3>1. PICK q \in Reqs : Free(q)
            BY <1>0, <2>3 DEF Receive, ReceiveError, TypeOK
        <3>2. CASE q = r
            <4>1. pc'[r] = "idle"
                BY <1>0, <3>1, <3>2 DEF Free, TypeOK
            <4> QED BY <4>1
        <3>3. CASE q # r
            <4>1. pc'[r] = pc[r] /\ req'[r] = req[r] /\ resp'[r] = resp[r]
                BY <1>0, <3>1, <3>3 DEF Free, TypeOK
            <4> QED BY <1>1, <4>1
        <3> QED BY <3>2, <3>3
    <2>4. ~Lost(c) /\ ~Cancel(c)
        BY DEF Lost, Cancel, Fault
    <2> QED BY <1>2, <2>1, <2>2, <2>3, <2>4 DEF ClientNext, Attach, Sync, Detach
<1>3. ASSUME NEW q \in Reqs, ReqNext(q) PROVE Fine
    <2>1. ASSUME q # r, NEW o, NEW p, Return(q, o, p) PROVE Fine
        BY <1>0, <2>1 DEF Return, TypeOK
    <2>2. CASE FindClient(q) \/ StoreChange(q) \/ UpdateClient(q) \/ UpdateSynced(q)
        BY <1>0, <2>2 DEF FindClient, StoreChange, UpdateClient, UpdateSynced, TypeOK
    <2>3. CASE FindDoc(q) \/ Pull(q) \/ UpdateDoc(q)
        <3>1. CASE Fail(q)
            <4>1. CASE q = r
                <5>1. pc'[r] \in {"failed", "idle"}
                    BY <1>0, <3>1, <4>1 DEF Fail, Return, TypeOK
                <5> QED BY <5>1
            <4> QED BY <2>1, <3>1, <4>1 DEF Fail
        <3>2. CASE ~Fail(q)
            BY <1>0, <2>3, <3>2 DEF FindDoc, Pull, UpdateDoc, TypeOK
        <3> QED BY <3>1, <3>2
    <2>4. CASE FindMin(q)
        <3>1. pc[q] = "min" /\ Return(q, "done", [resp[q] EXCEPT !.min = MinSyncedSeq])
            BY <2>4 DEF FindMin
        <3>2. CASE q = r
            <4>1. wait[req[r].client] = r /\ resp[r] \in Response
                BY <1>0, <3>1, <3>2 DEF OnceInv, Awaited, TypeOK
            <4>2. req'[r] = req[r] /\ resp'[r] = [resp[r] EXCEPT !.min = MinSyncedSeq]
                BY <1>0, <3>1, <3>2, <4>1 DEF Return, Waited, TypeOK
            <4>3. Kept
                BY <4>1, <4>2 DEF Response
            <4> HIDE DEF Kept
            <4> QED BY <3>1, <3>2, <4>3
        <3> QED BY <2>1, <3>1, <3>2
    <2>5. CASE JobRead(q) \/ JobStore(q)
        BY <1>1, <2>5 DEF JobRead, JobStore, handlerVars
    <2>6. ~DBError(q) /\ ~JobError(q)
        BY DEF DBError, JobError, Fault
    <2> QED BY <1>3, <2>2, <2>3, <2>4, <2>5, <2>6 DEF ReqNext, HandlerStep
<1>4. ~Crash
    BY DEF Crash, Fault
<1>5. CASE UNCHANGED vars
    BY <1>1, <1>5 DEF vars, handlerVars
<1> QED BY <1>2, <1>3, <1>4, <1>5 DEF Next

\* Every step keeps it, as long as nothing fails and no answer is a snapshot.
LEMMA ExactStep ==
    ASSUME IndInv, DeliveryInv, OnceInv, ExactInv, Faults = {}, [Next]_vars,
           \A r \in Reqs : ~resp[r].isSnapshot
    PROVE  ExactInv'
<1>1. IndInv' /\ LogStep /\ TypeOK /\ TypeOK'
    BY IndInvStep, LogInvStep DEF IndInv
<1>2. ASSUME NEW r \in Reqs PROVE ExactPack(r)'
    <2>1. CASE Pull(r)
        BY <1>1, <2>1, PulledOnce
    <2>2. CASE ~Pull(r)
        BY <1>1, <2>2, PacksKept, PackKept DEF ExactInv
    <2> QED BY <2>1, <2>2
<1>3. ASSUME NEW c \in Clients PROVE ExactRoot(c)'
    <2>1. CASE Update(c)
        BY <1>1, <2>1, UpdatedOnce DEF ExactInv
    <2>2. CASE Receive(c)
        BY <1>1, <2>2, ReceivedOnce
    <2>3. CASE ~Update(c) /\ ~Receive(c)
        <3>1. doc'[c] = doc[c] /\ root'[c] = root[c]
            <4>1. ASSUME NEW d \in Clients, ClientNext(d) PROVE doc'[c] = doc[c] /\ root'[c] = root[c]
                <5>1. CASE Update(d)
                    BY <1>1, <2>3, <4>1, <5>1 DEF Update, TypeOK
                <5>2. CASE Receive(d)
                    BY <1>1, <2>3, <4>1, <5>2 DEF Receive, TypeOK
                <5>3. CASE ~Update(d) /\ ~Receive(d)
                    BY <4>1, <5>3 DEF ClientNext, Attach, Sync, Detach, Call, ReceiveError, Lost, Cancel
                <5> QED BY <1>1, <5>1, <5>2, <5>3
            <4>2. ASSUME NEW q \in Reqs, ReqNext(q) PROVE UNCHANGED <<doc, root>>
                BY <4>2 DEF ReqNext, HandlerStep, FindClient, FindDoc, Pull, StoreChange, UpdateDoc, UpdateClient,
                            UpdateSynced, FindMin, JobRead, JobStore, DBError, JobError, clientVars
            <4> QED BY <4>1, <4>2 DEF Next, Crash, vars, clientVars
        <3> QED BY <1>1, <3>1, RootKept DEF ExactInv
    <2> QED BY <2>1, <2>2, <2>3
<1> QED BY <1>2, <1>3 DEF ExactInv

\* Then a replica without local changes is the replay of what it has received.
LEMMA ExactReplay ==
    ASSUME IndInv, DeliveryInv, ExactInv, NEW c \in Clients, doc[c].acked = doc[c].seq
    PROVE  root[c] = [seen |-> Prefix(doc[c].cp.serverSeq), twice |-> {}]
<1> DEFINE m == doc[c].cp.serverSeq
           own == LocalChanges(c, 0, doc[c].seq).seen
<1>1. ReplicaInv(c) /\ ExactRoot(c) /\ root[c] \in Root /\ doc[c].seq \in Nat
    BY DEF IndInv, TypeOK, DeliveryInv, ExactInv
<1>2. own \subseteq Prefix(m)
    BY <1>1 DEF ReplicaInv, StoredWithin, LocalChanges, Prefix
<1>3. Prefix(m) \cup own \subseteq root[c].seen /\ root[c].seen \subseteq Prefix(m) \cup own
    BY <1>1 DEF ReplicaInv, ExactRoot
<1>4. root[c].seen = Prefix(m) /\ root[c].twice = {}
    <2> HIDE DEF own, m
    <2>1. root[c].seen = Prefix(m)
        BY <1>2, <1>3
    <2> QED BY <1>1, <2>1 DEF ExactRoot
<1> HIDE DEF m
<1>5. root[c] = [seen |-> root[c].seen, twice |-> root[c].twice]
    BY <1>1 DEF Root
<1> QED BY <1>4, <1>5 DEF m

\* Replicas without local changes that have received the same prefix of the
\* log are equal (SyncedReplicasEqual), as long as nothing fails and pullPack
\* answers with changes: a change is pushed once, pulled once and never by the
\* client that made it.  Snapshots are excluded because pullSnapshot may hand
\* out changes above the checkpoint, which are then pulled again.
THEOREM SyncedReplicas ==
    ASSUME Faults = {}
    PROVE  Spec /\ [](\A r \in Reqs : ~resp[r].isSnapshot) => []SyncedReplicasEqual
<1>1. Init => ExactInv
    <2> SUFFICES ASSUME Init PROVE ExactInv
        OBVIOUS
    <2>1. /\ \A c \in Clients : root[c] = EmptyRoot
          /\ \A r \in Reqs : pc[r] = "idle"
        BY DEF Init
    <2> QED BY <2>1 DEF ExactInv, ExactRoot, ExactPack, EmptyRoot
<1>2. IndInv /\ DeliveryInv /\ OnceInv /\ [Next]_vars => OnceInv'
    BY OnceStep
<1>3. IndInv /\ DeliveryInv /\ OnceInv /\ ExactInv /\ (\A r \in Reqs : ~resp[r].isSnapshot) /\ [Next]_vars
      => ExactInv'
    BY ExactStep
<1>4. IndInv /\ DeliveryInv /\ ExactInv => SyncedReplicasEqual
    BY ExactReplay DEF SyncedReplicasEqual
<1> QED BY <1>1, <1>2, <1>3, <1>4, OnceInit, Invariance, Delivery, PTL DEF Spec
=============================================================================
