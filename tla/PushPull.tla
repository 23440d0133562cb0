------------------------------ MODULE PushPull ------------------------------
(***************************************************************************)
(* The synchronisation of one document between its clients and the agent:  *)
(* Client.Attach, Client.Sync and Client.Detach on one side, the RPC       *)
(* handlers AttachDocument, PushPull and DetachDocument, packs.PushPull    *)
(* and the Mongo collections they read and write on the other.             *)
(*                                                                         *)
(* Every access to the database is a step of its own, so that the handlers *)
(* interleave as they do in the agent.  A change is identified by the      *)
(* client that made it and its client seq; what a change does to the       *)
(* document is abstracted to the fact that it was executed, once or more   *)
(* than once.                                                              *)
(***************************************************************************)
EXTENDS Integers

CONSTANTS
    Clients,            \* activated clients that edit the document
    Reqs,               \* slots for the requests the agent works on
    None,               \* the value that is neither a slot nor a client
    Methods,            \* the RPCs the clients use in this instance
    Faults,             \* the faults that happen in this instance
    MaxFaults,          \* bound on the number of faults
    MaxEdits,           \* bound on Document.Update calls of one client
    SnapshotThreshold,  \* Config.SnapshotThreshold
    SnapshotInterval    \* Config.SnapshotInterval

ASSUME NoneAssumption == None \notin Reqs
ASSUME MethodsAssumption == Methods \subseteq {"attach", "pushpull", "detach"}
ASSUME FaultsAssumption == Faults \subseteq {"lost", "cancel", "dberror", "crash"}
ASSUME BoundsAssumption == MaxFaults \in Nat /\ MaxEdits \in Nat
ASSUME SnapshotAssumption ==
    SnapshotThreshold \in Nat \ {0} /\ SnapshotInterval \in Nat \ {0}

VARIABLES
    \* the collections
    clientInfos,  \* clients: ClientDocInfo of the document, for every client
    docSeq,       \* documents: server_seq
    changes,      \* changes: server_seq -> change
    snapshot,     \* snapshots: the row with the greatest server_seq
    syncedSeqs,   \* syncedseqs: server_seq of the client's row, NoRow if none
    \* the coordinator's lockers
    lock,         \* holder of the pushpull lock of the document
    snapLock,     \* holder of the snapshot lock of the document
    \* the request handlers
    pc,           \* the next database access of the handler
    req,          \* the request: client, method, checkpoint, changes
    info,         \* clientInfo.Documents[docInfo.ID] in the handler's memory
    init,         \* initialServerSeq
    base,         \* the changes base+1 .. hi are the pushedChanges
    wrote,        \* how many of the pushedChanges the BulkWrite has stored
    resp,         \* respPack
    \* the goroutines that store snapshots
    job,
    \* the clients
    doc,          \* attachment, checkpoint and localChanges of the Document
    root,         \* InternalDocument.root
    wait,         \* the request the client's call is blocked on
    \* the environment
    faults        \* faults so far

dbVars == <<clientInfos, docSeq, changes, snapshot, syncedSeqs>>
handlerVars == <<pc, req, info, init, base, wrote, resp>>
clientVars == <<doc, root, wait>>
vars == <<dbVars, lock, snapLock, handlerVars, job, clientVars, faults>>

-----------------------------------------------------------------------------
NoRow == -1
MaxOf(a, b) == IF a < b THEN b ELSE a
MinOf(a, b) == IF a < b THEN a ELSE b

Change == [actor : Clients, clientSeq : Nat \ {0}]
Checkpoint == [serverSeq : Nat, clientSeq : Nat]

\* The effect of a run of changes on a root: the changes executed at least
\* once and those executed more than once.  A counter shows the second.
Root == [seen : SUBSET Change, twice : SUBSET Change]
EmptyRoot == [seen |-> {}, twice |-> {}]

Execute(r, s) == [seen |-> r.seen \cup s.seen,
                  twice |-> r.twice \cup s.twice \cup (r.seen \cap s.seen)]

\* The local changes from+1 .. to of client c, executed on an empty root.
LocalChanges(c, from, to) ==
    [seen |-> {[actor |-> c, clientSeq |-> k] : k \in (from + 1) .. to}, twice |-> {}]

\* FindChangeInfosBetweenServerSeqs(from+1, to), executed on an empty root.
FindChangeInfos(from, to) ==
    LET Rows == {s \in DOMAIN changes : from < s /\ s <= to}
    IN  [seen |-> {changes[s] : s \in Rows},
         twice |-> {changes[s] : s \in {t \in Rows : \E u \in Rows \ {t} : changes[u] = changes[t]}}]

ClientDocInfo == [status : {"never", "attached", "detached"}, serverSeq : Nat, clientSeq : Nat]
Request == [client : Clients \cup {None}, method : {"attach", "pushpull", "detach"},
            serverSeq : Nat, lo : Nat, hi : Nat]
Response == [cp : Checkpoint, isSnapshot : BOOLEAN, root : Root, min : Nat]

NoRequest == [client |-> None, method |-> "pushpull", serverSeq |-> 0, lo |-> 0, hi |-> 0]
NoInfo == [status |-> "never", serverSeq |-> 0, clientSeq |-> 0]
InitialCheckpoint == [serverSeq |-> 0, clientSeq |-> 0]
NoResp == [cp |-> InitialCheckpoint, isSnapshot |-> FALSE, root |-> EmptyRoot, min |-> 0]
NoJob == [pc |-> "none", seq |-> 0, root |-> EmptyRoot]

TypeOK ==
    /\ clientInfos \in [Clients -> ClientDocInfo]
    /\ docSeq \in Nat
    /\ DOMAIN changes \subseteq Nat \ {0}
    /\ changes \in [DOMAIN changes -> Change]
    /\ snapshot \in [serverSeq : Nat, root : Root]
    /\ syncedSeqs \in [Clients -> Nat \cup {NoRow}]
    /\ lock \in Reqs \cup {None}
    /\ snapLock \in Reqs \cup {None}
    /\ pc \in [Reqs -> {"idle", "recv", "findDoc", "pull", "store", "client",
                        "synced", "min", "done", "failed"}]
    /\ req \in [Reqs -> Request]
    /\ \A r \in Reqs : pc[r] # "idle" => req[r].client \in Clients
    /\ info \in [Reqs -> ClientDocInfo]
    /\ init \in [Reqs -> Nat]
    /\ base \in [Reqs -> Nat]
    /\ wrote \in [Reqs -> Nat]
    /\ resp \in [Reqs -> Response]
    /\ job \in [Reqs -> [pc : {"none", "wait", "store"}, seq : Nat, root : Root]]
    /\ doc \in [Clients -> [attached : BOOLEAN, cp : Checkpoint, acked : Nat, seq : Nat]]
    /\ root \in [Clients -> Root]
    /\ wait \in [Clients -> Reqs \cup {None}]
    /\ faults \in Nat

-----------------------------------------------------------------------------
HasChanges(r) == req[r].lo < req[r].hi

\* The number of pushedChanges.
Size(r) == IF base[r] < req[r].hi THEN req[r].hi - base[r] ELSE 0

\* docInfo.ServerSeq in the handler's memory, after pushChanges.
ServerSeq(r) == init[r] + Size(r)

Init ==
    /\ clientInfos = [c \in Clients |-> NoInfo]
    /\ docSeq = 0
    /\ changes = [s \in {} |-> None]
    /\ snapshot = [serverSeq |-> 0, root |-> EmptyRoot]
    /\ syncedSeqs = [c \in Clients |-> NoRow]
    /\ lock = None
    /\ snapLock = None
    /\ pc = [r \in Reqs |-> "idle"]
    /\ req = [r \in Reqs |-> NoRequest]
    /\ info = [r \in Reqs |-> NoInfo]
    /\ init = [r \in Reqs |-> 0]
    /\ base = [r \in Reqs |-> 0]
    /\ wrote = [r \in Reqs |-> 0]
    /\ resp = [r \in Reqs |-> NoResp]
    /\ job = [r \in Reqs |-> NoJob]
    /\ doc = [c \in Clients |->
                [attached |-> FALSE, cp |-> InitialCheckpoint, acked |-> 0, seq |-> 0]]
    /\ root = [c \in Clients |-> EmptyRoot]
    /\ wait = [c \in Clients |-> None]
    /\ faults = 0

-----------------------------------------------------------------------------
(***************************************************************************)
(* The client's calls                                                      *)
(***************************************************************************)

\* Document.Update: the change is executed on the root and becomes local.
Update(c) ==
    /\ wait[c] = None
    /\ doc[c].seq < MaxEdits
    /\ doc' = [doc EXCEPT ![c].seq = @ + 1]
    /\ root' = [root EXCEPT ![c] = Execute(@, LocalChanges(c, doc[c].seq, doc[c].seq + 1))]
    /\ UNCHANGED <<dbVars, lock, snapLock, handlerVars, job, wait, faults>>

\* CreateChangePack and the call of the RPC.
Call(c, m) ==
    /\ wait[c] = None
    /\ \E r \in Reqs :
        /\ pc[r] = "idle"
        /\ job[r].pc = "none"
        /\ pc' = [pc EXCEPT ![r] = "recv"]
        /\ req' = [req EXCEPT ![r] =
                    [client |-> c, method |-> m, serverSeq |-> doc[c].cp.serverSeq,
                     lo |-> doc[c].acked, hi |-> doc[c].seq]]
        /\ wait' = [wait EXCEPT ![c] = r]
    /\ UNCHANGED <<dbVars, lock, snapLock, info, init, base, wrote, resp, job, doc, root, faults>>

\* Client.Attach does not look at the attachments, sync and Detach do.
Attach(c) == "attach" \in Methods /\ Call(c, "attach")
Sync(c) == "pushpull" \in Methods /\ doc[c].attached /\ Call(c, "pushpull")
Detach(c) == "detach" \in Methods /\ doc[c].attached /\ Call(c, "detach")

\* Checkpoint.Forward.
Forward(cp, other) == [serverSeq |-> MaxOf(cp.serverSeq, other.serverSeq),
                       clientSeq |-> MaxOf(cp.clientSeq, other.clientSeq)]

\* A mutant of AppliedRoot: the local changes are executed again after every pull.
AppliedRootReplaying(c, pack) ==
    Execute(Execute(IF pack.isSnapshot THEN EmptyRoot ELSE root[c], pack.root),
            LocalChanges(c, doc[c].acked, doc[c].seq))

\* A mutant of AppliedRoot: a snapshot replaces the local changes as well.
AppliedRootForgetting(c, pack) ==
    IF pack.isSnapshot THEN pack.root ELSE Execute(root[c], pack.root)

\* Document.ApplyChangePack: the root after the pulled changes or snapshot.
AppliedRoot(c, pack) ==
    IF pack.isSnapshot
    THEN Execute(pack.root, LocalChanges(c, doc[c].acked, doc[c].seq))
    ELSE Execute(root[c], pack.root)

\* A mutant of AppliedDoc: the local changes are kept.
AppliedDocKeeping(c, pack) == [doc[c] EXCEPT !.cp = Forward(@, pack.cp)]

\* Document.ApplyChangePack: the local changes the agent has are dropped.
AppliedDoc(c, pack) ==
    [doc[c] EXCEPT !.acked = MaxOf(@, MinOf(doc[c].seq, pack.cp.clientSeq)),
                   !.cp = Forward(@, pack.cp)]

\* The slot of a request that is over.
Free(r) ==
    /\ pc' = [pc EXCEPT ![r] = "idle"]
    /\ req' = [req EXCEPT ![r] = NoRequest]
    /\ resp' = [resp EXCEPT ![r] = NoResp]

\* Client.Attach, sync and Detach from the response on.
Receive(c) ==
    LET r == wait[c]
    IN  /\ r # None
        /\ pc[r] = "done"
        /\ doc' = [doc EXCEPT ![c] =
                    [AppliedDoc(c, resp[r]) EXCEPT
                        !.attached = CASE req[r].method = "attach" -> TRUE
                                       [] req[r].method = "detach" -> FALSE
                                       [] OTHER -> @]]
        /\ root' = [root EXCEPT ![c] = AppliedRoot(c, resp[r])]
        /\ wait' = [wait EXCEPT ![c] = None]
        /\ Free(r)
        /\ UNCHANGED <<dbVars, lock, snapLock, info, init, base, wrote, job, faults>>

\* The RPC returns an error: the call returns it and changes nothing.
ReceiveError(c) ==
    LET r == wait[c]
    IN  /\ r # None
        /\ pc[r] = "failed"
        /\ wait' = [wait EXCEPT ![c] = None]
        /\ Free(r)
        /\ UNCHANGED <<dbVars, lock, snapLock, info, init, base, wrote, job, doc, root, faults>>

-----------------------------------------------------------------------------
(***************************************************************************)
(* The handlers                                                            *)
(***************************************************************************)

\* The handler returns: its locals are gone, the deferred Unlock runs, and
\* the outcome waits for the client unless it has stopped waiting.
Waited(r) == wait[req[r].client] = r

Return(r, outcome, pack) ==
    /\ pc' = [pc EXCEPT ![r] = IF Waited(r) THEN outcome ELSE "idle"]
    /\ req' = [req EXCEPT ![r] = IF Waited(r) THEN @ ELSE NoRequest]
    /\ resp' = [resp EXCEPT ![r] = IF Waited(r) THEN pack ELSE NoResp]
    /\ info' = [info EXCEPT ![r] = NoInfo]
    /\ init' = [init EXCEPT ![r] = 0]
    /\ base' = [base EXCEPT ![r] = 0]
    /\ wrote' = [wrote EXCEPT ![r] = 0]
    /\ lock' = IF lock = r THEN None ELSE lock

Fail(r) == Return(r, "failed", NoResp)

\* A mutant of FindClient: the handler does not wait for the lock.
FindClientUnlocked(r) ==
    /\ pc[r] = "recv"
    /\ lock' = IF HasChanges(r) THEN r ELSE lock
    /\ info' = [info EXCEPT ![r] = clientInfos[req[r].client]]
    /\ pc' = [pc EXCEPT ![r] = "findDoc"]
    /\ UNCHANGED <<dbVars, snapLock, req, init, base, wrote, resp, job, clientVars, faults>>

\* The lock is taken only for a pack with changes; then FindClientInfoByID.
FindClient(r) ==
    /\ pc[r] = "recv"
    /\ HasChanges(r) => lock = None
    /\ lock' = IF HasChanges(r) THEN r ELSE lock
    /\ info' = [info EXCEPT ![r] = clientInfos[req[r].client]]
    /\ pc' = [pc EXCEPT ![r] = "findDoc"]
    /\ UNCHANGED <<dbVars, snapLock, req, init, base, wrote, resp, job, clientVars, faults>>

\* The errors of ClientInfo.AttachDocument and EnsureDocumentAttached.
Admitted(r) == (req[r].method = "attach") <=> (info[r].status # "attached")

\* A mutant of MarkedInfo: DetachDocument clears the status with the seqs.
MarkedInfoZero(r) ==
    CASE req[r].method = "attach" -> [status |-> "attached", serverSeq |-> 0, clientSeq |-> 0]
      [] req[r].method = "detach" -> [status |-> "", serverSeq |-> 0, clientSeq |-> 0]
      [] OTHER -> info[r]

\* ClientInfo.AttachDocument and DetachDocument, on the handler's copy.
MarkedInfo(r) ==
    CASE req[r].method = "attach" -> [status |-> "attached", serverSeq |-> 0, clientSeq |-> 0]
      [] req[r].method = "detach" -> [status |-> "detached", serverSeq |-> 0, clientSeq |-> 0]
      [] OTHER -> info[r]

\* Mutants of PushedBase: no change is skipped, and one too many.
PushedBaseUnfiltered(r) == req[r].lo
PushedBaseSkipping(r) == MaxOf(req[r].lo, MarkedInfo(r).clientSeq + 1)

\* pushChanges skips the changes up to the client seq of the client's checkpoint.
PushedBase(r) == MaxOf(req[r].lo, MarkedInfo(r).clientSeq)

\* FindDocInfoByKey, the attachment of the client and pushChanges.
FindDoc(r) ==
    /\ pc[r] = "findDoc"
    /\ IF Admitted(r)
       THEN /\ info' = [info EXCEPT ![r] = MarkedInfo(r)]
            /\ init' = [init EXCEPT ![r] = docSeq]
            /\ base' = [base EXCEPT ![r] = PushedBase(r)]
            /\ pc' = [pc EXCEPT ![r] = "pull"]
            /\ UNCHANGED <<lock, req, wrote, resp>>
       ELSE Fail(r)
    /\ UNCHANGED <<dbVars, snapLock, job, clientVars, faults>>

\* Mutants of PulledCP: the server seq of before the push, and a client seq
\* that is one ahead.
PulledCPInitial(r) ==
    [serverSeq |-> init[r],
     clientSeq |-> IF HasChanges(r) THEN MaxOf(info[r].clientSeq, req[r].hi) ELSE info[r].clientSeq]

PulledCPAhead(r) ==
    [serverSeq |-> ServerSeq(r),
     clientSeq |-> IF HasChanges(r) THEN MaxOf(info[r].clientSeq, req[r].hi + 1) ELSE info[r].clientSeq]

\* The checkpoint of respPack: pushedCP.NextServerSeq(docInfo.ServerSeq).
PulledCP(r) ==
    [serverSeq |-> ServerSeq(r),
     clientSeq |-> IF HasChanges(r) THEN MaxOf(info[r].clientSeq, req[r].hi) ELSE info[r].clientSeq]

\* A mutant of PulledPack: the changes after the checkpoint the agent keeps
\* for the client, not after the one the client has sent.
PulledPackOfInfo(r) ==
    [cp |-> PulledCP(r), isSnapshot |-> FALSE, min |-> 0,
     root |-> FindChangeInfos(info[r].serverSeq, init[r])]

\* pullChanges and pullSnapshot.
PulledPack(r) ==
    IF init[r] - req[r].serverSeq < SnapshotThreshold
    THEN [cp |-> PulledCP(r), isSnapshot |-> FALSE, min |-> 0,
          root |-> FindChangeInfos(req[r].serverSeq, init[r])]
    ELSE [cp |-> PulledCP(r), isSnapshot |-> TRUE, min |-> 0,
          root |-> IF snapshot.serverSeq >= init[r]
                   THEN snapshot.root
                   ELSE Execute(snapshot.root, FindChangeInfos(snapshot.serverSeq, init[r]))]

\* pullPack, then ClientInfo.UpdateCheckpoint on the handler's copy.
Pull(r) ==
    /\ pc[r] = "pull"
    /\ IF init[r] < req[r].serverSeq
       THEN Fail(r)
       ELSE /\ resp' = [resp EXCEPT ![r] = PulledPack(r)]
            /\ info' = [info EXCEPT ![r].serverSeq = PulledCP(r).serverSeq,
                                    ![r].clientSeq = PulledCP(r).clientSeq]
            /\ pc' = [pc EXCEPT ![r] = IF Size(r) > 0 THEN "store" ELSE "client"]
            /\ UNCHANGED <<lock, req, init, base, wrote>>
    /\ UNCHANGED <<dbVars, snapLock, job, clientVars, faults>>

\* StoreChangeInfos: one upsert of the ordered BulkWrite.
StoreChange(r) ==
    LET s == init[r] + wrote[r] + 1
        c == [actor |-> req[r].client, clientSeq |-> base[r] + wrote[r] + 1]
    IN  /\ pc[r] = "store"
        /\ wrote[r] < Size(r)
        /\ changes' = [t \in DOMAIN changes \cup {s} |-> IF t = s THEN c ELSE changes[t]]
        /\ wrote' = [wrote EXCEPT ![r] = @ + 1]
        /\ UNCHANGED <<clientInfos, docSeq, snapshot, syncedSeqs, lock, snapLock,
                       pc, req, info, init, base, resp, job, clientVars, faults>>

\* StoreChangeInfos: server_seq of the document, if it is still initialServerSeq.
UpdateDoc(r) ==
    /\ pc[r] = "store"
    /\ wrote[r] = Size(r)
    /\ IF docSeq = init[r]
       THEN /\ docSeq' = ServerSeq(r)
            /\ pc' = [pc EXCEPT ![r] = "client"]
            /\ UNCHANGED <<lock, req, info, init, base, wrote, resp>>
       ELSE Fail(r) /\ UNCHANGED docSeq
    /\ UNCHANGED <<clientInfos, changes, snapshot, syncedSeqs, snapLock, job, clientVars, faults>>

\* UpdateClientInfoAfterPushPull: $max while attached, reset when detached.
StoredInfo(r) ==
    LET row == clientInfos[req[r].client]
    IN  IF info[r].status = "attached"
        THEN [status |-> info[r].status,
              serverSeq |-> MaxOf(row.serverSeq, info[r].serverSeq),
              clientSeq |-> MaxOf(row.clientSeq, info[r].clientSeq)]
        ELSE [status |-> info[r].status, serverSeq |-> 0, clientSeq |-> 0]

UpdateClient(r) ==
    /\ pc[r] = "client"
    /\ clientInfos' = [clientInfos EXCEPT ![req[r].client] = StoredInfo(r)]
    /\ pc' = [pc EXCEPT ![r] = "synced"]
    /\ UNCHANGED <<docSeq, changes, snapshot, syncedSeqs, lock, snapLock,
                   req, info, init, base, wrote, resp, job, clientVars, faults>>

\* A mutant of UpdateSynced: the row holds the server seq of the response.
UpdateSyncedEagerly(r) ==
    /\ pc[r] = "synced"
    /\ syncedSeqs' = [syncedSeqs EXCEPT ![req[r].client] =
                        IF info[r].status = "attached" THEN resp[r].cp.serverSeq ELSE NoRow]
    /\ pc' = [pc EXCEPT ![r] = "min"]
    /\ UNCHANGED <<clientInfos, docSeq, changes, snapshot, lock, snapLock,
                   req, info, init, base, wrote, resp, job, clientVars, faults>>

\* UpdateAndFindMinSyncedTicket: the row of the client holds the server seq
\* of the request, since the response may never arrive.
UpdateSynced(r) ==
    /\ pc[r] = "synced"
    /\ syncedSeqs' = [syncedSeqs EXCEPT ![req[r].client] =
                        IF info[r].status = "attached" THEN req[r].serverSeq ELSE NoRow]
    /\ pc' = [pc EXCEPT ![r] = "min"]
    /\ UNCHANGED <<clientInfos, docSeq, changes, snapshot, lock, snapLock,
                   req, info, init, base, wrote, resp, job, clientVars, faults>>

\* UpdateAndFindMinSyncedTicket: the least row, 0 (InitialTicket) without rows.
MinSyncedSeq ==
    LET rows == {syncedSeqs[c] : c \in Clients} \ {NoRow}
    IN  IF rows = {} THEN 0 ELSE CHOOSE m \in rows : \A n \in rows : m <= n

\* The end of packs.PushPull: the goroutine is started and the handler returns.
FindMin(r) ==
    /\ pc[r] = "min"
    /\ job' = IF HasChanges(r)
              THEN [job EXCEPT ![r] = [pc |-> "wait", seq |-> ServerSeq(r), root |-> EmptyRoot]]
              ELSE job
    /\ Return(r, "done", [resp[r] EXCEPT !.min = MinSyncedSeq])
    /\ UNCHANGED <<dbVars, snapLock, clientVars, faults>>

-----------------------------------------------------------------------------
(***************************************************************************)
(* The goroutine that stores a snapshot, under the snapshot lock           *)
(***************************************************************************)

\* A mutant of JobRead: all changes are applied to the last snapshot.
JobReadAll(r) ==
    /\ job[r].pc = "wait"
    /\ snapLock = None
    /\ job' = [job EXCEPT ![r].pc = "store",
                          ![r].root = Execute(snapshot.root, FindChangeInfos(0, job[r].seq))]
    /\ snapLock' = r
    /\ UNCHANGED <<dbVars, lock, handlerVars, clientVars, faults>>

\* storeSnapshot up to the new snapshot in memory.
JobRead(r) ==
    /\ job[r].pc = "wait"
    /\ snapLock = None
    /\ IF job[r].seq - snapshot.serverSeq < SnapshotInterval
       THEN job' = [job EXCEPT ![r] = NoJob] /\ UNCHANGED snapLock
       ELSE /\ job' = [job EXCEPT
                        ![r].pc = "store",
                        ![r].root = Execute(snapshot.root,
                                            FindChangeInfos(snapshot.serverSeq, job[r].seq))]
            /\ snapLock' = r
    /\ UNCHANGED <<dbVars, lock, handlerVars, clientVars, faults>>

\* CreateSnapshotInfo; FindLastSnapshotInfo reads the greatest server_seq.
JobStore(r) ==
    /\ job[r].pc = "store"
    /\ snapshot' = IF snapshot.serverSeq < job[r].seq
                   THEN [serverSeq |-> job[r].seq, root |-> job[r].root]
                   ELSE snapshot
    /\ job' = [job EXCEPT ![r] = NoJob]
    /\ snapLock' = None
    /\ UNCHANGED <<clientInfos, docSeq, changes, syncedSeqs, lock, handlerVars, clientVars, faults>>

-----------------------------------------------------------------------------
(***************************************************************************)
(* Faults                                                                  *)
(***************************************************************************)
Working == {"findDoc", "pull", "store", "client", "synced", "min"}

Fault(kind) ==
    /\ kind \in Faults
    /\ faults < MaxFaults
    /\ faults' = faults + 1

\* The call of the client fails (its timeout, a broken connection) although
\* the agent handles the request to its end.
Lost(c) ==
    LET r == wait[c]
    IN  /\ Fault("lost")
        /\ r # None
        /\ wait' = [wait EXCEPT ![c] = None]
        /\ IF pc[r] \in {"done", "failed"} THEN Free(r) ELSE UNCHANGED <<pc, req, resp>>
        /\ UNCHANGED <<dbVars, lock, snapLock, info, init, base, wrote, job, doc, root>>

\* The context of the call is cancelled: the next database access of the
\* handler returns the error, or the request never reaches the agent.
Cancel(c) ==
    LET r == wait[c]
    IN  /\ Fault("cancel")
        /\ r # None
        /\ pc[r] \in Working \cup {"recv"}
        /\ wait' = [wait EXCEPT ![c] = None]
        /\ Free(r)
        /\ info' = [info EXCEPT ![r] = NoInfo]
        /\ init' = [init EXCEPT ![r] = 0]
        /\ base' = [base EXCEPT ![r] = 0]
        /\ wrote' = [wrote EXCEPT ![r] = 0]
        /\ lock' = IF lock = r THEN None ELSE lock
        /\ UNCHANGED <<dbVars, snapLock, job, doc, root>>

\* A database access of the handler fails.
DBError(r) ==
    /\ Fault("dberror")
    /\ pc[r] \in Working
    /\ Fail(r)
    /\ UNCHANGED <<dbVars, snapLock, job, clientVars>>

\* A database access of storeSnapshot fails: the error is only logged.
JobError(r) ==
    /\ Fault("dberror")
    /\ job[r].pc = "store"
    /\ job' = [job EXCEPT ![r] = NoJob]
    /\ snapLock' = None
    /\ UNCHANGED <<dbVars, lock, handlerVars, clientVars>>

\* The agent stops and starts again: the handlers, the goroutines and the
\* lockers, which are in memory, are gone; the calls in progress fail.
Crash ==
    /\ Fault("crash")
    /\ pc' = [r \in Reqs |-> IF pc[r] # "idle" /\ Waited(r) THEN "failed" ELSE "idle"]
    /\ req' = [r \in Reqs |-> IF pc[r] # "idle" /\ Waited(r) THEN req[r] ELSE NoRequest]
    /\ resp' = [r \in Reqs |-> NoResp]
    /\ info' = [r \in Reqs |-> NoInfo]
    /\ init' = [r \in Reqs |-> 0]
    /\ base' = [r \in Reqs |-> 0]
    /\ wrote' = [r \in Reqs |-> 0]
    /\ job' = [r \in Reqs |-> NoJob]
    /\ lock' = None
    /\ snapLock' = None
    /\ UNCHANGED <<dbVars, clientVars>>

-----------------------------------------------------------------------------
ClientNext(c) ==
    \/ Update(c)
    \/ Attach(c)
    \/ Sync(c)
    \/ Detach(c)
    \/ Receive(c)
    \/ ReceiveError(c)
    \/ Lost(c)
    \/ Cancel(c)

HandlerStep(r) ==
    \/ FindDoc(r)
    \/ Pull(r)
    \/ StoreChange(r)
    \/ UpdateDoc(r)
    \/ UpdateClient(r)
    \/ UpdateSynced(r)
    \/ FindMin(r)

ReqNext(r) ==
    \/ FindClient(r)
    \/ HandlerStep(r)
    \/ JobRead(r)
    \/ JobStore(r)
    \/ DBError(r)
    \/ JobError(r)

Next ==
    \/ \E c \in Clients : ClientNext(c)
    \/ \E r \in Reqs : ReqNext(r)
    \/ Crash

Spec == Init /\ [][Next]_vars

\* The handlers and goroutines run, a waiter gets the mutex in the end, the
\* client takes the answer, and the application attaches and syncs again and
\* again.
Fairness ==
    /\ \A r \in Reqs : /\ WF_vars(HandlerStep(r))
                       /\ SF_vars(FindClient(r))
                       /\ SF_vars(JobRead(r))
                       /\ WF_vars(JobStore(r))
    /\ \A c \in Clients : /\ WF_vars(Receive(c))
                          /\ WF_vars(ReceiveError(c))
                          /\ SF_vars(Attach(c))
                          /\ SF_vars(Sync(c))

FairSpec == Spec /\ Fairness

-----------------------------------------------------------------------------
(***************************************************************************)
(* Properties                                                              *)
(***************************************************************************)

\* The changes 1 .. n of client c are in the log, where every reader finds them.
Stored(c, n) ==
    \A k \in 1 .. n : \E s \in DOMAIN changes :
        s <= docSeq /\ changes[s] = [actor |-> c, clientSeq |-> k]

\* The lock around StoreChangeInfos and its check of server_seq keep the log
\* append-only: server_seq never goes back and the row of a server seq that
\* readers may ask for is never written again, whatever handlers run or die.
LogStable ==
    [][/\ docSeq <= docSeq'
       /\ \A s \in 1 .. docSeq : s \in DOMAIN changes /\ s \in DOMAIN changes'
                                                     /\ changes'[s] = changes[s]]_vars

\* ApplyChangePack drops a local change only when the agent has stored it: no
\* edit is lost by a cancelled call, a crash or a handler that outlives its call.
AckedChangesStored == \A c \in Clients : Stored(c, doc[c].acked)

\* A replica misses nothing below its checkpoint: every change of the log up
\* to Checkpoint.ServerSeq has been executed on the root, pulled as a change,
\* inside a snapshot or made by this client.
ReplicaComplete ==
    \A c \in Clients : \A s \in 1 .. doc[c].cp.serverSeq :
        s \in DOMAIN changes /\ s <= docSeq /\ changes[s] \in root[c].seen

\* The syncedseqs row of a client never claims more than the client has
\* received, even when handlers of its older calls finish late.
SyncedSeqSound == \A c \in Clients : syncedSeqs[c] <= doc[c].cp.serverSeq

\* Why LogStable and AckedChangesStored hold: the pushpull lock is held by the
\* handler of a pack with changes,
LockInv == \A r \in Reqs : lock = r <=> pc[r] \in Working /\ HasChanges(r)

\* a client waits for a request of its own,
WaitInv == \A c \in Clients : wait[c] # None => pc[wait[c]] # "idle" /\ req[wait[c]].client = c

\* the handler that holds the lock has read the server_seq the document still
\* has, and the rows it has written are its pushedChanges, in order,
WriterInv ==
    \A r \in Reqs :
        /\ pc[r] \in {"pull", "store"} /\ HasChanges(r) => init[r] = docSeq
        /\ pc[r] \in {"idle", "recv", "findDoc", "pull", "done", "failed"} => wrote[r] = 0
        /\ pc[r] = "pull" => base[r] = MaxOf(req[r].lo, info[r].clientSeq)
        /\ pc[r] = "store" =>
            /\ req[r].lo <= base[r] /\ base[r] < req[r].hi
            /\ wrote[r] <= Size(r)
            /\ info[r].clientSeq = req[r].hi /\ resp[r].cp.clientSeq = req[r].hi
            /\ \A j \in 1 .. wrote[r] :
                /\ init[r] + j \in DOMAIN changes
                /\ changes[init[r] + j] = [actor |-> req[r].client, clientSeq |-> base[r] + j]

\* the log has no gap,
RowsInv == \A s \in 1 .. docSeq : s \in DOMAIN changes

\* and every client seq that stands for "stored so far", in the database, in a
\* handler, in a response or at the client, is one.
StoredInv ==
    /\ \A c \in Clients : Stored(c, clientInfos[c].clientSeq) /\ Stored(c, doc[c].acked)
    /\ \A r \in Reqs :
        /\ pc[r] # "idle" => Stored(req[r].client, req[r].lo)
        /\ pc[r] \in {"findDoc", "pull", "client"} => Stored(req[r].client, info[r].clientSeq)
        /\ pc[r] = "store" => Stored(req[r].client, base[r])
        /\ pc[r] \in {"client", "synced", "min", "done"} =>
            Stored(req[r].client, resp[r].cp.clientSeq)

\* The inductive invariant of the proofs, checked here on the small instance.
LogInv == LockInv /\ WaitInv /\ WriterInv /\ RowsInv
IndInv == TypeOK /\ LogInv /\ StoredInv

\* The log readers see, and the promise of module ChangeLog about it: whatever
\* handlers run, fail or die, the log only grows, by runs of a client's changes
\* without a gap; and no replica loses an edit of its own, misses one it has
\* received or shows one that is not stored, snapshots and retries included.
Log == [s \in 1 .. docSeq |-> changes[s]]

Promise == INSTANCE ChangeLog WITH
    ClientSeqs <- 0 .. MaxEdits,
    log <- Log,
    made <- [c \in Clients |-> doc[c].seq],
    acked <- [c \in Clients |-> doc[c].acked],
    received <- [c \in Clients |-> doc[c].cp.serverSeq],
    seen <- [c \in Clients |-> root[c].seen]

ImplementsChangeLog == Promise!Spec

\* The last snapshot is the log up to its server seq, executed once: it was
\* built while other requests appended to the log and other goroutines waited.
SnapshotIsReplay ==
    /\ snapshot.serverSeq <= docSeq
    /\ snapshot.root = FindChangeInfos(0, snapshot.serverSeq)

\* Why no replica misses a change: the changes 1 .. n of client c are in the
\* log up to server seq s,
StoredWithin(c, n, s) ==
    \A k \in 1 .. n : \E t \in 1 .. s : changes[t] = [actor |-> c, clientSeq |-> k]

\* the changes of the log up to server seq n are
Prefix(n) == {changes[s] : s \in 1 .. n}

\* and a replica shows its own edits, what it has received and nothing else;
ReplicaInv(c) ==
    /\ doc[c].acked <= doc[c].seq
    /\ doc[c].cp.serverSeq <= docSeq
    /\ StoredWithin(c, doc[c].acked, doc[c].cp.serverSeq)
    /\ Prefix(doc[c].cp.serverSeq) \cup LocalChanges(c, 0, doc[c].seq).seen \subseteq root[c].seen
    /\ root[c].seen \subseteq Prefix(docSeq) \cup LocalChanges(c, 0, doc[c].seq).seen
    /\ syncedSeqs[c] <= doc[c].cp.serverSeq

\* a request never claims more than its client has, and the client that waits
\* for it has not moved on;
RequestInv(r) ==
    LET c == req[r].client
    IN  pc[r] # "idle" =>
            /\ req[r].serverSeq <= doc[c].cp.serverSeq
            /\ req[r].hi <= doc[c].seq
            /\ StoredWithin(c, req[r].lo, req[r].serverSeq)
            /\ wait[c] = r => req[r].serverSeq = doc[c].cp.serverSeq

\* a handler's answer covers the log from the request's checkpoint to its own,
\* all of it if it is a snapshot;
Covers(pack, from, to, own) ==
    /\ pack.root.seen \subseteq Prefix(docSeq)
    /\ \A s \in (from + 1) .. to : changes[s] \in pack.root.seen \cup own
    /\ pack.isSnapshot => Prefix(from) \subseteq pack.root.seen

HandlerInv(r) ==
    LET c == req[r].client
    IN  /\ pc[r] = "pull" => init[r] <= docSeq /\ StoredWithin(c, info[r].clientSeq, init[r])
        /\ pc[r] = "store" =>
            /\ init[r] <= docSeq
            /\ req[r].serverSeq <= init[r]
            /\ StoredWithin(c, base[r], init[r])
            /\ Covers(resp[r], req[r].serverSeq, init[r], {})
        /\ pc[r] \in {"store", "client", "synced", "min"} => resp[r].cp.serverSeq = ServerSeq(r)
        /\ pc[r] \in {"client", "synced", "min", "done"} =>
            /\ resp[r].cp.serverSeq <= docSeq
            /\ req[r].serverSeq <= resp[r].cp.serverSeq
            /\ StoredWithin(c, resp[r].cp.clientSeq, resp[r].cp.serverSeq)
            /\ Covers(resp[r], req[r].serverSeq, resp[r].cp.serverSeq,
                      LocalChanges(c, 0, req[r].hi).seen)

\* and so does a snapshot in the making.
JobInv(r) ==
    /\ job[r].pc # "none" => job[r].seq <= docSeq
    /\ job[r].pc = "store" => job[r].root = FindChangeInfos(0, job[r].seq)

DeliveryInv ==
    /\ \A c \in Clients : ReplicaInv(c)
    /\ \A r \in Reqs : RequestInv(r) /\ HandlerInv(r) /\ JobInv(r)
    /\ SnapshotIsReplay

\* pushChanges excludes the changes that are already saved: a change sent
\* again after its response was lost has one place in the log.
NoDuplicates ==
    \A s, t \in DOMAIN changes :
        s <= docSeq /\ t <= docSeq /\ changes[s] = changes[t] => s = t

\* Two replicas without local changes that have received the same prefix of
\* the log are in the same state.
SyncedReplicasEqual ==
    \A c, d \in Clients :
        /\ doc[c].acked = doc[c].seq
        /\ doc[d].acked = doc[d].seq
        /\ doc[c].cp.serverSeq = doc[d].cp.serverSeq
        => root[c] = root[d]

\* Once the applications stop editing, every attached replica receives every
\* change, its own ones are acknowledged, and all replicas are equal.
Converges ==
    <>[](\A c, d \in Clients :
            /\ doc[c].acked = doc[c].seq
            /\ doc[c].cp.serverSeq = docSeq
            /\ root[c] = root[d])

\* What client c has received, the response that is on its way included.
Received(c) ==
    IF wait[c] = None
    THEN doc[c].cp.serverSeq
    ELSE MaxOf(doc[c].cp.serverSeq, resp[wait[c]].cp.serverSeq)

\* The min synced ticket of a response is not above what a client attached at
\* that moment has received or is about to: garbage collection relies on it.
MinSyncedCoversAttached ==
    [][\A r \in Reqs : pc[r] = "min" /\ pc'[r] = "done" =>
          \A c \in Clients : clientInfos[c].status = "attached" =>
              resp'[r].min <= Received(c)]_vars

\* A document a client has detached is attached again only by an attach
\* request, not by a PushPull handler that is still running.
DetachSticks ==
    [][\A r \in Reqs :
          /\ pc[r] = "client" /\ pc'[r] = "synced"
          /\ clientInfos[req[r].client].status = "detached"
          /\ clientInfos'[req[r].client].status = "attached"
          => req[r].method = "attach"]_vars

\* A client that calls Attach again and again is attached in the end.
AttachSucceeds == \A c \in Clients : <>(doc[c].attached)
=============================================================================
