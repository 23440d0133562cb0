# Verification of Yorkie

This directory holds TLA+ models of Yorkie, an agent and client library for
documents that several clients edit together, with the TLC configurations that
check them on small instances and the TLAPS proofs of the properties that hold
for every instance. Paths below are relative to the repository.

## The system

| Part | State | Operations | Modelled in |
|---|---|---|---|
| Client SDK (`client/client.go`) | attachments, peers of every document | Activate, Attach, Sync, Detach, Watch | `PushPull`, `PubSub` |
| Document (`pkg/document`) | root, clone, checkpoint, local changes, change ID | Update, CreateChangePack, ApplyChangePack, GarbageCollect | `PushPull`, `Replicas` |
| Array (`json/rga_tree_list.go`) | linked list with tombstones, splay tree, size | InsertAfter, MoveAfter, DeleteByCreatedAt, purge | `RGATreeList`, `ArrayReplicas` |
| Text (`json/rga_tree_split.go`) | linked list of blocks, trees by index and by id, removed nodes | findNodeWithSplit, edit, deleteNodes, cleanupRemovedNodes | `RGATreeSplit`, `TextReplicas` |
| Object (`json/rht_pq_map.go`) | a priority queue of elements per key | Set, Delete, DeleteByCreatedAt, purge | `RHTPQMap`, `ObjectReplicas` |
| Counter (`json/counter.go`) | a number and its type | Increase | `Counter`, `ObjectReplicas` |
| RichText (`json/rich_text.go`, `json/rht.go`) | blocks with attributes | Edit, SetStyle, Select | `RGATreeSplit`, `RichTextReplicas` |
| RPC handlers (`yorkie/rpc`) | none of their own | AttachDocument, DetachDocument, PushPull, WatchDocuments | `PushPull`, `PubSub` |
| Push-pull (`yorkie/packs`) | the collections of MongoDB | PushPull, storeSnapshot | `PushPull` |
| MongoDB access (`yorkie/backend/db`) | clients, documents, changes, snapshots, syncedseqs | one method per query | `PushPull` |
| In-memory coordinator (`yorkie/backend/sync/memory`) | lockers, subscriptions | Lock, Subscribe, Unsubscribe, Publish | `PubSub`, `PushPull` |
| etcd coordinator (`yorkie/backend/sync/etcd`), cluster server | members, locks with leases, connections to other agents | putAgent, syncAgents, Lock, Publish to members | `Cluster` |
| Backend (`yorkie/backend/backend.go`) | wait group, closed flag | AttachGoroutine, Close | `Cluster` |
| Search structures (`pkg/splay`, `pkg/llrb`, `pkg/pq`) | trees, heap | InsertAfter, Splay, Find, Delete; Put, Remove, Floor | `SplayTree`, `TreeByIndex`, `LLRBTree`, `SearchTrees` |
| Snapshots (`api/converter/to_bytes.go`, `from_bytes.go`) | none | ObjectToBytes, BytesToObject | `Replicas` and its elements |
| Other converters, auth, metrics, CLI | none that changes | | no: pure I/O |

The parts meet in one loop. A client edits its replica (`Update`), which
queues a change. `Sync` sends the queued changes with the replica's checkpoint;
the handler takes the push-pull lock of the document if there are changes,
gives them the next server seqs, answers with all changes (or a snapshot)
behind the client's checkpoint, and a goroutine then publishes an event to the
streams of the other clients, of this agent and of the other agents of the
cluster, and stores a snapshot. The client executes what it has received and
collects the garbage the answer's min synced ticket allows.

What is hard here: several handlers of one document, and even of one client,
run at once and are only partly serialised by locks; the writes of one request
are not atomic; an answer may be lost and its request sent again; snapshots are
stored while the log grows; publishers block on channels that other handlers
must empty; replicas execute the same operations in different orders; and the
agents of a cluster know each other only by a watch that starts late, over
connections to processes that come and go.
`PROJECT.json` lists these hazards at the lines where they bite.

## Modules

### PushPull: the synchronisation of one document

One document, any number of clients and of request slots. The variables are the
five collections (`clientInfos`, `docSeq`, `changes`, `snapshot`, `syncedSeqs`),
the two lockers (`lock`, `snapLock`), the local variables of every handler
(`pc`, `req`, `info`, `init`, `base`, `wrote`, `resp`), the goroutines that
store snapshots (`job`), and the clients (`doc`, `root`, `wait`).

Every access to the database is an action, because that is where handlers
interleave and where a context can be cancelled:

| Actions | Code |
|---|---|
| `Update`, `Attach`, `Sync`, `Detach`, `Receive`, `ReceiveError` | the calls of the client, split at the RPC |
| `FindClient` | the lock, taken only for a pack with changes, and `FindClientInfoByID` |
| `FindDoc` | `FindDocInfoByKey`, `AttachDocument` / `DetachDocument` / `EnsureDocumentAttached` on the handler's copy, `pushChanges` |
| `Pull` | `pullPack`: the changes, or the last snapshot, from the database |
| `StoreChange`, `UpdateDoc` | `StoreChangeInfos`: each row of the ordered bulk write, then the conditional update of `server_seq` |
| `UpdateClient`, `UpdateSynced`, `FindMin` | the client's row, the syncedseqs row, the minimum, the start of the goroutine |
| `JobRead`, `JobStore` | `storeSnapshot` under the snapshot lock |
| `Lost`, `Cancel`, `DBError`, `JobError`, `Crash` | the environment |

A change is the pair of its actor and client seq. What it does to the document
is abstracted to having been executed once or more than once, which is what a
counter or a text would show. The order of execution is the subject of
`Replicas`. A request slot serves one request at a time; the number of
slots bounds the handlers that run at once.

`ChangeLog` is what all this promises: a log that takes the next changes of a
client, all or none and without a gap before them; replicas that show their own
edits and the log up to what they have received, and nothing that is in neither;
and local changes that are dropped only when the log has them. `PushPull`
implements it (`ImplementsChangeLog`), faults and snapshots included, with the
log as the rows of `changes` up to `server_seq`, so that an unfinished bulk write
and what a crash leaves behind are invisible. The abstract log may take a change
twice, because after a fault the code does (below).

### PubSub: the delivery of events in one agent

The memory `PubSub` with its RWMutex, modelled as Go implements it (a waiting
writer holds back new readers), channels of one event, the `WatchDocuments`
handlers, the goroutines of `packs.PushPull` that publish under the snapshot
lock, and the peers `Client.Watch` keeps. One action per operation on the mutex
or a channel: `LockAnnounce`, `Subscribe`, `Unsubscribe`, `PublishBegin`,
`PublishPick`, `PublishSend`, `PublishEnd`, `SendInitialization`, `SendEvent`,
`Leave`, `PushBegin`; `Watch` and `Disconnect` are the environment's. A send on
the stream is taken together with its reception by the client.

`Publish` can deadlock, since it waits for room in a channel while it holds the read
lock that the stream of the channel may want first. `Jammed` says when: publishers
wait for room in channels whose streams are among them, or want the write lock, or
are behind a writer that waits. `ChangeDelivered` and `PeersComplete` hold but for
that, which is to say that nothing else keeps or loses an event.

### Replicas: operations in different orders

`Replicas` lets clients edit (`Update`), push and pull (`Sync`), execute what
they received (`ApplyChange`, one change at a time) and collect garbage
(`Collect`). A client that is too far behind gets a snapshot (`PullSnapshot`):
the agent executes the log (`Replay`), encodes the element, the client decodes it
(`Decoded`), executes its local changes on it and syncs its clock with the server
seq, as `applySnapshot` does. `Thresholds` are the snapshot thresholds of the
instance; with 1 and one above all logs, every pull may be either. It keeps the Lamport clocks of `change.ID`, so the tickets that
order the operations are the code's; `Tickets` turns them into numbers. The
agent is abstracted to an append-only log, which is what `PushPull` shows it to
be when no answer is lost (the snapshots an agent stores on the way keep all that
`Execute` reads, so they are left out), and every client is attached with an actor from the
start. The element that is edited is a parameter: its values, its operations,
what they do and when they fail. A failed lookup (a panic, `log.Logger.Fatalf`,
or an error that comes back at every sync) ends the client (`dead`). In an
instance with `Collecting = FALSE` the syncedseqs rows stay at 0, so `Collect`
removes nothing.

Four elements are built on it; `Execute`, `Operations`, `Fails`, `Decoded` and
`GarbageCollect` are given to `Replicas` in the configurations:

- `RGATreeList`, `ArrayReplicas`: the list's algorithms as operators on a
  sequence of nodes with tombstones and the size the code counts beside them;
  `Add`, `MoveBefore` and `Delete` are what an application does with it. A
  snapshot keeps all nodes, but the decoded list counts its tombstones in `size`.
- `RGATreeSplit`, `TextReplicas`: a text as the sequence of its blocks, of whose
  contents only the length is kept. `Split`, `LeftOf` and `Deleted` are the
  steps of `edit`; `treeByID` is the order of the ids, `treeByIndex` a sum of
  lengths, and `insPrev` and `insNext` the neighbours of a block among those of
  its insertion. `TextOperations` are all edits of ranges of the text. A snapshot
  keeps all blocks, but the removed ones are registered for collection nowhere.
- `RichTextReplicas`: a text that starts with its last line, whose blocks have one
  attribute, kept as the ticket that set it last; attributes of different keys do
  not meet. Edits may insert with the attribute, `SetStyle` splits and sets it.
  Applications edit before the last line.
- `RHTPQMap`, `Counter`, `ObjectReplicas`: the queue of a key as the set of its
  elements, with the latest on top. Elements are counters, with the widths of
  their types as constants; a primitive is a counter nobody increases. A snapshot
  keeps all elements and drops the queues that collection has emptied.

### TreeByIndex and SearchTrees: the trees beside the lists

`RGATreeSplit` and `RGATreeList` take for granted that `treeByIndex`, `treeByID`
and `nodeMapByIndex` find what list and ids say. `SplayTree` (`pkg/splay`, with
parent pointers and weights) and `LLRBTree` (`pkg/llrb`, a recursive tree with
colours) are those trees, every rotation included. A loop of `splay.go` is the
function of its states after 0, 1, ... iterations (`SplayStep`, `FindStep`,
`MaximumStep`), up to as many as there are nodes: no path is longer, and a loop
that has ended stays where it is.

`TreeByIndex` drives the splay tree as the code does: `Insert`, `Split`, `Remove`
and `Purge` of a text, `Insert`, `Remove`, `MoveAfter` and `Purge` of an array.
`SearchTrees` adds the tree by ids, which a block enters and leaves with the same
steps, and which is also taken alone (`PutAlone`, `RemoveAlone`), because a text as
small as can be checked does not need all repairs of colours. The reference is the
list itself: the trees must give what a search along the list would. Every step of
`SearchTrees` is a step of `TreeByIndex` or leaves the splay tree and its list as
they are, so what is proved of `TreeByIndex` holds of both.

### Cluster: several agents

`Cluster` has the agents' processes (`state`), their keys in etcd (`keys`), their
member maps (`members`) with the watch (`watching`, `inbox`), the sessions in the
queue of one lock (`queue`), and the jobs that publish events: the goroutine of a
push, under the lock, and the handler of a stream, which publishes when it starts
and when it ends (`job`). A job calls the members one by one (`todo`, `call`) over
connections that may back off (`backoff`).

| Actions | Code |
|---|---|
| `New`, `InitializeMemberMap`, `Start`, `Watch` | `backend.New`, `putAgent`, `initializeMemberMap`, `Server.Start`, the start of `syncAgents`: announced first, read next, serving and watching later; when the port is still taken the process ends |
| `PutAgain`, `HandleEvent` | `putAgentPeriodically`, `syncAgents` |
| `WatchDocs`, `UnwatchDocs`, `Published` | `watchDocs`, `unwatchDocs`, the handler of `WatchDocuments` after each |
| `AttachGoroutine`, `LockFails`, `PublishChange`, `Unlock` | the goroutine of `packs.PushPull`: `NewLocker` and `Lock`, which may fail; `Publish`; `storeSnapshot`, `Unlock` with `Session.Close`, which may fail |
| `CallMember`, `Answer`, `CallLost` | `ensureClusterClient`, `publishToMember`, `BroadcastEvent`: a call has no deadline, and one that fails is not repeated |
| `Reconnect`, `Jam` | gRPC makes a connection again; the PubSub of an agent deadlocks |
| `Shutdown`, `Close`, `Stop`, `PutLate` | `Server.Shutdown` with `GracefulStop`, which waits for the streams and the calls of other agents, or with `Stop`, which does not; `Backend.Close`, which waits for the goroutines; `removeAgent`, which may fail or be overtaken by a put |
| `Crash`, `LapseKey`, `LapseSession` | the end of a process, also by the time limit of `handleSignal`; the leases of etcd |

etcd is modelled by what the agents rely on: keys with leases, watches that see
every later event in order, mutexes in the order of the requests. A process that
is started again is another agent with the same address. The agents of `Initial`
run and know each other at the beginning. `owed` and `missed` are only for the
properties: the members that served when `Publish` listed them and have not got
its event, and the agents whose last event fell between `Get` and `Watch`. A call
that is lost and a connection that backed off before are not owed: the code does
not repeat the one and does not wait for the other, and the event is lost to that
member. `PublishReaches` says that nothing else loses it: not a member that is gone
before it in the list, nor one that had its address.

The memory PubSub inside an agent is the subject of `PubSub`; here `Jam` stands for
its deadlock. From then on nothing that publishes at this agent has to return: a
goroutine may hang there with the lock, a stream in `Subscribe` or `Unsubscribe`,
and the call of another agent in `BroadcastEvent`. The liveness properties name
these exceptions (`Hung`, `LockStuck`, `ShutdownStuck`), and that no other exists is
what the run shows.

## Runs

| Run | Instance | Shows |
|---|---|---|
| faults | 2 clients, 2 slots, 1 edit each, all RPCs, snapshots from 2 changes on, one fault of any kind | no acknowledged change is lost (`AckedChangesStored`), no replica misses a change below its checkpoint (`ReplicaComplete`), syncedseqs never claim too much (`SyncedSeqSound`), a snapshot is a replay (`SnapshotIsReplay`), the log is append-only (`LogStable`), every step is one of `ChangeLog` (`ImplementsChangeLog`) |
| retry | 2 edits each, snapshots from 2 changes on, one lost answer, no detach | `NoDuplicates`; `IndInv` and `DeliveryInv`, the inductive invariants of the proofs |
| converge | 1 edit each, no faults, fairness | `Converges`, `SyncedReplicasEqual` |
| pubsub | 2 clients with a stream each, 1 may disconnect, 2 pushes, fairness | `NoSendOnClosed`, `PeersAgree`, `TypeOK`; `ChangeDelivered`, `PeersComplete` |
| array | 3 replicas, 3 additions, moves and removals, every pull changes or a snapshot | `Converged` (as long as nothing moves), `SameElements`, `LamportBound`, `ClockInv`, `InsertedInPlace` |
| text | 3 replicas of a rich text, 3 insertions, removals or styles of any range, insertions of 2 characters with the attribute, a snapshot for who is 3 changes behind | `SameOrder`, `OnlySelectedDeleted`, `NoFatal`, `StyledAsSelected` |
| object | 3 replicas, 3 sets, increases and removals of one key, numbers of 3 bits with integers of 2, every pull changes or a snapshot | `LastWriterWins`, `NothingResurfaces` |
| search | texts of 3 contents of up to 2 characters and 5 blocks, arrays of 3 elements, 1 removed block at a time, 9 ids in the tree alone | `IndexIsList`, `WeightsSummed`, `FindIsFirst`, `GetIsNth`, `IdsBalanced`, `FloorIsGreatest` |
| agents | 3 agents, the third at the address of the second, which may leave; a stream at the first; the key of the first may lapse; one fault of any kind, fairness of the agents | `MapFollows`, `PublishReaches`, `IndInv`; `AgentsMeet` |
| shutdown | 2 agents that know each other, of which the second may leave; a push at each and a stream at the second; two faults, fairness | `NoJobAfterClose`; `LockHandedOn`, `ShutdownEnds` |
| snapshot_race | 3 edits, no faults | `SyncedReplicasEqual` fails: a snapshot newer than the handler's `initialServerSeq` is executed together with the changes it contains |
| text_split | 2 replicas of a plain text, 3 edits | `SameText` fails: splitting a removed block makes a right half that is shown again |

Why these bounds: the races of `PushPull` are between two handlers and a fault,
so two slots, two clients and one fault reach them; two edits make a pack of
several changes, three a log longer than the snapshot threshold. With two slots
a client whose call was lost calls again while its old handler still runs. In
`PubSub` two streams and two pushes are the least that deadlock with streams that
stay open: each push fills the channel of a stream that has not read yet, and one
stream waits for the write lock while the other has to publish. Three streams, of
which two may disconnect, and one push hold as well without fairness, and
`TypeOK`, `NoSendOnClosed` and `PeersAgree` are proved for any number. The elements need three replicas
for two concurrent operations and an observer that executes them in the order of
the log, and three operations: one that makes something to edit and two
concurrent ones. Of two replicas, four operations of the array and five of the
object hold as well, with snapshots; without snapshots also four operations of
three replicas of the array (6.8 million states) and of two of a plain text. A
content of two characters is the least that can be split. To leave room for the
styles no edit of the text run both removes and inserts (`Replacing`); without
styles, edits that do hold as well. Three blocks and the head reach every case of
`Splay`; the tree of ids needs seven ids before a removal borrows on both sides
and has nine. Two agents at one address and a third are the least where a
connection outlives its process while somebody publishes, and a stream publishes
twice, so that its second event meets the connections the first has left backing
off. A push at either agent is the least where one waits for the lock of an agent
that dies, a stream at the one that leaves where `GracefulStop` waits, and with two
faults an agent can deadlock and another crash. Tickets order the clients, so `Replicas` has no
symmetry. Clients and slots of `PushPull` are
symmetric; symmetry is used where only invariants and action properties are
checked. Deadlock is checked for `PushPull`, where an editor can always sync;
the other models may end, so it is off there.

Fairness. In `PushPull` handlers and goroutines take their next step (weak),
waiters for a mutex get it in the end (strong: Go's mutex hands itself to a
starving waiter), and the application goes on attaching and syncing (strong,
since a slot must be free). Nothing is assumed of edits, detaches or faults.
In `PubSub` every thread runs and the locks are handed on; disconnections are
not forced. In `Cluster` an agent that is being started or stopped goes on, keys
are put every period, events are handled, goroutines run (all weak), and the
leases of dead processes end; a stop goes on only once what it waits for has ended.
Calls are answered, locks taken and streams ended only where the PubSub concerned is
not deadlocked, and a stream need not end before its agent stops. Nothing forces a
shutdown, a crash, a connection to be made again, a call to break, or a lease of a
running process to end. `AgentsMeet` needs the fairness of the agents only
(`AgentsFairSpec`).

## Refuted beside the runs

While the models were built TLC also refuted, on the instances named, what the
code or its documents suggest:

- `NoDuplicates` with one crash (or cancelled call) and one edit: the crash
  falls between `StoreChangeInfos` and `UpdateClientInfoAfterPushPull`, and the
  retry stores the change again. Also with a lost answer followed by a detach,
  because `ClientInfo.DetachDocument` zeroes the client seq before
  `pushChanges` compares with it.
- `SyncedReplicasEqual` with one lost answer and one edit: the retry pulls the
  client's own change back and it is executed twice.
- `MinSyncedCoversAttached` without faults, one edit: an attaching client is
  marked attached before it has a row in syncedseqs.
- `DetachSticks` with one lost answer and no edit: a pull-only handler, which
  takes no lock, writes the status it read before the detach.
- `EveryChangeDelivered`, which is `ChangeDelivered` without the exception, with two
  streams that stay open, two pushes and fairness: each push has filled the channel
  of a stream that has not read yet, the first is blocked under the read lock, one
  stream waits for the write lock of `Subscribe`, and the other, which has to publish
  its watched event before it reads, waits behind it (memory/pubsub.go:153, against
  design/pub-sub.md:34). Also with three streams that start together.
- `PeersAgree` when a client watches again (`TwoStreams`): the old stream's
  unwatched event overtakes the new one's watched event.
- `AttachSucceeds` with one lost answer and fairness: the row says attached,
  and every further `Attach` fails with `ErrDocumentAlreadyAttached`.
- `ConvergedWithMoves` with two replicas and four additions and moves:
  `findNextBeforeExecutedAt` skips nodes by the time they were positioned, and a
  node that was moved behind `prev` on one replica only is skipped there only.
- `LenCorrect` with two concurrent removals of one element: both decrement.
- `NoFatal` of an array with two additions and a move: `MoveBefore` of the
  element right before the given one resolves to a move after itself.
- `NoFatal` of an array with `Collecting`, two replicas and three operations:
  `LastCreatedAt` returns a tombstone, and the new element that names it as
  `prev` reaches a replica that has collected it.
- `NoFatal` of a text with `Collecting`, two replicas, four edits and contents
  of 0 or 1: a removal with a low lamport is collected by its author before the
  others have it, since the minimum is found by server seq and compared by
  lamport; their next edit names a block the author no longer has.
- `NoFatal` of an object with `Collecting`, one replica: `Delete` of a key whose
  queue the collection has emptied.
- `SameMembers` of an object with `Collecting`, two replicas, two sets and a
  removal: an element below the collected one is shown again on the replica that
  had not marked it.
- `DeletedIsGone`, for the reason of text_split.
- `SameStyle` of two replicas with four operations: what is inserted into a range,
  or right behind it, while another client styles it is styled on the replicas
  that insert first, since `SetStyle` has no latest creation to compare with.
- `UnwatchedDelivered` with two streams of which one disconnects, with fairness:
  `Publish` blocks on the channel of the stream whose `Unsubscribe` waits for it
  (design/peer-awareness.md:78 has the event delivered).
- `ClientRemoved` with any two agents of which one stops: `removeAgentInfo` asks
  for the connection by the key of etcd, while connections are kept by agent ID
  (membermap.go:156, against the comment at etcd/pubsub.go:107).
- `StoppedLeave`, with fairness: an agent whose key is deleted between another's
  `Get` and `Watch` stays in the other's member map for good.
- `PublishReaches` without the exception for connections that back off, in the
  instance of the run agents: a member is announced before it listens
  (backend.New before Server.Start), so that the call of a first event fails, and the
  next event finds the connection backing off and is not sent, although the member
  serves by now (etcd/pubsub.go:66). Nor are calls that break repeated.
- `LockHandedOn` and `ShutdownEnds` without their exceptions: when `Lock` fails
  (packs.go:128) or `Mutex.Unlock` does (locker.go:66), `Session.Close` is skipped and
  the lease is kept alive as long as the process runs; and a call to a member that
  does not answer has no deadline (etcd/pubsub.go:134 with the context of
  packs.go:116), nor has a `Publish` in a deadlocked PubSub, so that the goroutine
  keeps the lock, `wg.Wait` and `GracefulStop` do not return, and only the time limit
  of `handleSignal` ends the process.
- `SameTypes` with two replicas, four operations and increases that leave the
  integers and come back: the counter stays long in one order only. What is
  shown is the same.

## Proofs

| Theorem | Statement | Argument |
|---|---|---|
| `PushPullProofs!TypeCorrect` | `Spec => []TypeOK` | by actions |
| `PushPullProofs!LogIsStable` | `Spec => LogStable` | `LogInv`: the holder of the push-pull lock is the only handler that may write rows, and it still knows the document's `server_seq` (`LockInv`, `WriterInv`), and the log has no gap (`RowsInv`) |
| `PushPullProofs!Invariance` | `Spec => []IndInv` | the above and `StoredInv` |
| `PushPullProofs!AckedChangesAreStored` | `Spec => []AckedChangesStored` | `StoredInv`: every client seq that stands for "stored so far", wherever it is copied to, is one; without the copies in requests, handlers and answers the invariant is not inductive |
| `PushPullProofs!Delivery` | `Spec => []DeliveryInv` | whatever is on its way to a client covers the log from the client's checkpoint to its own (`Covers`); requests, handlers, answers and snapshots in the making need a conjunct each, since each may be overtaken by the others |
| `PushPullProofs!ReplicasAreComplete`, `SyncedSeqsAreSound`, `SnapshotsAreReplays` | `ReplicaComplete`, `SyncedSeqSound`, `SnapshotIsReplay` | from `DeliveryInv` and `IndInv` |
| `PushPullProofs!Refinement` | `Spec => ImplementsChangeLog` | every action is an `Edit`, a `Push` (`UpdateDoc`), a `Deliver` (`Receive`) or a stutter, by the two invariants |
| `PubSubProofs!TypeCorrect` | `Spec => []TypeOK` | by actions |
| `PushPullProofs!RetriesStoreOnce` | where `Faults` is `{"lost"}` and nobody detaches: `Spec => []NoDuplicates` | `RetryInv`: the row of a client knows every change of the client in the log (`RowKnows`), or the handler that holds the lock and has just stored some does (`HolderKnows`), and it is what the next `pushChanges` under the lock compares with |
| `PushPullProofs!CallsStoreOnce` | where no call fails, detaches included: `Spec => []NoDuplicates` | `OnceInv`: a client without a call of its own, or whose answer is ready, has itself acknowledged all its changes in the log (`Settled`, `Answered`), whatever its row says after a detach |
| `PushPullProofs!SyncedReplicas` | where no call fails and no answer is a snapshot: `Spec => []SyncedReplicasEqual` | `ExactInv`: a replica is the replay of the log up to its checkpoint and of its own changes that are not below it (`ExactRoot`), and a pack on its way is what the log has from the checkpoint on but for the client's own (`ExactPack`) |
| `PubSubProofs!NeverSendsOnClosed` | `Spec => []NoSendOnClosed` | whoever publishes is among the readers, and a subscription is removed only without readers |
| `PubSubProofs!PeersInTheEnd` | where a client opens one stream: `Spec => []PeersAgree` | `WatchInv`: for every stream that still tells its client and every other stream, either the other's news is due, or the channel has it and it is right, or the list is (`ViewInv`); who is subscribed, whom an event goes to, and what a channel holds are its other parts |
| `ReplicasProofs!ClocksBounded`, `LamportsBounded` | `Spec => [](LamportBound /\ ClockInv)` | a clock is at most the number of changes its replica has executed, so the i-th local change has a lamport of at most checkpoint + i; a snapshot sets the clock to no more than its server seq |
| `ReplicasProofs!Execution` | where nothing is collected: `Spec => []ExecInv` | every replica executes each change once, never two with one ID, and after all its author had executed, so its value is in every set of values that is closed under such executions (`Sound`); a snapshot is one more such execution, in the order of the log |
| `ArrayProofs!ElementsAgree` | of arrays: `Spec => []SameElements` | `ArrayValue`: the executed changes determine the elements, when each was moved last and when it was removed last |
| `ArrayProofs!OrdersAgree` | of arrays: `Spec => []Converged` | an element is behind the one it was added to with only newer ones between (`PlacedAfter`), which leaves one order: the newest is right behind its neighbour, and without it the rest is as before |
| `ArrayProofs!InsertionsInPlace` | of arrays: `Spec => InsertedInPlace` | no element was positioned later than the clock of the replica |
| `ArrayProofs!ArrayRuns`, `ObjectProofs!ObjectRuns` | of arrays without moves, and of objects: `Spec => []NoFatal` | what an operation names its author had, and the replica has executed that |
| `ObjectProofs!LatestWins` | of objects: `Spec => []LastWriterWins` | `ObjectValue`: a queue has the elements of the executed sets of its key, with the sum of their increases, wrapped; that sums do not depend on the order is proved by induction over the number of changes |
| `ObjectProofs!GoneStaysGone` | of objects: `Spec => NothingResurfaces` | the latest set of a larger set of changes is the latest so far or one that is new |
| `TextProofs!BlocksAgree` | of rich texts: `Spec => []SameOrder` | `Structure`: all characters of all insertions are there, cut exactly at the ends of the executed edits and styles, in their order, and every insertion is behind the place it was made at with only newer ones between (`Anchored`), which leaves one order |
| `TextProofs!DeletionsSeen` | of rich texts: `Spec => []OnlySelectedDeleted` | a block between the two ends of an edit was there for the author if its insertion is no newer than the latest its author had seen of that actor, and since the order of the blocks is one, the author saw it between the two ends as well |
| `TextProofs!StylesHold` | of rich texts: `Spec => []StyledAsSelected` | `Dressed`: of a block all authors knew, a style sets the attribute on every replica or on none, and the latest stays |
| `TextProofs!TextRuns` | of rich texts: `Spec => []NoFatal` | a position names a character its author had, and the blocks cover all characters |
| `TreeProofs!TreeHoldsList` | of `TreeByIndex`: `Spec => []IndexIsList` | `Mirrors`: there is a layout that gives every node its place in the list and every subtree an interval of places, its node between its two children; a rotation keeps every place, an insertion or deletion keeps the order of the others |
| `TreeProofs!TreeKeepsWeights` | `Spec => []WeightsSummed` | the same invariant: the weight of a subtree is the length of its interval of the list, but for the nodes on the path a changed length has not been splayed along, of which at the end only the root is left |
| `TreeProofs!TreeFindsFirst` | `Spec => []FindIsFirst` | the first place that reaches the index stays in the interval of the node `Find` is at, and the offset is what the interval's beginning leaves of it; each iteration goes down one level, and a path has no node twice |
| `TreeProofs!TreeGetsNth` | `Spec => []GetIsNth` | of an array a place is as long as the elements not removed in it, so the length up to a place counts them |
| `ClusterProofs!TypeCorrect` | `Spec => []TypeOK` | by actions |
| `ClusterProofs!Invariance`, `MapsFollow`, `PublishReachesAll`, `NothingAfterClose` | `IndInv`, `MapFollows`, `PublishReaches`, `NoJobAfterClose` | `ViewInv`: the last event on its way about an agent is what etcd has; `PortInv`: an address has one server at most; `OwedInv`: whom `Publish` owes its event is still to be called or is being called, and its connection does not back off while it serves. `PublishReaches` alone says nothing of a loop that is under way |

They hold for every value of the constants under the named assumptions of the
modules (`None` is no slot or thread, the bounds are naturals, the thresholds not
0, numbers have at most the 64 bits of the code, streams and publishers are
distinct, the hosts of jobs, whoever leaves and whoever's key may lapse are agents, and
the agents up at the beginning have addresses of their own) and the hypotheses in the
table.
Where a hypothesis restricts the faults or the methods, the property fails without
it, as listed above; where it does not, the crash, the cancelled call and the
database error are actions of the proofs as well. `PeersInTheEnd` needs one stream
per client since a client that watches again keeps the peers of its first stream.
`SyncedReplicas` excludes snapshots for the race of run snapshot_race; what a
snapshot is remains with `SnapshotsAreReplays`.

`LamportBound` is why `applySnapshot` may set the clock to the server seq of the
snapshot; it presumes that no change is stored twice. The theorems of
`ReplicasProofs` are about any element and any operations; for `Execution` the set
of values it is given (`Sound`) is the invariant of the element. Those of
`ArrayProofs`, `ObjectProofs` and `TextProofs` are about `Replicas` with the
operators of the array, the object or the rich text for its parameters
(`ArrayInstance`, `ObjectInstance`, `TextInstance`), without collection, which
breaks them as listed above.

The invariant of a text (`TextValue`) relates its blocks to the set of changes that
made them, and says nothing of the order in which they were executed. It has to
speak of places, an insertion and the number of its characters before the place,
since blocks are split later; `Spot` is the block that ends at a place. That an edit
finds the right block, splits it and inserts behind the newer ones that follow
(`LookupFinds`, `SplitKeeps`, `InsertKeeps`) keeps `Structure`. `SameStructure` and
`OrderTransfer` then say that two texts with it, one with some of the changes of the
other, have the blocks they share in the same order. What the author of a change saw
(`Saw`) is a text of its own changes, all of them on every replica that executes the
change and of every client the first ones (`Complete`): therefore a creation that is
not above `latestCreatedAtMapByActor` is one the author had.

The theorems of `TreeProofs` are about any number of contents and nodes. Their
inductive invariant (`IInv`) is `Mirrors`, the types (`Shapes`), and two facts
about blocks: only the head is empty (`Lengths`), and no two blocks of the list
overlap, each being a part of a content that was inserted (`Spans`), so that the new
node of an insertion or a split is not in the tree yet.
`Mirrors` is stronger than `IndexIsList` and `WeightsSummed`, which say nothing of
a subtree before it is walked through: it must hold after every rotation, where
only the layout has not changed. That the loops of `Splay`, `maximum` and `Find`
end within `Depth` iterations is part of it (`LoopReaches`): along a path the
intervals shrink.

Only model-checked: the liveness properties (`Converges`, `ChangeDelivered`,
`PeersComplete`, `AgentsMeet`, `LockHandedOn`, `ShutdownEnds`), which need fairness,
and the tree of ids (`IdsBalanced`, `FloorIsGreatest`): `llrb.Tree` is a value with
its subtrees in it, defined by recursion, which TLAPS does not reason about here.
Induction over data is possible only by way of least counterexamples
(`LeastNatural` of `ReplicasProofs` and `TreeProofs`, `FiniteInduction` of
`ObjectProofs`), as used for sums, lists, texts, loops and the replay of the log.

## Not modelled

- The clone beside the root, `SetActor` on local changes and nested elements.
- `Select`, double counters, and the contents of texts.
- Changes with several operations, so the delimiter of tickets.
- The creation of a document, activation and deactivation of clients.
- Several documents per stream or per `Sync`.
- The lock a push takes in its handler, in `Cluster`: it is the mutex of `PushPull`.
- Errors of etcd while an agent is started: the process ends, as in a crash.
- A lease that ends while the process that holds the lock goes on: nothing in the
  code looks at the session again, so whatever the lock protects is then open.
- The heap of `pkg/pq`: a queue is the set of its elements.
- The encoding of changes, packs and primitives, authorization, metrics,
  configuration and the command line: no state of their own.
- Generated code, `api/yorkie.pb.go` (17250 of 31312 lines): it has no logic of
  this system.
- Overflow of client seqs (`uint32`) and server seqs (`uint64`).

## Plan

1. `DocumentReplicas`: nested objects and arrays, so that elements are removed
   with the elements in them.
2. Clone, root and `SetActor` in `Replicas`; collection on clone and root.
3. `Activation`: activate and deactivate beside `PushPull`, and the two-step
   creation of documents.
4. Leases of running processes in `Cluster`, over a `PushPull` whose lock may be
   held twice.
