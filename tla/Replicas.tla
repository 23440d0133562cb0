------------------------------ MODULE Replicas ------------------------------
(***************************************************************************)
(* The replicas of one element of a document and the clocks that order its *)
(* operations: Document.Update, CreateChangePack and ApplyChangePack with  *)
(* the Lamport clock of change.ID and the garbage collection, over agents  *)
(* that append changes and hand out changes and snapshots as PushPull does *)
(* when nothing is lost.  A change holds one operation.                    *)
(*                                                                         *)
(* The element is a parameter: ArrayReplicas, TextReplicas and             *)
(* ObjectReplicas supply its operations.                                   *)
(***************************************************************************)
EXTENDS Tickets

CONSTANTS
    Data,                   \* the values of the element
    Operation,              \* its operations
    Empty,                  \* the new element
    Operations(_, _),       \* what an application may do to a value, at a ticket
    Fails(_, _, _),         \* executing an operation at a ticket ends the process
    Execute(_, _, _),       \* the value after executing an operation at a ticket
    GarbageCollect(_, _),   \* the value after collecting what was removed by a ticket
    Decoded(_),             \* the value after it was encoded and decoded
    Thresholds,             \* Config.SnapshotThreshold of the agents
    Collecting,             \* whether this instance collects garbage
    MaxOps                  \* bound on the number of changes of all clients

ASSUME CollectingAssumption == Collecting \in BOOLEAN
ASSUME ThresholdsAssumption == Thresholds \subseteq Nat \ {0}
ASSUME MaxOpsAssumption == MaxOps \in Nat

VARIABLES
    log,        \* the changes collection, by server seq
    synced,     \* the syncedseqs collection
    data,       \* the element of every replica
    clock,      \* changeID.lamport of every replica
    cp,         \* Checkpoint.ServerSeq of every replica
    local,      \* localChanges of every replica
    pack,       \* the changes of the pack ApplyChangePack has still to execute
    min,        \* the server seq of the pack's MinSyncedTicket, Nil if none
    dead        \* the clients that a panic or log.Logger.Fatalf has ended

vars == <<log, synced, data, clock, cp, local, pack, min, dead>>

\* change.Change with its one operation.
Change == [op : Operation, actor : Clients, lamport : Nat \ {0}]
At(change) == TicketOf(change.lamport, change.actor)

TypeOK ==
    /\ log \in Seq(Change)
    /\ synced \in [Clients -> Nat]
    /\ data \in [Clients -> Data]
    /\ clock \in [Clients -> Nat]
    /\ cp \in [Clients -> Nat]
    /\ local \in [Clients -> Seq(Change)]
    /\ pack \in [Clients -> Seq(Change)]
    /\ min \in [Clients -> Nat \cup {Nil}]
    /\ dead \subseteq Clients

Init ==
    /\ log = <<>>
    /\ synced = [c \in Clients |-> 0]
    /\ data = [c \in Clients |-> Empty]
    /\ clock = [c \in Clients |-> 0]
    /\ cp = [c \in Clients |-> 0]
    /\ local = [c \in Clients |-> <<>>]
    /\ pack = [c \in Clients |-> <<>>]
    /\ min = [c \in Clients |-> Nil]
    /\ dead = {}

-----------------------------------------------------------------------------
(***************************************************************************)
(* Steps                                                                   *)
(***************************************************************************)

\* Change.Execute on the replica of c; where a lookup fails, the client ends.
ExecuteOn(c, change) ==
    IF Fails(data[c], change.op, At(change))
    THEN dead' = dead \cup {c} /\ UNCHANGED data
    ELSE data' = [data EXCEPT ![c] = Execute(@, change.op, At(change))] /\ UNCHANGED dead

\* The client is between two calls.
Ready(c) == c \notin dead /\ pack[c] = <<>> /\ min[c] = Nil

\* The number of changes so far.
Made == Len(log) + Cardinality({p \in Clients \X (1 .. MaxOps) : p[2] <= Len(local[p[1]])})

\* Document.Update with one operation of the next change ID.
Update(c) ==
    /\ Ready(c)
    /\ Made < MaxOps
    /\ \E op \in Operations(data[c], TicketOf(clock[c] + 1, c)) :
          LET change == [op |-> op, actor |-> c, lamport |-> clock[c] + 1]
          IN  ExecuteOn(c, change) /\ local' = [local EXCEPT ![c] = Append(@, change)]
    /\ clock' = [clock EXCEPT ![c] = @ + 1]
    /\ UNCHANGED <<log, synced, cp, pack, min>>

\* UpdateAndFindMinSyncedTicket finds the row with the least server seq.
MinSynced(rows) == CHOOSE m \in {rows[c] : c \in Clients} : \A c \in Clients : m <= rows[c]

\* Mutants of SyncLamport: one more than the greater clock, and no change at all.
SyncLamportNext(lamport, other) == IF lamport < other THEN other + 1 ELSE lamport + 1
SyncLamportNone(lamport, other) == lamport

\* change.ID.SyncLamport.
SyncLamport(lamport, other) == IF lamport < other THEN other ELSE lamport + 1

\* Change.Execute of one change after the other, up to one that fails.
ReplayStep(before, change) ==
    IF before.failed \/ Fails(before.value, change.op, At(change))
    THEN [before EXCEPT !.failed = TRUE]
    ELSE [before EXCEPT !.value = Execute(@, change.op, At(change))]

Replay(value, changes) ==
    LET after[i \in 0 .. Len(changes)] ==
            IF i = 0
            THEN [value |-> value, failed |-> FALSE]
            ELSE ReplayStep(after[i - 1], changes[i])
    IN  after[Len(changes)]

\* pullChanges, and ApplyChangePack up to the execution of the changes.
PullChanges(c) ==
    /\ pack' = [pack EXCEPT ![c] = SubSeq(log, cp[c] + 1, Len(log))]
    /\ UNCHANGED <<data, clock, dead>>

\* pullSnapshot: the agent executes the changes, from the start or from a snapshot
\* it has stored on the way, which has all that Execute reads.  None if one fails.
Snapshot == {Decoded(agent.value) : agent \in {r \in {Replay(Empty, log)} : ~r.failed}}

\* A mutant of PullSnapshot: the local changes are not executed again.
PullSnapshotOnly(c) ==
    /\ \E snapshot \in Snapshot : data' = [data EXCEPT ![c] = snapshot]
    /\ clock' = [clock EXCEPT ![c] = SyncLamport(@, Len(log) + Len(local[c]))]
    /\ UNCHANGED <<pack, dead>>

\* applySnapshot: the local changes are executed on the snapshot, and the clock
\* is synced with the server seq of the checkpoint.
PullSnapshot(c) ==
    /\ \E mine \in {Replay(snapshot, local[c]) : snapshot \in Snapshot} :
          IF mine.failed
          THEN dead' = dead \cup {c} /\ UNCHANGED data
          ELSE data' = [data EXCEPT ![c] = mine.value] /\ UNCHANGED dead
    /\ clock' = [clock EXCEPT ![c] = SyncLamport(@, Len(log) + Len(local[c]))]
    /\ UNCHANGED pack

\* packs.PushPull and the answer: the local changes get the next server seqs,
\* the changes after the checkpoint or, if they are too many, a snapshot is
\* pulled, and the row of the client is updated.  In an instance that does not
\* collect the rows stay, and so does the minimum.
Sync(c) ==
    /\ Ready(c)
    /\ log' = log \o local[c]
    /\ synced' = IF Collecting THEN [synced EXCEPT ![c] = cp[c]] ELSE synced
    /\ \E few \in {Len(log) - cp[c] < threshold : threshold \in Thresholds} :
          IF few THEN PullChanges(c) ELSE PullSnapshot(c)
    /\ min' = [min EXCEPT ![c] = MinSynced(synced')]
    /\ cp' = [cp EXCEPT ![c] = Len(log) + Len(local[c])]
    /\ local' = [local EXCEPT ![c] = <<>>]

\* InternalDocument.applyChanges: the next change of the pack.
ApplyChange(c) ==
    /\ c \notin dead
    /\ pack[c] # <<>>
    /\ ExecuteOn(c, Head(pack[c]))
    /\ clock' = [clock EXCEPT ![c] = SyncLamport(@, Head(pack[c]).lamport)]
    /\ pack' = [pack EXCEPT ![c] = Tail(@)]
    /\ UNCHANGED <<log, synced, cp, local, min>>

\* The ticket of the change with the given server seq: findTicketByServerSeq.
MinSyncedTicket(seq) == IF seq = 0 THEN InitialTicket ELSE At(log[seq])

\* The end of Document.ApplyChangePack: GarbageCollect.
Collect(c) ==
    /\ c \notin dead
    /\ pack[c] = <<>>
    /\ min[c] # Nil
    /\ data' = [data EXCEPT ![c] = GarbageCollect(@, MinSyncedTicket(min[c]))]
    /\ min' = [min EXCEPT ![c] = Nil]
    /\ UNCHANGED <<log, synced, clock, cp, local, pack, dead>>

ClientStep(c) ==
    \/ Update(c)
    \/ Sync(c)
    \/ ApplyChange(c)
    \/ Collect(c)

Next == \E c \in Clients : ClientStep(c)

Spec == Init /\ [][Next]_vars

-----------------------------------------------------------------------------
(***************************************************************************)
(* Properties                                                              *)
(***************************************************************************)

\* Two replicas have executed the same changes, each in its own order.
SameChanges(c, d) ==
    /\ Ready(c) /\ Ready(d)
    /\ local[c] = <<>> /\ local[d] = <<>>
    /\ cp[c] = cp[d]

\* The changes the replica of c has executed.
Executed(c) ==
    ({log[s] : s \in 1 .. cp[c]} \ {pack[c][i] : i \in DOMAIN pack[c]})
    \cup {local[c][i] : i \in DOMAIN local[c]}

\* The lamport of a change is not above its server seq.  applySnapshot relies
\* on it when it syncs the clock with the server seq of the snapshot, which
\* does not tell the lamports of the changes in it.
LamportBound == \A s \in 1 .. Len(log) : log[s].lamport <= s

\* No operation, local or received, names anything the replica does not have.
NoFatal == dead = {}

\* Why LamportBound holds: a clock counts at most the changes its replica has
\* executed, so does every change on its way to the log and to a replica.
ClockInv ==
    \A c \in Clients :
        /\ cp[c] <= Len(log)
        /\ Len(pack[c]) <= cp[c]
        /\ clock[c] <= cp[c] - Len(pack[c]) + Len(local[c])
        /\ \A i \in 1 .. Len(local[c]) : local[c][i].lamport <= cp[c] + i
        /\ \A i \in 1 .. Len(pack[c]) : pack[c][i].lamport <= cp[c] - Len(pack[c]) + i
=============================================================================
