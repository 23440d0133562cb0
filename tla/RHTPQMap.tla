------------------------------ MODULE RHTPQMap ------------------------------
(***************************************************************************)
(* json.RHTPriorityQueueMap, the members of an Object: of every key a      *)
(* priority queue of the elements that were set, the latest on top.  An    *)
(* element is a counter; a primitive is one that nobody increases.         *)
(***************************************************************************)
EXTENDS Tickets, Counter

CONSTANT Keys

Node == [key : Keys, createdAt : Nat, removedAt : Nat \cup {Nil}, counter : CounterValue]

\* nodeMapByCreatedAt, and the keys of nodeQueueMapByKey, whose queues stay
\* when they run empty.
Object == [nodes : SUBSET Node, queues : SUBSET Keys]

NewObject == [nodes |-> {}, queues |-> {}]

Queue(o, k) == {n \in o.nodes : n.key = k}

Peek(o, k) == CHOOSE n \in Queue(o, k) : \A m \in Queue(o, k) : m.createdAt <= n.createdAt

\* Get and Elements: the element shown under a key, as a set of at most one.
Get(o, k) == {n \in Queue(o, k) : n = Peek(o, k) /\ n.removedAt = Nil}

\* Element.Remove.
Remove(n, at) ==
    IF at > n.createdAt /\ (n.removedAt = Nil \/ at > n.removedAt)
    THEN [n EXCEPT !.removedAt = at]
    ELSE n

\* Set removes the element it replaces, if that is older.
Set(o, k, v, at) ==
    LET replaced == Get(o, k)
        node == [key |-> k, createdAt |-> at, removedAt |-> Nil, counter |-> NewCounter(v)]
    IN  [nodes |-> (o.nodes \ replaced) \cup {Remove(n, at) : n \in replaced} \cup {node},
         queues |-> o.queues \cup {k}]

\* A mutant of DeleteByCreatedAt: the element is released at once.
DeleteByCreatedAtReleasing(o, createdAt, at) ==
    [o EXCEPT !.nodes = {n \in @ : n.createdAt # createdAt}]

DeleteByCreatedAt(o, createdAt, at) ==
    [o EXCEPT !.nodes = {IF n.createdAt = createdAt THEN Remove(n, at) ELSE n : n \in @}]

\* Root.GarbageCollect with Object.Purge.
Purge(o, ticket) ==
    [o EXCEPT !.nodes = {n \in @ : n.removedAt = Nil \/ n.removedAt > ticket}]

\* toJSONObject and fromJSONObject: every element goes back to the queue of its
\* key, removed or not; an empty queue is not encoded.
DecodedObject(o) == [o EXCEPT !.queues = {n.key : n \in o.nodes}]
=============================================================================
