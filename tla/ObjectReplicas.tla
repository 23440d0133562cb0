--------------------------- MODULE ObjectReplicas ---------------------------
(***************************************************************************)
(* The operations of an Object and of the counters in it, on the replicas  *)
(* of Replicas.                                                            *)
(***************************************************************************)
EXTENDS Replicas, RHTPQMap, FiniteSetsExt

CONSTANTS
    Values,         \* the numbers applications set
    Increments      \* and those they increase a counter by

\* They are of 64 bits.
ASSUME NumbersAssumption ==
    Values \subseteq -MaxLong - 1 .. MaxLong /\ Increments \subseteq -MaxLong - 1 .. MaxLong

\* operation.Set, Remove and Increase; a Set creates the element of its own
\* ticket.
ObjectOperation ==
    [kind : {"set", "remove", "increase"}, key : Keys, elem : Nat \cup {Nil}, value : Int]

\* Has and Delete take the top of a queue that has run empty, and panic.  An
\* Increase that does not find its counter returns ErrNotApplicableDataType;
\* the pack is not acknowledged and fails again at every sync.
ObjectFails(o, op, at) ==
    \/ op.kind = "remove" /\ op.elem = Nil
    \/ op.kind = "increase" /\ \A n \in o.nodes : n.createdAt # op.elem

\* Set.Execute, Remove.Execute and Increase.Execute.
ExecuteSet(o, op, at) == Set(o, op.key, op.value, at)
ExecuteRemove(o, op, at) == DeleteByCreatedAt(o, op.elem, at)
ExecuteIncrease(o, op, at) ==
    [o EXCEPT !.nodes = {IF n.createdAt = op.elem
                         THEN [n EXCEPT !.counter = Increase(@, op.value)]
                         ELSE n : n \in @}]

ObjectExecute(o, op, at) ==
    CASE op.kind = "set" -> ExecuteSet(o, op, at)
      [] op.kind = "remove" -> ExecuteRemove(o, op, at)
      [] op.kind = "increase" -> ExecuteIncrease(o, op, at)

\* ObjectProxy.setInternal.
SetNew(at) ==
    {[kind |-> "set", key |-> k, elem |-> at, value |-> v] : k \in Keys, v \in Values}

\* ObjectProxy.Delete, of a key that is there, or whose queue has run empty.
Delete(o) ==
    {[kind |-> "remove", key |-> n.key, elem |-> n.createdAt, value |-> 0] :
        n \in UNION {Get(o, k) : k \in Keys}}
    \cup {[kind |-> "remove", key |-> k, elem |-> Nil, value |-> 0] :
        k \in {q \in o.queues : Queue(o, q) = {}}}

\* CounterProxy.Increase.
IncreaseShown(o) ==
    {[kind |-> "increase", key |-> n.key, elem |-> n.createdAt, value |-> v] :
        n \in UNION {Get(o, k) : k \in Keys}, v \in Increments}

ObjectOperations(o, at) == SetNew(at) \cup Delete(o) \cup IncreaseShown(o)

-----------------------------------------------------------------------------
(***************************************************************************)
(* Properties                                                              *)
(***************************************************************************)

\* What a document shows under a key.
Shown(o, k) == {[createdAt |-> n.createdAt, value |-> n.counter.value] : n \in Get(o, k)}

\* What a set of changes should show under a key: the latest Set, unless it is
\* removed, with all its increases.
Sets(changes, k) == {change \in changes : change.op.kind = "set" /\ change.op.key = k}
Named(changes, kind, elem) ==
    {change \in changes : change.op.kind = kind /\ change.op.elem = elem}
Winner(changes, k) ==
    {[createdAt |-> s.op.elem,
      value |-> Wrapped(s.op.value + MapThenSumSet(LAMBDA i : i.op.value,
                                                   Named(changes, "increase", s.op.elem)))] :
        s \in {t \in Sets(changes, k) :
                  /\ \A u \in Sets(changes, k) : u.op.elem <= t.op.elem
                  /\ Named(changes, "remove", t.op.elem) = {}}}

\* A replica shows what the changes it has executed call for, in whatever
\* order it has executed them.
LastWriterWins ==
    \A c \in Clients : c \notin dead =>
        \A k \in Keys : Shown(data[c], k) = Winner(Executed(c), k)

\* An element that was replaced or removed is never shown again.
NothingResurfaces ==
    [][\A c \in Clients : \A k \in Keys : \A n \in Get(data'[c], k) :
          \/ \E m \in Get(data[c], k) : m.createdAt = n.createdAt
          \/ \A m \in data[c].nodes : m.createdAt # n.createdAt]_vars

\* Replicas that have executed the same changes show the same members.  It
\* follows from LastWriterWins, but the code does not keep it where removed
\* elements are collected.
SameMembers ==
    \A c, d \in Clients : SameChanges(c, d) =>
        \A k \in Keys : Shown(data[c], k) = Shown(data[d], k)

\* They agree on the types of their counters too.  The code does not keep
\* this: a counter that leaves the integers and comes back stays long.
SameTypes ==
    \A c, d \in Clients : SameChanges(c, d) =>
        \A m \in data[c].nodes, n \in data[d].nodes :
            m.createdAt = n.createdAt => m.counter = n.counter
=============================================================================
