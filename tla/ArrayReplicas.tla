---------------------------- MODULE ArrayReplicas ----------------------------
(***************************************************************************)
(* The operations of an Array, on the replicas of Replicas.                *)
(***************************************************************************)
EXTENDS Replicas, RGATreeList

CONSTANT Kinds      \* the operations the applications use in this instance

ASSUME KindsAssumption == Kinds \subseteq {"add", "move", "remove"}

\* operation.Add, Move and Remove; an Add creates the element of its own ticket.
ArrayOperation == [kind : {"add", "move", "remove"}, prev : Nat, elem : Nat]

\* The lookups of the operation fail, which ends the process.  A move after
\* the moved element itself looks for a node that is already released.
ArrayFails(l, op, at) ==
    \/ op.kind \in {"add", "move"} /\ ~Has(l, op.prev)
    \/ op.kind \in {"move", "remove"} /\ ~Has(l, op.elem)
    \/ op.kind = "move" /\ op.prev = op.elem /\ Moves(l, op.elem, at)

\* Add.Execute, Move.Execute and Remove.Execute.
ExecuteAdd(l, op, at) == InsertAfter(l, op.prev, NewNode(op.elem), at)
ExecuteMove(l, op, at) == MoveAfter(l, op.prev, op.elem, at)
ExecuteRemove(l, op, at) == DeleteByCreatedAt(l, op.elem, at)

ArrayExecute(l, op, at) ==
    CASE op.kind = "add" -> ExecuteAdd(l, op, at)
      [] op.kind = "move" -> ExecuteMove(l, op, at)
      [] op.kind = "remove" -> ExecuteRemove(l, op, at)

\* ArrayProxy.AddInteger and InsertIntegerAfter.
Add(l, at) ==
    {[kind |-> "add", prev |-> prev, elem |-> at] : prev \in Elements(l) \cup {LastCreatedAt(l)}}

\* ArrayProxy.MoveBefore, of elements the application sees.
MoveBefore(l) ==
    {[kind |-> "move", prev |-> FindPrevCreatedAt(l, next), elem |-> elem] :
        next \in Elements(l), elem \in Elements(l)}

\* ArrayProxy.Delete(idx), which trusts Len.
Delete(l) ==
    {[kind |-> "remove", prev |-> InitialTicket, elem |-> l.nodes[i].createdAt] :
        i \in {j \in Live(l) : Cardinality({k \in Live(l) : k < j}) < l.size}}

ArrayOperations(l, at) ==
    {op \in Add(l, at) \cup MoveBefore(l) \cup Delete(l) : op.kind \in Kinds}

-----------------------------------------------------------------------------
(***************************************************************************)
(* Properties                                                              *)
(***************************************************************************)

\* Some change moves an element.
Moved == \E s \in DOMAIN log : log[s].op.kind = "move"

\* Replicas that have executed the same changes, each in its own order, have
\* the same nodes in the same order, as long as nothing is moved.
Converged ==
    \A c, d \in Clients : SameChanges(c, d) /\ ~Moved => data[c].nodes = data[d].nodes

\* Replicas that have executed the same changes agree on every element: that
\* it is there, when it was last moved and when it was last removed.
SameElements ==
    \A c, d \in Clients :
        SameChanges(c, d) => {data[c].nodes[i] : i \in DOMAIN data[c].nodes} =
                             {data[d].nodes[i] : i \in DOMAIN data[d].nodes}

\* A new element appears where the application put it, right behind prev: the
\* clock of a replica is ahead of all it has received.
InsertedInPlace ==
    [][\A c \in Clients : Len(local'[c]) > Len(local[c]) /\ Ready(c) =>
          LET op == local'[c][Len(local'[c])].op
              l == data'[c]
          IN  op.kind = "add" => IndexOf(l, op.elem) = IndexOf(l, op.prev) + 1]_vars

\* Replicas that have executed the same changes show the elements in the same
\* order, also after moves.  The code does not keep this.
ConvergedWithMoves ==
    \A c, d \in Clients : SameChanges(c, d) => data[c].nodes = data[d].nodes

\* Len is the number of elements that are not removed.  The code does not keep
\* this.
LenCorrect == \A c \in Clients : data[c].size = Cardinality(Live(data[c]))
=============================================================================
