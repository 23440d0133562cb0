-------------------------- MODULE RichTextReplicas --------------------------
(***************************************************************************)
(* json.RichText, the text of an editor, on the replicas of Replicas: a    *)
(* Text whose blocks have attributes and which ends with a line break that *)
(* is there from the start.  Of the attributes one is kept, by the ticket  *)
(* that set it, which tells its value.                                     *)
(***************************************************************************)
EXTENDS TextReplicas

CONSTANT Attributed     \* whether contents are inserted with the attribute

ASSUME AttributedAssumption == Attributed \subseteq BOOLEAN

\* operation.RichEdit, and operation.Style.  styled are the characters the author
\* selected and seen the insertions it had; the code does not send these two.
RichTextOperation ==
    [type : {"edit"}, from : Position, to : Position, latest : [Clients -> Nat], len : Nat,
     deleted : SUBSET (Nat \X Nat), attributed : BOOLEAN]
    \cup [type : {"style"}, from : Position, to : Position, styled : SUBSET (Nat \X Nat),
          seen : SUBSET Nat]

\* NewInitialRichText: the last line has the ticket of the text, which is older
\* than those of all edits.
LastLine == TicketOf(0, 1)
NewRichText == [NewText EXCEPT !.nodes = Append(@, NewBlock(LastLine, 1, InitialTicket))]

\* A mutant of SetAttr: the last to be executed wins.
SetAttrAlways(n, at) == [n EXCEPT !.attrs = at]

\* RHT.Set.
SetAttr(n, at) == [n EXCEPT !.attrs = IF at > @ THEN at ELSE @]

\* RichText.SetStyle: every block between the two positions, whether its author
\* saw it or not.
SetStyle(t, from, to, at) ==
    LET s == SplitForEdit(t, from, to)
        places == Between(s, from, to, at)
    IN  [s EXCEPT !.nodes =
            [i \in DOMAIN @ |-> IF i \in places THEN SetAttr(@[i], at) ELSE @[i]]]

\* RichEdit.Execute and Style.Execute.
RichTextExecute(t, op, at) ==
    IF op.type = "style"
    THEN SetStyle(t, op.from, op.to, at)
    ELSE Edit(t, op.from, op.to, op.latest,
              NewBlock(at, op.len, IF op.attributed THEN at ELSE InitialTicket), at)

\* RichTextProxy.Edit, before the last line.
RichEdits(t, at) ==
    {[type |-> "edit", from |-> e.from, to |-> e.to, len |-> e.len, latest |-> e.latest,
      deleted |-> e.deleted, attributed |-> b] :
        e \in TextEdits(t, at, Length(t) - 1), b \in Attributed}

\* RichTextProxy.SetStyle.
Style(t, at, from, to) ==
    LET fromPos == FindNodePos(t, from)
        toPos == FindNodePos(t, to)
        s == SplitForEdit(t, fromPos, toPos)
    IN  [type |-> "style", from |-> fromPos, to |-> toPos,
         styled |-> UNION {Chars(s.nodes[i]) : i \in Between(s, fromPos, toPos, at)},
         seen |-> {t.nodes[i].createdAt : i \in DOMAIN t.nodes}]

Styles(t, at) ==
    {Style(t, at, r[1], r[2]) : r \in {q \in (0 .. Length(t) - 1) \X (0 .. Length(t) - 1) :
                                          q[1] < q[2]}}

RichTextOperations(t, at) == RichEdits(t, at) \cup Styles(t, at)

-----------------------------------------------------------------------------
(***************************************************************************)
(* Properties                                                              *)
(***************************************************************************)

\* The tickets that should have set the attribute of a character: those of the
\* styles whose authors selected it, and that of its insertion.
Setters(changes, x) ==
    {At(change) : change \in
        {s \in changes : \/ s.op.type = "style" /\ x \in s.op.styled
                         \/ s.op.type = "edit" /\ s.op.attributed /\ x[1] = At(s)}}

\* The latest of the styles whose authors selected a character, or its insertion,
\* tells how it is shown, in whatever order the styles, the edits that split its
\* block and the snapshots came: as long as all authors knew the character.
StyledAsSelected ==
    \A c \in {d \in Clients : Ready(d)} :
        LET changes == Executed(c)
            styles == {change \in changes : change.op.type = "style"}
        IN  \A i \in DOMAIN data[c].nodes :
                LET n == data[c].nodes[i]
                IN  (\A s \in styles : n.createdAt \in s.op.seen) =>
                        \A x \in Chars(n) :
                            n.attrs = Max({InitialTicket} \cup Setters(changes, x))

\* Replicas that have executed the same operations show every character in the
\* same style.  The code does not keep this: what is inserted into a range that
\* is styled meanwhile is styled only where the insertion comes first.
SameStyle ==
    \A c, d \in Clients : SameChanges(c, d) =>
        [i \in DOMAIN data[c].nodes |-> data[c].nodes[i].attrs] =
        [i \in DOMAIN data[d].nodes |-> data[d].nodes[i].attrs]
=============================================================================
