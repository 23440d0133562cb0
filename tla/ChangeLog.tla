----------------------------- MODULE ChangeLog -----------------------------
(***************************************************************************)
(* What the agent promises the replicas of one document, without requests, *)
(* rows, locks or faults: one log of changes that only grows, in which     *)
(* every client's changes stand without a gap, and replicas that show      *)
(* their own edits and the prefix of the log they have received, and       *)
(* nothing that is in neither.  PushPull implements it.                    *)
(***************************************************************************)
EXTENDS Naturals, Sequences

CONSTANTS
    Clients,
    ClientSeqs      \* the client seqs of this instance and 0

VARIABLES
    log,        \* the changes in the order of their server seqs
    made,       \* the number of changes each client has made
    acked,      \* how many of its changes each client no longer sends
    received,   \* the server seq each client has received the log to
    seen        \* the changes that are executed on each client's replica

vars == <<log, made, acked, received, seen>>

-----------------------------------------------------------------------------
\* The changes lo+1 .. hi of client c.
Own(c, lo, hi) == {[actor |-> c, clientSeq |-> k] : k \in (lo + 1) .. hi}

\* The changes of the log up to server seq n.
Prefix(n) == {log[s] : s \in 1 .. n}

Init ==
    /\ log = <<>>
    /\ made = [c \in Clients |-> 0]
    /\ acked = [c \in Clients |-> 0]
    /\ received = [c \in Clients |-> 0]
    /\ seen = [c \in Clients |-> {}]

\* A client edits its replica.
Edit(c) ==
    /\ made' = [made EXCEPT ![c] = @ + 1]
    /\ seen' = [seen EXCEPT ![c] = @ \cup Own(c, made[c], made[c] + 1)]
    /\ UNCHANGED <<log, acked, received>>

\* The log takes the next changes of a client, all or none of them, and leaves
\* no gap before them.  It may take a change again: only faults make it do so.
Push(c) ==
    /\ \E lo, hi \in ClientSeqs :
        /\ lo < hi /\ hi <= made[c]
        /\ Own(c, 0, lo) \subseteq Prefix(Len(log))
        /\ log' = log \o [k \in 1 .. (hi - lo) |-> [actor |-> c, clientSeq |-> lo + k]]
    /\ UNCHANGED <<made, acked, received, seen>>

\* A client receives the log up to some server seq: it drops local changes
\* that the log holds, and its replica shows what it has received and made.
Deliver(c) ==
    /\ \E n \in received[c] .. Len(log) : received' = [received EXCEPT ![c] = n]
    /\ \E k \in ClientSeqs :
        /\ acked[c] <= k /\ k <= made[c]
        /\ Own(c, 0, k) \subseteq Prefix(Len(log))
        /\ acked' = [acked EXCEPT ![c] = k]
    /\ \E shown \in SUBSET (Prefix(Len(log)) \cup Own(c, 0, made[c])) :
        /\ Prefix(received'[c]) \cup Own(c, 0, made[c]) \subseteq shown
        /\ seen' = [seen EXCEPT ![c] = shown]
    /\ UNCHANGED <<log, made>>

Next == \E c \in Clients : Edit(c) \/ Push(c) \/ Deliver(c)

Spec == Init /\ [][Next]_vars
=============================================================================
