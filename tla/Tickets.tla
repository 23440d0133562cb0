------------------------------- MODULE Tickets -------------------------------
(***************************************************************************)
(* time.Ticket, the timestamp of an operation.  Tickets are ordered by the *)
(* lamport and then by the actor, so a natural number stands for one.  The *)
(* delimiter is left out: a change holds one operation.                    *)
(***************************************************************************)
EXTENDS Integers, Sequences, FiniteSets

CONSTANT N      \* the number of clients

ASSUME NAssumption == N \in Nat \ {0}

\* The actors, in the order of their ids.
Clients == 1 .. N

Nil == -1           \* no ticket
InitialTicket == 0

TicketOf(lamport, actor) == lamport * (N + 1) + actor
ActorOf(ticket) == ticket % (N + 1)
=============================================================================
