----------------------------- MODULE MCPushPull -----------------------------
(***************************************************************************)
(* Small instances of PushPull for TLC.                                    *)
(***************************************************************************)
EXTENDS PushPull, TLC

\* Clients and request slots are interchangeable: no action tells them apart.
\* Used by the runs that check invariants and action properties only.
Symmetry == Permutations(Clients) \cup Permutations(Reqs)
=============================================================================
