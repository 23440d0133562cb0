--------------------------- MODULE MCArrayReplicas ---------------------------
(***************************************************************************)
(* Small instances of ArrayReplicas for TLC.                               *)
(***************************************************************************)
EXTENDS ArrayReplicas

=============================================================================
