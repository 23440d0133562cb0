-------------------------- MODULE MCObjectReplicas --------------------------
(***************************************************************************)
(* Small instances of ObjectReplicas for TLC.                              *)
(***************************************************************************)
EXTENDS ObjectReplicas

MCIncrements == {-1, 1, 2}

=============================================================================
