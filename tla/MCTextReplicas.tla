--------------------------- MODULE MCTextReplicas ---------------------------
(***************************************************************************)
(* Small instances of RichTextReplicas for TLC; one runs plain texts.      *)
(***************************************************************************)
EXTENDS RichTextReplicas

=============================================================================
