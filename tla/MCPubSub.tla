------------------------------ MODULE MCPubSub ------------------------------
(***************************************************************************)
(* Small instances of PubSub for TLC.                                      *)
(***************************************************************************)
EXTENDS PubSub, TLC

CONSTANTS c1, c2, c3, s1, s2, s3, p1, p2

\* Every client has one stream.
OneStreamEach == (s1 :> c1) @@ (s2 :> c2) @@ (s3 :> c3) @@ (p1 :> c1)

\* Two clients with a stream each.
TwoOfEach == (s1 :> c1) @@ (s2 :> c2) @@ (p1 :> c1) @@ (p2 :> c2)

\* The first client has two: it watches again when the first is gone.
TwoStreams == (s1 :> c1) @@ (s2 :> c2) @@ (s3 :> c1) @@ (p1 :> c2)
=============================================================================
