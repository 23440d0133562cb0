----------------------------- MODULE MCCluster -----------------------------
(***************************************************************************)
(* Small instances of Cluster for TLC.                                     *)
(***************************************************************************)
EXTENDS Cluster, TLC

CONSTANTS a1, a2, a3, p1, p2, s1, s2

\* Two agents, and a third that is started at the address of the second.
SharedAddress == (a1 :> 1) @@ (a2 :> 2) @@ (a3 :> 2)

\* Two agents at addresses of their own.
OwnAddresses == (a1 :> 1) @@ (a2 :> 2)

\* A stream at the first agent, which publishes twice.
OneStream == s1 :> a1

\* A push at either agent, and a stream at the second.
PushesAndStream == (p1 :> a1) @@ (p2 :> a2) @@ (s2 :> a2)
=============================================================================
