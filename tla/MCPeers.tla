------------------------------- MODULE MCPeers -------------------------------
(***************************************************************************)
(* Instances of Peers for TLC.                                             *)
(***************************************************************************)
EXTENDS Peers

CONSTANTS q1, q2, w1, w2

Alike == Permutations({q1, q2}) \cup Permutations({w1, w2})
=============================================================================
