------------------------------ MODULE MCCluster ------------------------------
(***************************************************************************)
(* Instances of Cluster for TLC.                                           *)
(***************************************************************************)
EXTENDS Cluster

CONSTANTS q1, q2, w1, w2

Alike == Permutations({q1, q2})
=============================================================================
