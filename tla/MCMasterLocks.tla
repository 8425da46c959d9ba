---------------------------- MODULE MCMasterLocks ----------------------------
(***************************************************************************)
(* Instances of MasterLocks for TLC.                                       *)
(***************************************************************************)
EXTENDS MasterLocks, TLC

CONSTANTS c1, c2, w1, w2, aging

Alike == Permutations({c1, c2}) \cup Permutations({w1, w2})
=============================================================================
