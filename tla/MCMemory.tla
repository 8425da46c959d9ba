------------------------------ MODULE MCMemory ------------------------------
(***************************************************************************)
(* Instances of Memory for TLC.                                            *)
(***************************************************************************)
EXTENDS Memory

Base == <<"initial_file", "BASE">>
OneTag == {Base, <<"f", "t1">>}
TwoTags == {Base, <<"f", "t1">>, <<"f", "t2">>}
=============================================================================
