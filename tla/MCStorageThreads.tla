-------------------------- MODULE MCStorageThreads --------------------------
(***************************************************************************)
(* Instances of StorageThreads for TLC.                                    *)
(***************************************************************************)
EXTENDS StorageThreads

CONSTANTS w1, w2

Base == <<"initial_file", "BASE">>
t1 == <<"f", "t1">>
t2 == <<"f", "t2">>
OneFile == {Base, t1, t2}

\* Both File:Tags are of one Worker, or each has its own.
Alone == [t \in OneFile |-> w1]
Apart == [t \in OneFile |-> IF t = t2 THEN w2 ELSE w1]
AloneOrApart == {Alone, Apart}
OnlyApart == {Apart}
=============================================================================
