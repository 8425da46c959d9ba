------------------------------ MODULE FileStore ------------------------------
(***************************************************************************)
(* What the Storage promises a Worker: Files with Tags, each a sequence of *)
(* blocks of its own.  There is no disk here, no sharing of blocks and no  *)
(* limit to the space; a request may always be refused, and then changes   *)
(* nothing.                                                                *)
(***************************************************************************)
EXTENDS Naturals, Sequences

CONSTANTS
    FileTags,  \* the File:Tags a query may name
    Protected, \* initial_file:BASE
    Contents,  \* what a block can hold
    Zeros,     \* the block that was never written
    MaxBlocks, \* most blocks of a File:Tag
    NoFile     \* the File:Tag does not exist

VARIABLES
    files,  \* NoFile, or the data of the File:Tag and whether it is committed
    answer  \* the data the last request got, <<>> for every other answer

Exists(t) == files[t] # NoFile
Open(t) == Exists(t) /\ ~files[t].committed
Stored(data, committed) == [data |-> data, committed |-> committed]

Init ==
    /\ files = [t \in FileTags |-> IF t = Protected THEN Stored(<<Zeros>>, TRUE)
                                                    ELSE NoFile]
    /\ answer = <<>>

Changed(t, file) == files' = [files EXCEPT ![t] = file] /\ answer' = <<>>

Create(t) == ~Exists(t) /\ Changed(t, Stored(<<>>, FALSE))

\* Blocks beyond the old size are zero.
Truncate(t, n) ==
    /\ Open(t)
    /\ Changed(t, Stored([i \in 1..n |-> IF i <= Len(files[t].data)
                                         THEN files[t].data[i] ELSE Zeros], FALSE))

Tag(src, dst) ==
    Exists(src) /\ ~Exists(dst) /\ Changed(dst, Stored(files[src].data, FALSE))

Write(t, i, c) ==
    /\ Open(t)
    /\ i \in DOMAIN files[t].data
    /\ Changed(t, Stored([files[t].data EXCEPT ![i] = c], FALSE))

Commit(t) == Open(t) /\ Changed(t, Stored(files[t].data, TRUE))

Delete(t) == Exists(t) /\ t # Protected /\ Changed(t, NoFile)

Read(t, i) ==
    /\ Exists(t)
    /\ i \in DOMAIN files[t].data
    /\ answer' = <<files[t].data[i]>>
    /\ UNCHANGED files

Refuse == answer' = <<>> /\ UNCHANGED files

Next ==
    \/ Refuse
    \/ \E t \in FileTags :
          \/ Create(t) \/ Commit(t) \/ Delete(t)
          \/ \E n \in 0..MaxBlocks : Truncate(t, n)
          \/ \E dst \in FileTags : Tag(t, dst)
          \/ \E i \in 1..MaxBlocks : Read(t, i) \/ \E c \in Contents : Write(t, i, c)

Spec == Init /\ [][Next]_<<files, answer>>
=============================================================================
