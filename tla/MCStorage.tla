------------------------------ MODULE MCStorage ------------------------------
(***************************************************************************)
(* Instances of Storage for TLC, and what goes on once requests failed     *)
(* halfway: two history variables say which failures have happened.        *)
(***************************************************************************)
EXTENDS Storage

VARIABLES
    full,  \* a WRITE_BLOCK has found no free block, and lost the old one
    torn   \* a COMMIT has failed after its first relinks

Base == <<"initial_file", "BASE">>
OneFile == {Base, <<"f", "t1">>, <<"f", "t2">>}

\* Every block the metadata lists has its link.
Intact ==
    \A t \in FileTags : Exists(t) =>
        \A i \in 1..BlockCount(t) : links[t][i] # NoBlock

\* Every link is to the block the metadata lists.
Untorn ==
    \A t \in FileTags, i \in LogicalBlocks :
        links[t][i] # NoBlock => /\ Exists(t)
                                 /\ i <= BlockCount(t)
                                 /\ links[t][i] = metadata[t].blocks[i]

MCInit == Init /\ full = FALSE /\ torn = FALSE
MCNext == Next /\ full' = (full \/ ~Intact') /\ torn' = (torn \/ ~Untorn')
MCSpec == MCInit /\ [][MCNext]_<<vars, full, torn>>

\* A Storage that is full still accounts for every block, until a COMMIT fails
\* halfway: it leaves metadata that names blocks it has freed.
BlocksAccounted == torn \/ BitmapExact

\* Until the Storage is full, every block the metadata lists has its link, to
\* the block it names, and there are no other links.
LinksExact == full \/ LinksMatchMetadata

\* The hash index is current, a full Storage included, until a COMMIT fails
\* halfway: the next one registers the block its metadata names.
IndexExact == torn \/ IndexCurrent

\* Once committed, a File:Tag reads the same until it is deleted, in a full
\* Storage too, until a COMMIT has failed halfway.
CommittedUnchanged ==
    [][~torn => \A t \in FileTags :
          (Closed(t) /\ Exists(t)') => DataOf(t)' = DataOf(t)]_vars

\* Until the Storage is full, sharing of blocks is invisible: it answers as if
\* every File:Tag had blocks of its own.
ImplementsFileStore == FS!Init /\ [][~full' => FS!Next]_vars
=============================================================================
