------------------------------- MODULE Storage -------------------------------
(***************************************************************************)
(* The Storage's filesystem: physical blocks, the bitmap of those in use,  *)
(* and for each File:Tag a metadata.config and a directory of hard links,  *)
(* one per logical block, to physical blocks.  Logical blocks share a      *)
(* physical block after TAG and COMMIT; WRITE_BLOCK copies a shared one.   *)
(*                                                                         *)
(* A step is one request from receipt to answer.  handle_client runs one   *)
(* thread per Worker and the file locks are commented out, so this is the  *)
(* behaviour of a Storage with a single Worker; calls of the operating     *)
(* system are assumed to succeed where the code's own state lets them.     *)
(* Logical blocks are numbered from 1, physical ones from 0.               *)
(***************************************************************************)
EXTENDS Integers, Sequences, FiniteSets

CONSTANTS
    FileTags,          \* <<file, tag>> pairs a query may name
    Protected,         \* <<"initial_file", "BASE">>
    Contents,          \* what a block can hold
    Zeros,             \* the block that was never written
    MaxBlocks,         \* most blocks a query truncates a File:Tag to
    PhysicalBlocks,    \* FS_SIZE / BLOCK_SIZE
    BitmapBits,        \* bits of bitmap.bin: whole bytes, so at least as many
    ChangeCommitted,   \* queries may TRUNCATE or DELETE a committed File:Tag
    NoFile, NoBlock

ASSUME StorageAssumption ==
    /\ IsFiniteSet(FileTags)
    /\ Protected \in FileTags
    /\ Zeros \in Contents
    /\ MaxBlocks \in Nat \ {0}
    /\ PhysicalBlocks \in Nat \ {0}
    /\ BitmapBits \in Nat
    /\ PhysicalBlocks <= BitmapBits
    /\ ChangeCommitted \in BOOLEAN
    /\ NoBlock \notin 0..BitmapBits
    /\ NoBlock \notin Contents
    /\ NoFile \notin [blocks : Seq(0..PhysicalBlocks - 1),
                     state : {"WORK_IN_PROGRESS", "COMMITTED"}]
    /\ NoFile \notin [data : Seq(Contents \cup {NoBlock}), committed : BOOLEAN]

VARIABLES
    metadata,    \* metadata.config of each File:Tag: BLOCKS and ESTADO
    links,       \* the physical block each entry of logical_blocks/ links to
    directories, \* the directories under files/
    bitmap,      \* the physical blocks in use
    content,     \* of each physical block
    hash_index,  \* blocks_hash_index.config: the block registered for a content
    answer       \* the data the last request got, <<>> for every other answer

disk == <<metadata, links, directories, bitmap, content, hash_index>>
vars == <<disk, answer>>

Blocks == 0..PhysicalBlocks - 1
LogicalBlocks == 1..MaxBlocks
FileOf(t) == t[1]

\* The metadata, the links and the bitmap refer to blocks that exist.
TypeOK ==
    /\ metadata \in [FileTags -> {NoFile} \cup
                        [blocks : Seq(Blocks),
                         state : {"WORK_IN_PROGRESS", "COMMITTED"}]]
    /\ \A t \in FileTags :
          metadata[t] # NoFile => Len(metadata[t].blocks) <= MaxBlocks
    /\ links \in [FileTags -> [LogicalBlocks -> Blocks \cup {NoBlock}]]
    /\ directories \subseteq {FileOf(t) : t \in FileTags}
    /\ bitmap \subseteq 0..BitmapBits - 1
    /\ content \in [Blocks -> Contents]
    /\ hash_index \in [Contents -> Blocks \cup {NoBlock}]

NoLinks == [i \in LogicalBlocks |-> NoBlock]

\* init_storage: initial_file:BASE is block 0, and the index is empty.
Init ==
    /\ metadata = [t \in FileTags |->
                     IF t = Protected THEN [blocks |-> <<0>>, state |-> "COMMITTED"]
                                      ELSE NoFile]
    /\ links = [t \in FileTags |-> IF t = Protected THEN [NoLinks EXCEPT ![1] = 0]
                                                    ELSE NoLinks]
    /\ directories = {FileOf(Protected)}
    /\ bitmap = {0}
    /\ content = [p \in Blocks |-> Zeros]
    /\ hash_index = [c \in Contents |-> NoBlock]
    /\ answer = <<>>

-----------------------------------------------------------------------------
(* Helpers.                                                                *)

Exists(t) == metadata[t] # NoFile
BlockCount(t) == Len(metadata[t].blocks)
Committed(t) == metadata[t].state = "COMMITTED"
Closed(t) == Exists(t) /\ Committed(t)

\* st_nlink of a physical block: its own name and its logical blocks.
ph_block_links(p, theLinks) ==
    1 + Cardinality({ti \in FileTags \X LogicalBlocks : theLinks[ti[1]][ti[2]] = p})

\* Mutant: the search goes one bit too far.
get_free_bit_index_past_end ==
    LET Unused == (0..BitmapBits) \ bitmap
    IN  CHOOSE p \in Unused : \A r \in Unused : p <= r

\* get_free_bit_index, NoBlock for -1.
get_free_bit_index ==
    LET Unused == (0..BitmapBits - 1) \ bitmap
    IN  IF Unused = {} THEN NoBlock ELSE CHOOSE p \in Unused : \A r \in Unused : p <= r

LinksWithout(t, from, to) ==
    [links EXCEPT ![t] = [i \in LogicalBlocks |->
                            IF i \in from..to THEN NoBlock ELSE links[t][i]]]

\* Mutant: the block is freed without looking at the links left.
delete_logical_blocks_unchecked(t, from, to) ==
    /\ links' = LinksWithout(t, from, to)
    /\ bitmap' = bitmap \ {metadata[t].blocks[i] : i \in from..to}

\* delete_logical_block for the blocks from..to of t, in this order: each
\* link is removed, and the block the metadata names for it is freed if no
\* other link is left at that moment.
delete_logical_blocks(t, from, to) ==
    LET Freed == {metadata[t].blocks[i] :
                    i \in {j \in from..to :
                             /\ links[t][j] # NoBlock
                             /\ ph_block_links(metadata[t].blocks[j],
                                               LinksWithout(t, from, j)) = 1}}
    IN  /\ links' = LinksWithout(t, from, to)
        /\ bitmap' = bitmap \ Freed

Refused == answer' = <<>> /\ UNCHANGED disk

-----------------------------------------------------------------------------
(* Requests.                                                               *)

create_file(t) ==
    \/ Exists(t) /\ Refused
    \/ /\ ~Exists(t)
       /\ metadata' = [metadata EXCEPT ![t] = [blocks |-> <<>>,
                                               state |-> "WORK_IN_PROGRESS"]]
       /\ directories' = directories \cup {FileOf(t)}
       /\ answer' = <<>>
       /\ UNCHANGED <<links, bitmap, content, hash_index>>

\* Fewer blocks: the others are deleted.  More: they are links to block 0.
\* The state of the File:Tag is not looked at.
truncate_file(t, n) ==
    \/ ~Exists(t) /\ Refused
    \/ /\ Exists(t)
       /\ \/ /\ n <= BlockCount(t)
             /\ delete_logical_blocks(t, n + 1, BlockCount(t))
             /\ metadata' = [metadata EXCEPT ![t].blocks = SubSeq(@, 1, n)]
          \/ /\ n > BlockCount(t)
             /\ links' = [links EXCEPT ![t] = [i \in LogicalBlocks |->
                            IF i \in BlockCount(t) + 1..n THEN 0 ELSE links[t][i]]]
             /\ metadata' = [metadata EXCEPT ![t].blocks =
                               @ \o [i \in 1..n - Len(@) |-> 0]]
             /\ UNCHANGED bitmap
       /\ answer' = <<>>
       /\ UNCHANGED <<directories, content, hash_index>>

\* Mutant: the new tag is born with the state of the old one.
create_tag_with_state(src, dst) ==
    \/ (Exists(dst) \/ ~Exists(src) \/ FileOf(dst) \notin directories) /\ Refused
    \/ /\ ~Exists(dst)
       /\ Exists(src)
       /\ FileOf(dst) \in directories
       /\ links' = [links EXCEPT ![dst] = links[src]]
       /\ metadata' = [metadata EXCEPT ![dst] = metadata[src]]
       /\ answer' = <<>>
       /\ UNCHANGED <<directories, bitmap, content, hash_index>>

\* The directory of the new tag needs that of its File; the links and the
\* list of blocks are copied.
create_tag(src, dst) ==
    \/ (Exists(dst) \/ ~Exists(src) \/ FileOf(dst) \notin directories) /\ Refused
    \/ /\ ~Exists(dst)
       /\ Exists(src)
       /\ FileOf(dst) \in directories
       /\ links' = [links EXCEPT ![dst] = links[src]]
       /\ metadata' = [metadata EXCEPT ![dst] = [blocks |-> metadata[src].blocks,
                                                 state |-> "WORK_IN_PROGRESS"]]
       /\ answer' = <<>>
       /\ UNCHANGED <<directories, bitmap, content, hash_index>>

\* The logical blocks are deleted up to the first that has no link: then the
\* request fails and the metadata stays.  A File:Tag without any is removed.
delete_tag(t) ==
    \/ (t = Protected \/ ~Exists(t)) /\ Refused
    \/ /\ t # Protected
       /\ Exists(t)
       /\ LET Broken == {i \in 1..BlockCount(t) : links[t][i] = NoBlock}
          IN  \/ /\ Broken = {}
                 /\ delete_logical_blocks(t, 1, BlockCount(t))
                 /\ metadata' = [metadata EXCEPT ![t] = NoFile]
              \/ \E i \in Broken :
                    /\ \A j \in Broken : i <= j
                    /\ delete_logical_blocks(t, 1, i - 1)
                    /\ UNCHANGED metadata
       /\ answer' = <<>>
       /\ UNCHANGED <<directories, content, hash_index>>

\* Mutant: the copy is linked, but the metadata keeps the old block.
CopyOnWriteUnrecorded(t, i, c) ==
    LET p == get_free_bit_index
    IN  /\ p \in Blocks
        /\ bitmap' = bitmap \cup {p}
        /\ links' = [links EXCEPT ![t][i] = p]
        /\ content' = [content EXCEPT ![p] = c]
        /\ UNCHANGED metadata

\* A block with other links is first unlinked, then given the first free
\* physical block: if there is none, or its number is beyond the blocks that
\* exist, the request fails with the link gone, in the second case with the
\* bit set.
CopyOnWrite(t, i, c) ==
    LET p == get_free_bit_index
    IN  \/ /\ p \in Blocks
           /\ bitmap' = bitmap \cup {p}
           /\ links' = [links EXCEPT ![t][i] = p]
           /\ metadata' = [metadata EXCEPT ![t].blocks[i] = p]
           /\ content' = [content EXCEPT ![p] = c]
        \/ /\ p \notin Blocks
           /\ bitmap' = bitmap \cup ({p} \ {NoBlock})
           /\ links' = [links EXCEPT ![t][i] = NoBlock]
           /\ UNCHANGED <<metadata, content>>

\* Mutant: one logical block too many is taken for the only one.
SharedByThree(p) == ph_block_links(p, links) > 3

\* More links than the physical block's own name and one logical block.
Shared(p) == ph_block_links(p, links) > 2

execute_block_write(t, i, c) ==
    LET Writable == /\ Exists(t)
                    /\ ~Committed(t)
                    /\ i <= BlockCount(t)
                    /\ links[t][i] # NoBlock
    IN  \/ ~Writable /\ Refused
        \/ /\ Writable
           /\ \/ /\ Shared(links[t][i])
                 /\ CopyOnWrite(t, i, c)
              \/ /\ ~Shared(links[t][i])
                 /\ content' = [content EXCEPT ![links[t][i]] = c]
                 /\ UNCHANGED <<metadata, links, bitmap>>
           /\ answer' = <<>>
           /\ UNCHANGED <<directories, hash_index>>

execute_block_read(t, i) ==
    LET Readable == Exists(t) /\ i <= BlockCount(t) /\ links[t][i] # NoBlock
    IN  \/ ~Readable /\ Refused
        \/ /\ Readable
           /\ answer' = <<content[links[t][i]]>>
           /\ UNCHANGED disk

\* One turn of the loop of deduplicate_blocks, on the disk as it is so far:
\* the content of the logical block is registered for its physical block, or
\* the link goes to the block registered before and the old block is freed
\* if that was its last link (free_ph_block_if_unused).
DeduplicateBlock(t, d, i) ==
    LET old == d.blocks[i]
        c == content[d.links[t][i]]
        registered == d.index[c]
        newLinks == [d.links EXCEPT ![t][i] = registered]
    IN  IF d.failed \/ d.links[t][i] = NoBlock THEN [d EXCEPT !.failed = TRUE]
        ELSE IF registered = NoBlock THEN [d EXCEPT !.index[c] = old]
        ELSE IF registered = old THEN d
        ELSE [d EXCEPT !.links = newLinks,
                       !.blocks[i] = registered,
                       !.bitmap = IF ph_block_links(old, newLinks) = 1
                                  THEN @ \ {old} ELSE @]

deduplicate_blocks(t) ==
    LET start == [links |-> links, blocks |-> metadata[t].blocks,
                  index |-> hash_index, bitmap |-> bitmap, failed |-> FALSE]
        after[i \in 0..BlockCount(t)] ==
            IF i = 0 THEN start ELSE DeduplicateBlock(t, after[i - 1], i)
    IN  after[BlockCount(t)]

\* If the loop fails, its relinks and freed blocks stay, but neither the index
\* nor the metadata is saved.
execute_tag_commit(t) ==
    \/ (~Exists(t) \/ Closed(t)) /\ Refused
    \/ /\ Exists(t)
       /\ ~Committed(t)
       /\ LET d == deduplicate_blocks(t)
          IN  /\ links' = d.links
              /\ bitmap' = d.bitmap
              /\ \/ d.failed /\ UNCHANGED <<metadata, hash_index>>
                 \/ /\ ~d.failed
                    /\ hash_index' = d.index
                    /\ metadata' = [metadata EXCEPT ![t] = [blocks |-> d.blocks,
                                                            state |-> "COMMITTED"]]
       /\ answer' = <<>>
       /\ UNCHANGED <<directories, content>>

\* What the queries ask for: any request on any File:Tag, but TRUNCATE and
\* DELETE of a committed one only if ChangeCommitted.
Next ==
    \E t \in FileTags :
        \/ create_file(t)
        \/ (ChangeCommitted \/ ~Closed(t)) /\ delete_tag(t)
        \/ execute_tag_commit(t)
        \/ \E n \in 0..MaxBlocks :
              (ChangeCommitted \/ ~Closed(t)) /\ truncate_file(t, n)
        \/ \E dst \in FileTags : create_tag(t, dst)
        \/ \E i \in LogicalBlocks :
              \/ execute_block_read(t, i)
              \/ \E c \in Contents : execute_block_write(t, i, c)

Spec == Init /\ [][Next]_vars

-----------------------------------------------------------------------------
(* Properties.                                                             *)

\* Blocks some logical block links to.
Linked == {links[ti[1]][ti[2]] : ti \in FileTags \X LogicalBlocks} \ {NoBlock}

\* The bitmap marks, of the blocks that exist, exactly those in use: none is
\* handed out twice and none is lost, whatever was shared, copied,
\* deduplicated or deleted.
BitmapExact == bitmap \cap Blocks = Linked

\* Every block the metadata lists has its link, to the block it names.
LinksMatchMetadata ==
    \A t \in FileTags, i \in LogicalBlocks :
        links[t][i] = IF Exists(t) /\ i <= BlockCount(t)
                      THEN metadata[t].blocks[i] ELSE NoBlock

\* The hash index names, for every content, a block that holds it: what
\* COMMIT takes for a duplicate is one.
IndexCurrent ==
    \A c \in Contents : hash_index[c] # NoBlock => content[hash_index[c]] = c

\* The data of a File:Tag as READ_BLOCK returns it.
DataOf(t) ==
    [i \in 1..BlockCount(t) |->
        IF links[t][i] = NoBlock THEN NoBlock ELSE content[links[t][i]]]

\* COMMIT closes a File:Tag and rearranges its blocks, but never changes what
\* they hold.
CommitKeepsData ==
    [][\A t \in FileTags :
          (Exists(t) /\ ~Committed(t) /\ Closed(t)') => DataOf(t)' = DataOf(t)]_vars

\* The File:Tags as Workers know them, without blocks that are shared.
FS == INSTANCE FileStore WITH
          files <- [t \in FileTags |->
                      IF Exists(t) THEN [data |-> DataOf(t), committed |-> Committed(t)]
                                   ELSE NoFile]
=============================================================================
