--------------------------- MODULE StorageThreads ---------------------------
(***************************************************************************)
(* The requests of several Workers to the Storage.  handle_client runs one *)
(* thread per Worker, the file locks are commented out, and what keeps     *)
(* threads apart is one mutex for the bitmap and one for the hash index.   *)
(* A step is one access to what the threads share: a file read or written  *)
(* as a whole, a link made or removed, a block read or written.  The       *)
(* Storage may stop between two steps and start again on what it finds     *)
(* (FRESH_START=FALSE).                                                    *)
(*                                                                         *)
(* The disk is that of module Storage; its requests in one step are not    *)
(* used here.                                                              *)
(***************************************************************************)
EXTENDS Storage

CONSTANTS
    Workers,     \* each has one thread of handle_client
    Deployments, \* which Worker's queries change which File:Tag
    MaxStops,    \* most times the Storage stops and starts again
    StopsBeside, \* it may also stop where several Workers change File:Tags
    FreesRace,   \* requests that free blocks run beside others
    Free,        \* the mutex is not locked
    Waiting      \* the thread waits for a request

\* The calls of the requests that reach what the threads share.
CallNames ==
    {"mkdir", "cp -rl", "create_metadata", "link", "delete_logical_block", "stat",
     "modify_bitmap_bits", "fclose", "delete_file_dir_structure", "save_file_metadata",
     "ph_block_links", "remove", "bitmap_load", "bitmap_persist", "create_new_hardlink",
     "fopen", "access", "config_create", "read_block_content", "relink", "config_save"}

\* What a thread keeps of its request, see Request.
ThreadRecords ==
    [op : {"CREATE", "TAG", "DELETE", "TRUNCATE", "COMMIT", "WRITE", "READ"},
     t : FileTags, from : FileTags, i : 1..MaxBlocks + 1, c : Contents,
     n : 0..MaxBlocks, pc : CallNames, blocks : Seq(Blocks),
     state : {"WORK_IN_PROGRESS", "COMMITTED"},
     block : (0..BitmapBits - 1) \cup {NoBlock}, buffer : SUBSET (0..BitmapBits - 1),
     index : {<<>>} \cup [Contents -> Blocks \cup {NoBlock}],
     before : {NoFile} \cup [data : Seq(Contents \cup {NoBlock}), committed : BOOLEAN]]

ASSUME ThreadsAssumption ==
    /\ Deployments \subseteq [FileTags -> Workers]
    /\ MaxStops \in Nat
    /\ StopsBeside \in BOOLEAN
    /\ FreesRace \in BOOLEAN
    /\ Free \notin Workers
    /\ Waiting \notin ThreadRecords

VARIABLES
    owner,        \* the Worker whose queries change a File:Tag
    tag_dirs,     \* the directories files/<file>/<tag>
    thread,       \* the request each thread is executing, or Waiting
    bitmap_mutex, \* g_storage_bitmap_mutex: who holds it
    index_mutex,  \* g_blocks_hash_index_mutex
    stops,        \* how often the Storage stopped
    lost,         \* a WRITE_BLOCK has lost its block: there was none for the copy
    survivors     \* the File:Tags that were committed when it first stopped,
                  \* if no block was lost before

all_vars == <<vars, owner, tag_dirs, thread, bitmap_mutex, index_mutex, stops,
              lost, survivors>>

ThreadsInit ==
    /\ Init
    /\ owner \in Deployments
    /\ tag_dirs = {Protected}
    /\ thread = [w \in Workers |-> Waiting]
    /\ bitmap_mutex = Free
    /\ index_mutex = Free
    /\ stops = 0
    /\ lost = FALSE
    /\ survivors = {}

-----------------------------------------------------------------------------
(* Requests and their threads.                                             *)

\* What a File:Tag holds, for FileStore.
Stored(t) == IF Exists(t) THEN [data |-> DataOf(t), committed |-> Committed(t)]
                          ELSE NoFile

\* A request: op on File:Tag t, `from` the source of a TAG, the logical block
\* i and data c of an access, the number n of blocks of a TRUNCATE.  The
\* thread keeps in pc the next call it makes, in blocks and state its copy of
\* the metadata, in block a physical block, in buffer its copy of the bitmap
\* and in index that of the hash index.  `before` is what t held at the start,
\* for the properties.
Request(op, t, from, i, c, n) ==
    [op |-> op, t |-> t, from |-> from, i |-> i, c |-> c, n |-> n,
     pc |-> "", blocks |-> <<>>, state |-> "WORK_IN_PROGRESS",
     block |-> NoBlock, buffer |-> {}, index |-> <<>>, before |-> Stored(t)]

Requests ==
    {Request(op, t, t, 1, Zeros, 0) :
        op \in {"CREATE", "DELETE", "COMMIT"}, t \in FileTags}
    \cup {Request("TAG", t, s, 1, Zeros, 0) : t \in FileTags, s \in FileTags}
    \cup {Request("TRUNCATE", t, t, 1, Zeros, n) : t \in FileTags, n \in 0..MaxBlocks}
    \cup {Request("READ", t, t, i, Zeros, 0) : t \in FileTags, i \in LogicalBlocks}
    \cup {Request("WRITE", t, t, i, c, 0) :
             t \in FileTags, i \in LogicalBlocks, c \in Contents}

Busy(w) == thread[w] # Waiting

\* The thread of w is about to make the call pc.
Calls(w, pc) == Busy(w) /\ thread[w].pc = pc

\* The request goes on as r, or is answered: with data, or else with a status.
GoesOn(w, r) == thread' = [thread EXCEPT ![w] = r] /\ UNCHANGED answer
Answers(w, data) == thread' = [thread EXCEPT ![w] = Waiting] /\ answer' = data
Ends(w) == Answers(w, <<>>)

SameMutexes == UNCHANGED <<bitmap_mutex, index_mutex>>

At(r, pc) == [r EXCEPT !.pc = pc]

\* Mutant: the last of the new blocks gets no link.
LinkFromOneShort(r, i) ==
    [r EXCEPT !.i = i, !.pc = IF i < r.n THEN "link" ELSE "save_file_metadata"]

\* The loops over logical blocks: the next one, or what follows the last.
LinkFrom(r, i) ==
    [r EXCEPT !.i = i, !.pc = IF i <= r.n THEN "link" ELSE "save_file_metadata"]

DeleteFrom(r, i) ==
    [r EXCEPT !.i = i,
              !.pc = IF i <= Len(r.blocks) THEN "delete_logical_block"
                     ELSE IF r.op = "DELETE" THEN "delete_file_dir_structure"
                     ELSE "save_file_metadata"]

DeduplicateFrom(r, i) ==
    [r EXCEPT !.i = i,
              !.pc = IF i <= Len(r.blocks) THEN "read_block_content" ELSE "config_save"]

NextTurn(r) == IF r.op = "COMMIT" THEN DeduplicateFrom(r, r.i + 1)
                                  ELSE DeleteFrom(r, r.i + 1)

-----------------------------------------------------------------------------
(* The steps of a request.                                                 *)

\* What a request is refused for when its metadata is read; CREATE looks at
\* the directory instead.
Rejected(r) ==
    CASE r.op = "CREATE" -> r.t \in tag_dirs
      [] r.op = "TAG" -> Exists(r.t) \/ ~Exists(r.from)
      [] r.op = "DELETE" -> r.t = Protected \/ ~Exists(r.t)
      [] r.op = "TRUNCATE" -> ~Exists(r.t)
      [] r.op = "COMMIT" -> ~Exists(r.t) \/ Closed(r.t)
      [] r.op = "WRITE" -> ~Exists(r.t) \/ Closed(r.t) \/ r.i > BlockCount(r.t)
      [] r.op = "READ" -> ~Exists(r.t) \/ r.i > BlockCount(r.t)

\* The request with its copy of the metadata, before its next call.
Begun(r) ==
    LET q == IF r.op = "CREATE" THEN r
             ELSE [r EXCEPT !.blocks = metadata[r.from].blocks,
                            !.state = metadata[r.from].state]
        count == Len(q.blocks)
    IN  CASE r.op \in {"CREATE", "TAG"} -> At(q, "mkdir")
          [] r.op = "DELETE" -> DeleteFrom(q, 1)
          [] r.op = "TRUNCATE" -> IF r.n < count THEN DeleteFrom(q, r.n + 1)
                                                 ELSE LinkFrom(q, count + 1)
          [] r.op = "COMMIT" -> At(q, IF count = 0 THEN "save_file_metadata"
                                                   ELSE "config_create")
          [] r.op = "WRITE" -> At(q, "ph_block_links")
          [] r.op = "READ" -> At(q, "fopen")

\* CREATE makes the directory of the File too, TAG needs it and does not mind
\* if its own is there.
mkdir(w) ==
    LET r == thread[w]
    IN  /\ Calls(w, "mkdir")
        /\ \/ /\ r.op = "TAG"
              /\ FileOf(r.t) \notin directories
              /\ Ends(w)
              /\ UNCHANGED <<directories, tag_dirs>>
           \/ /\ r.op = "CREATE" \/ FileOf(r.t) \in directories
              /\ directories' = directories \cup {FileOf(r.t)}
              /\ tag_dirs' = tag_dirs \cup {r.t}
              /\ GoesOn(w, At(r, IF r.op = "TAG" THEN "cp -rl" ELSE "create_metadata"))
        /\ UNCHANGED <<metadata, links, bitmap, content, hash_index>>
        /\ SameMutexes

\* cp -rl of the logical blocks.  It keeps the links it finds, and fails if
\* one of them is to another block.
CopyLinks(w) ==
    LET r == thread[w]
        Clash == \E i \in LogicalBlocks :
                    NoBlock # links[r.from][i] /\ links[r.t][i] \notin {NoBlock, links[r.from][i]}
    IN  /\ Calls(w, "cp -rl")
        /\ links' = [links EXCEPT ![r.t] = [i \in LogicalBlocks |->
                        IF links[r.t][i] = NoBlock THEN links[r.from][i] ELSE links[r.t][i]]]
        /\ \/ ~Clash /\ GoesOn(w, At(r, "create_metadata"))
           \/ Clash /\ Ends(w)
        /\ UNCHANGED <<metadata, directories, tag_dirs, bitmap, content, hash_index>>
        /\ SameMutexes

create_metadata(w) ==
    LET r == thread[w]
    IN  /\ Calls(w, "create_metadata")
        /\ metadata' = [metadata EXCEPT ![r.t] = [blocks |-> r.blocks,
                                                  state |-> "WORK_IN_PROGRESS"]]
        /\ Ends(w)
        /\ UNCHANGED <<links, directories, tag_dirs, bitmap, content, hash_index>>
        /\ SameMutexes

\* A link and nothing else changes.
Linking(t, i, p) ==
    /\ links' = [links EXCEPT ![t][i] = p]
    /\ UNCHANGED <<metadata, directories, tag_dirs, bitmap, content, hash_index>>

\* TRUNCATE to more blocks: one more link to block 0.
LinkZero(w) ==
    LET r == thread[w]
    IN  /\ Calls(w, "link")
        /\ \/ /\ links[r.t][r.i] = NoBlock
              /\ Linking(r.t, r.i, 0)
              /\ GoesOn(w, LinkFrom(r, r.i + 1))
           \/ /\ links[r.t][r.i] # NoBlock
              /\ Ends(w)
              /\ UNCHANGED <<disk, tag_dirs>>
        /\ SameMutexes

\* The link of the block is removed.  If there is none, DELETE fails and
\* TRUNCATE goes on to the next.
delete_logical_block(w) ==
    LET r == thread[w]
    IN  /\ Calls(w, "delete_logical_block")
        /\ \/ /\ links[r.t][r.i] # NoBlock
              /\ Linking(r.t, r.i, NoBlock)
              /\ GoesOn(w, [r EXCEPT !.pc = "stat", !.block = r.blocks[r.i]])
           \/ /\ links[r.t][r.i] = NoBlock
              /\ \/ r.op = "DELETE" /\ Ends(w)
                 \/ r.op = "TRUNCATE" /\ GoesOn(w, NextTurn(r))
              /\ UNCHANGED <<disk, tag_dirs>>
        /\ SameMutexes

\* Mutant: no block is found unused.
UnusedNever(p) == FALSE

\* Only the block's own name is left.
Unused(p) == ph_block_links(p, links) = 1

\* The block a request gave up is freed if it is unused: by
\* free_ph_block_if_unused in COMMIT, by modify_bitmap_bits otherwise.
CheckUnused(w) ==
    LET r == thread[w]
    IN  /\ Calls(w, "stat")
        /\ GoesOn(w, IF ~Unused(r.block) THEN NextTurn(r)
                     ELSE At(r, IF r.op = "COMMIT" THEN "bitmap_load"
                                                   ELSE "modify_bitmap_bits"))
        /\ UNCHANGED <<disk, tag_dirs>>
        /\ SameMutexes

\* The bitmap is read and the bit cleared with the mutex held.  What fwrite
\* leaves in its buffer, which is larger than the bitmap, reaches the disk
\* with the fclose that follows the unlock.
modify_bitmap_bits(w) ==
    LET r == thread[w]
    IN  /\ Calls(w, "modify_bitmap_bits")
        /\ bitmap_mutex = Free
        /\ GoesOn(w, [r EXCEPT !.pc = "fclose", !.buffer = bitmap \ {r.block}])
        /\ UNCHANGED <<disk, tag_dirs>>
        /\ SameMutexes

fclose(w) ==
    LET r == thread[w]
    IN  /\ Calls(w, "fclose")
        /\ bitmap' = r.buffer
        /\ GoesOn(w, [NextTurn(r) EXCEPT !.buffer = {}])
        /\ UNCHANGED <<metadata, links, directories, tag_dirs, content, hash_index>>
        /\ SameMutexes

delete_file_dir_structure(w) ==
    LET r == thread[w]
    IN  /\ Calls(w, "delete_file_dir_structure")
        /\ metadata' = [metadata EXCEPT ![r.t] = NoFile]
        /\ links' = [links EXCEPT ![r.t] = NoLinks]
        /\ tag_dirs' = tag_dirs \ {r.t}
        /\ Ends(w)
        /\ UNCHANGED <<directories, bitmap, content, hash_index>>
        /\ SameMutexes

\* The whole metadata is written, as the request has it.
save_file_metadata(w) ==
    LET r == thread[w]
        blocks == IF r.op # "TRUNCATE" THEN r.blocks
                  ELSE [k \in 1..r.n |-> IF k <= Len(r.blocks) THEN r.blocks[k] ELSE 0]
        state == IF r.op = "COMMIT" THEN "COMMITTED" ELSE r.state
    IN  /\ Calls(w, "save_file_metadata")
        /\ metadata' = [metadata EXCEPT ![r.t] = [blocks |-> blocks, state |-> state]]
        /\ \/ r.op = "WRITE" /\ GoesOn(w, At(r, "fopen"))
           \/ r.op # "WRITE" /\ Ends(w)
        /\ UNCHANGED <<links, directories, tag_dirs, bitmap, content, hash_index>>
        /\ SameMutexes

\* WRITE_BLOCK looks whether others share the block; only then it is copied.
CheckShared(w) ==
    LET r == thread[w]
    IN  /\ Calls(w, "ph_block_links")
        /\ \/ links[r.t][r.i] = NoBlock /\ Ends(w)
           \/ /\ links[r.t][r.i] # NoBlock
              /\ GoesOn(w, At(r, IF Shared(links[r.t][r.i]) THEN "remove" ELSE "fopen"))
        /\ UNCHANGED <<disk, tag_dirs>>
        /\ SameMutexes

\* The link to the shared block, or to the duplicate, is removed.
RemoveLink(w) ==
    LET r == thread[w]
    IN  /\ Calls(w, "remove")
        /\ Linking(r.t, r.i, NoBlock)
        /\ GoesOn(w, At(r, IF r.op = "WRITE" THEN "bitmap_load" ELSE "relink"))
        /\ SameMutexes

\* Mutant: the mutex is not taken.
BitmapUnlocked(w) == UNCHANGED bitmap_mutex

BitmapLocked(w) == bitmap_mutex' = w

\* Mutant: the mutex stays locked.
NoSpaceLocked(w) == Ends(w) /\ bitmap_mutex' = w

NoSpace(w) == Ends(w) /\ UNCHANGED bitmap_mutex

\* The bitmap is read, and the mutex stays locked.  A WRITE takes the first
\* free block, or fails and unlocks if there is none; a COMMIT frees a block.
bitmap_load(w) ==
    LET r == thread[w]
        p == IF r.op = "COMMIT" THEN r.block ELSE get_free_bit_index
        buffer == IF r.op = "COMMIT" THEN bitmap \ {p} ELSE bitmap \cup {p}
    IN  /\ Calls(w, "bitmap_load")
        /\ bitmap_mutex = Free
        /\ \/ p = NoBlock /\ NoSpace(w)
           \/ /\ p # NoBlock
              /\ BitmapLocked(w)
              /\ GoesOn(w, [r EXCEPT !.pc = "bitmap_persist", !.block = p,
                                     !.buffer = buffer])
        /\ UNCHANGED <<disk, tag_dirs, index_mutex>>

bitmap_persist(w) ==
    LET r == [thread[w] EXCEPT !.buffer = {}]
    IN  /\ Calls(w, "bitmap_persist")
        /\ bitmap' = thread[w].buffer
        /\ bitmap_mutex' = Free
        /\ GoesOn(w, IF r.op = "COMMIT" THEN NextTurn(r) ELSE At(r, "create_new_hardlink"))
        /\ UNCHANGED <<metadata, links, directories, tag_dirs, content, hash_index,
                       index_mutex>>

\* The copy gets its link, unless its number is beyond the blocks there are.
create_new_hardlink(w) ==
    LET r == thread[w]
    IN  /\ Calls(w, "create_new_hardlink")
        /\ \/ /\ r.block \in Blocks
              /\ Linking(r.t, r.i, r.block)
              /\ GoesOn(w, [r EXCEPT !.pc = "save_file_metadata",
                                     !.blocks[r.i] = r.block])
           \/ /\ r.block \notin Blocks
              /\ Ends(w)
              /\ UNCHANGED <<disk, tag_dirs>>
        /\ SameMutexes

\* The block is opened by the name of the link.
OpenBlock(w) ==
    LET r == thread[w]
    IN  /\ Calls(w, "fopen")
        /\ \/ links[r.t][r.i] = NoBlock /\ Ends(w)
           \/ /\ links[r.t][r.i] # NoBlock
              /\ GoesOn(w, [r EXCEPT !.pc = "access", !.block = links[r.t][r.i]])
        /\ UNCHANGED <<disk, tag_dirs>>
        /\ SameMutexes

\* After BLOCK_ACCESS_DELAY the open block is written or read.
AccessBlock(w) ==
    LET r == thread[w]
    IN  /\ Calls(w, "access")
        /\ \/ /\ r.op = "WRITE"
              /\ content' = [content EXCEPT ![r.block] = r.c]
              /\ Ends(w)
           \/ /\ r.op = "READ"
              /\ Answers(w, <<content[r.block]>>)
              /\ UNCHANGED content
        /\ UNCHANGED <<metadata, links, directories, tag_dirs, bitmap, hash_index>>
        /\ SameMutexes

\* deduplicate_blocks holds its mutex from the load of the index to its save.
LoadIndex(w) ==
    LET r == [thread[w] EXCEPT !.index = hash_index]
    IN  /\ Calls(w, "config_create")
        /\ index_mutex = Free
        /\ index_mutex' = w
        /\ GoesOn(w, DeduplicateFrom(r, 1))
        /\ UNCHANGED <<disk, tag_dirs, bitmap_mutex>>

read_block_content(r) == content[links[r.t][r.i]]

\* The content of the block is registered, or another block is registered
\* for it and the link is to change.
LookUp(w) ==
    LET r == thread[w]
        p == r.blocks[r.i]
        c == read_block_content(r)
    IN  /\ Calls(w, "read_block_content")
        /\ \/ /\ links[r.t][r.i] = NoBlock
              /\ Ends(w)
              /\ index_mutex' = Free
           \/ /\ links[r.t][r.i] # NoBlock
              /\ GoesOn(w, IF r.index[c] = NoBlock THEN NextTurn([r EXCEPT !.index[c] = p])
                           ELSE IF r.index[c] = p THEN NextTurn(r)
                           ELSE [r EXCEPT !.pc = "remove", !.block = p, !.c = c])
              /\ UNCHANGED index_mutex
        /\ UNCHANGED <<disk, tag_dirs, bitmap_mutex>>

update_logical_block_link(w) ==
    LET r == thread[w]
        registered == r.index[r.c]
    IN  /\ Calls(w, "relink")
        /\ Linking(r.t, r.i, registered)
        /\ GoesOn(w, [r EXCEPT !.pc = "stat", !.blocks[r.i] = registered])
        /\ SameMutexes

SaveIndex(w) ==
    LET r == thread[w]
    IN  /\ Calls(w, "config_save")
        /\ hash_index' = r.index
        /\ index_mutex' = Free
        /\ GoesOn(w, [r EXCEPT !.pc = "save_file_metadata", !.index = <<>>])
        /\ UNCHANGED <<metadata, links, directories, tag_dirs, bitmap, content,
                       bitmap_mutex>>

-----------------------------------------------------------------------------
(* The Storage and its Workers.                                            *)

\* DELETE and TRUNCATE to fewer blocks.
Frees(r) ==
    \/ r.op = "DELETE"
    \/ r.op = "TRUNCATE" /\ Exists(r.t) /\ r.n < BlockCount(r.t)

\* What the queries leave to each other: a File:Tag is changed by the queries
\* of one Worker, and others read or tag it once it is committed and is not
\* changed any more.
Allowed(w, r) ==
    /\ r.op # "READ" => owner[r.t] = w
    /\ owner[r.from] = w \/ Closed(r.from)
    /\ r.op \in {"TRUNCATE", "DELETE"} => ChangeCommitted \/ ~Closed(r.t)
    /\ \/ FreesRace
       \/ \A v \in Workers : Busy(v) => ~Frees(r) /\ ~Frees(thread[v])

handle_client(w) ==
    /\ ~Busy(w)
    /\ \E r \in Requests :
          /\ Allowed(w, r)
          /\ IF Rejected(r) THEN Ends(w) ELSE GoesOn(w, Begun(r))
    /\ UNCHANGED <<disk, tag_dirs>>
    /\ SameMutexes

Step(w) ==
    \/ mkdir(w) \/ CopyLinks(w) \/ create_metadata(w)
    \/ LinkZero(w) \/ delete_logical_block(w) \/ CheckUnused(w)
    \/ modify_bitmap_bits(w) \/ fclose(w) \/ delete_file_dir_structure(w)
    \/ save_file_metadata(w) \/ CheckShared(w) \/ RemoveLink(w) \/ bitmap_load(w)
    \/ bitmap_persist(w) \/ create_new_hardlink(w) \/ OpenBlock(w) \/ AccessBlock(w)
    \/ LoadIndex(w) \/ LookUp(w) \/ update_logical_block_link(w) \/ SaveIndex(w)

\* No request has failed halfway: neither by a stop nor for want of a block.
Undisturbed == stops = 0 /\ ~lost

OneWriter == \A t, u \in FileTags : owner[t] = owner[u]

\* The Storage stops in the middle of requests and starts again: the disk is
\* left as it is.  StopsBeside = FALSE bounds this to deployments in which one
\* Worker changes File:Tags; nothing in the code does.
Restart ==
    /\ StopsBeside \/ OneWriter
    /\ stops < MaxStops
    /\ \E w \in Workers : Busy(w)
    /\ stops' = stops + 1
    /\ survivors' = IF Undisturbed THEN {t \in FileTags : Closed(t)} ELSE survivors
    /\ thread' = [w \in Workers |-> Waiting]
    /\ bitmap_mutex' = Free
    /\ index_mutex' = Free
    /\ answer' = <<>>
    /\ UNCHANGED <<disk, tag_dirs, owner, lost>>

\* The WRITE of w ends without a copy, after it removed the link.
LosesBlock(w) ==
    /\ Calls(w, "bitmap_load") \/ Calls(w, "create_new_hardlink")
    /\ thread'[w] = Waiting

ThreadsNext ==
    \/ Restart
    \/ \E w \in Workers : /\ handle_client(w) \/ Step(w)
                         /\ lost' = (lost \/ LosesBlock(w))
                         /\ UNCHANGED <<owner, stops, survivors>>

ThreadsSpec == ThreadsInit /\ [][ThreadsNext]_all_vars

-----------------------------------------------------------------------------
(* Properties.                                                             *)

\* Blocks that a request has taken and not linked yet.
Reserved(w) ==
    IF Calls(w, "create_new_hardlink") THEN {thread[w].block} ELSE {}

\* A block in use is marked in the bitmap at every moment, and a block is
\* taken by one request only: none is handed out twice.  After a stop this
\* still holds of the blocks of what was committed before it.
BlocksKept ==
    /\ \A t \in survivors : {links[t][i] : i \in 1..BlockCount(t)} \subseteq bitmap
    /\ Undisturbed =>
          /\ Linked \subseteq bitmap
          /\ \A w \in Workers :
                /\ Reserved(w) \subseteq bitmap \ Linked
                /\ \A v \in Workers \ {w} : Reserved(v) \cap Reserved(w) = {}

\* A committed File:Tag reads the same, through all steps of all requests and
\* after the Storage was stopped in the middle of any of them; what is
\* committed only after a stop is not covered, see the README.
CommittedKept ==
    [][\A t \in FileTags :
          (Closed(t) /\ (Undisturbed' \/ t \in survivors')) =>
              Exists(t)' /\ DataOf(t)' = DataOf(t)]_all_vars

\* A mutex is held only by a request that is going to unlock it: the one of
\* the bitmap between load and persist, where nothing is waited for, that of
\* the index by a COMMIT, which waits for the bitmap only.  No error path
\* leaves a mutex locked, and the two are never waited for in a circle.
MutexesReleased ==
    /\ bitmap_mutex # Free => Calls(bitmap_mutex, "bitmap_persist")
    /\ index_mutex # Free => /\ Busy(index_mutex)
                             /\ thread[index_mutex].op = "COMMIT"
                             /\ ~Calls(index_mutex, "save_file_metadata")

\* Whatever requests ran beside each other, once none is running the bitmap
\* marks exactly the blocks in use, and links and metadata agree, unless the
\* Storage was stopped or is full.
QuietDiskExact ==
    (Undisturbed /\ \A w \in Workers : ~Busy(w)) => BitmapExact /\ LinksMatchMetadata

\* The Storage as Workers see it: a request shows when it is answered.
Shown(t) ==
    IF \E w \in Workers : Busy(w) /\ thread[w].t = t /\ thread[w].op # "READ"
    THEN (CHOOSE r \in {thread[w] : w \in Workers} :
             r # Waiting /\ r.t = t /\ r.op # "READ").before
    ELSE Stored(t)

ShownFiles == [t \in FileTags |-> Shown(t)]
Served == INSTANCE FileStore WITH files <- ShownFiles

\* The requests of Workers that keep to their own File:Tags are atomic: until
\* one fails halfway, each answer is the step of FileStore its request asks for,
\* and no step before it, nor any step of another Worker, shows.
RequestsAtomic ==
    [][Undisturbed' => Served!Next \/ UNCHANGED <<ShownFiles, answer>>]_all_vars
=============================================================================
