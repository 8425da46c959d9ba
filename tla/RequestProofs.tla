---------------------------- MODULE RequestProofs ----------------------------
(***************************************************************************)
(* Requests of the Storage that are served at the same time, one system    *)
(* call at a time, for any number of Workers, File:Tags, blocks and        *)
(* contents.  Requests that keep to their own File:Tags leave every block  *)
(* accounted for and committed data unchanged, stops of the Storage        *)
(* included, and are atomic: every answer is one step of FileStore.        *)
(***************************************************************************)
EXTENDS StorageProofs

-----------------------------------------------------------------------------
(* Whose File:Tags are changed, at any time.                               *)

\* What the request of w is about is left alone by the others: the File:Tag it
\* changes is the Worker's own and open, the one it reads is the Worker's own
\* or committed.
Owned(w) ==
    LET r == thread[w]
    IN  /\ r.op # "READ" => owner[r.t] = w /\ ~Closed(r.t)
        /\ owner[r.from] = w \/ Closed(r.from)
        /\ r.op # "TAG" => r.from = r.t
        /\ r.op \in {"CREATE", "TAG"} => ~Exists(r.t)
        /\ r.op # "CREATE" => Exists(r.from)
        /\ r.op \in {"WRITE", "TRUNCATE"} => r.state = "WORK_IN_PROGRESS"
        /\ r.pc \in {"cp -rl", "create_metadata"} => r.t \in tag_dirs

Ownership ==
    /\ \A t \in FileTags : Exists(t) => t \in tag_dirs
    /\ \A w \in Workers : Busy(w) => Owned(w)

FileKept(t) == metadata'[t] = metadata[t] /\ links'[t] = links[t]

\* The request of w changes t.
Modifies(w, t) == Busy(w) /\ thread[w].op # "READ" /\ thread[w].t = t

\* A step of w changes no File:Tag but that of its request.
OnlyOwn(w) == \A t \in FileTags : FileKept(t) \/ Modifies(w, t)

\* The request goes on with its arguments, or ends.
Continues(w) ==
    LET r == thread[w]
        q == thread'[w]
    IN  \/ q = Waiting
        \/ /\ r # Waiting /\ q \in ThreadRecords /\ Consistent(q)
           /\ q.op = r.op /\ q.t = r.t /\ q.from = r.from /\ q.n = r.n /\ q.state = r.state
           /\ q.before = r.before

\* What a step does to what all requests share.
Moves(w) ==
    /\ OnlyOwn(w) /\ Others(w)
    /\ \/ Continues(w)
       \/ /\ thread[w] = Waiting /\ UNCHANGED <<disk, tag_dirs>>
          /\ \E r \in Requests : Allowed(w, r) /\ ~Rejected(r) /\ Begins(thread'[w], r)
    /\ \/ content' = content
       \/ /\ Calls(w, "access") /\ thread[w].op = "WRITE" /\ thread'[w] = Waiting
          /\ content' = [content EXCEPT ![thread[w].block] = thread[w].c]
    /\ \/ bitmap' = bitmap
       \/ bitmap' = thread[w].buffer /\ (Calls(w, "fclose") \/ Calls(w, "bitmap_persist"))
    /\ hash_index' = hash_index \/ Calls(w, "config_save")

\* One link changes.
LEMMA OneLink ==
    ASSUME TypeOK, NEW t \in FileTags, NEW i \in LogicalBlocks, NEW p, Linking(t, i, p)
    PROVE  /\ \A u \in FileTags \ {t} : links'[u] = links[u]
           /\ \A k \in LogicalBlocks : links'[t][k] = IF k = i THEN p ELSE links[t][k]
           /\ UNCHANGED <<metadata, directories, tag_dirs, bitmap, content, hash_index>>
BY DEF TypeOK, Linking

\* All links of t change.
LEMMA AllLinks ==
    ASSUME TypeOK, NEW t \in FileTags, NEW f, links' = [links EXCEPT ![t] = f]
    PROVE  links'[t] = f /\ \A u \in FileTags \ {t} : links'[u] = links[u]
BY DEF TypeOK

\* The metadata of t changes.
LEMMA OneFileChanges ==
    ASSUME TypeOK, NEW t \in FileTags, NEW f, metadata' = [metadata EXCEPT ![t] = f]
    PROVE  metadata'[t] = f /\ \A u \in FileTags \ {t} : metadata'[u] = metadata[u]
BY DEF TypeOK

\* A request that goes on with another call.
LEMMA GoesContinues ==
    ASSUME NEW w, thread[w] \in ThreadRecords, thread[w] # Waiting, NEW pc, NEW i,
           Typed(thread'[w]), Goes(thread'[w], thread[w], pc, i)
    PROVE  Continues(w)
BY DEF Goes, Continues, Typed

\* A step is one of a request.
LEMMA StepBusy ==
    ASSUME NEW w, Step(w)
    PROVE  Busy(w)
BY DEF Step, mkdir, CopyLinks, create_metadata, LinkZero, delete_logical_block,
  CheckUnused, modify_bitmap_bits, fclose, delete_file_dir_structure, save_file_metadata,
  CheckShared, RemoveLink, bitmap_load, bitmap_persist, create_new_hardlink, OpenBlock,
  AccessBlock, LoadIndex, LookUp, update_logical_block_link, SaveIndex, Calls

\* Every step of a thread, as the others see it.
LEMMA StepMoves ==
    ASSUME ThreadTypes, NEW w \in Workers, handle_client(w) \/ Step(w)
    PROVE  Moves(w)
<1>1. PICK r, q : r = thread[w] /\ q = thread'[w]
  OBVIOUS
<1>2. Typed(q) /\ Others(w)
  BY <1>1, ThreadStepTypes DEF StepTypes
<1>3. TypeOK
  BY DEF ThreadTypes
<1>4. ASSUME UNCHANGED disk PROVE OnlyOwn(w) /\ UNCHANGED <<content, bitmap, hash_index>>
  BY <1>4 DEF disk, OnlyOwn, FileKept
<1>5. CASE handle_client(w)
  <2>1. /\ thread[w] = Waiting /\ UNCHANGED <<disk, tag_dirs>>
        /\ \/ q = Waiting
           \/ \E s \in Requests : Allowed(w, s) /\ ~Rejected(s) /\ Begins(q, s)
    BY <1>1, <1>5, HandleDone
  <2> QED
    BY <1>1, <1>2, <1>4, <2>1 DEF Moves, Continues
<1>6. CASE Step(w)
  <2>1. Busy(w) /\ r \in ThreadRecords /\ r # Waiting /\ r.t \in FileTags
    <3>1. Busy(w)
      BY <1>6, StepBusy
    <3> QED
      BY <1>1, <3>1 DEF Busy, ThreadTypes, ThreadRecords
  <2>2. ASSUME NEW pc, NEW i, Goes(q, r, pc, i) PROVE Continues(w)
    BY <1>1, <1>2, <2>1, <2>2, GoesContinues
  <2>3. ASSUME q = Waiting PROVE Continues(w)
    BY <1>1, <2>3 DEF Continues
  <2>4. ASSUME r.op # "READ", NEW i \in LogicalBlocks, NEW p, Linking(r.t, i, p)
        PROVE  OnlyOwn(w) /\ UNCHANGED <<content, bitmap, hash_index>>
    BY <1>1, <1>3, <2>1, <2>4, OneLink DEF OnlyOwn, FileKept, Modifies
  <2>5. ASSUME r.op # "READ", NEW f, links' = [links EXCEPT ![r.t] = f], metadata' = metadata
        PROVE  OnlyOwn(w)
    BY <1>1, <1>3, <2>1, <2>5, AllLinks DEF OnlyOwn, FileKept, Modifies
  <2>6. ASSUME r.op # "READ", NEW f, metadata' = [metadata EXCEPT ![r.t] = f],
               links' = links \/ \E g : links' = [links EXCEPT ![r.t] = g]
        PROVE  OnlyOwn(w)
    <3>1. \A u \in FileTags \ {r.t} : metadata'[u] = metadata[u] /\ links'[u] = links[u]
      BY <1>3, <2>1, <2>6, AllLinks, OneFileChanges
    <3> QED
      BY <1>1, <2>1, <2>6, <3>1 DEF OnlyOwn, FileKept, Modifies
  <2>7. ASSUME UNCHANGED <<metadata, links>> PROVE OnlyOwn(w)
    BY <2>7 DEF OnlyOwn, FileKept
  <2>10. CASE mkdir(w)
    <3>0. PICK pc : pc = IF r.op = "TAG" THEN "cp -rl" ELSE "create_metadata"
      OBVIOUS
    <3>1. /\ UNCHANGED <<metadata, links, bitmap, content, hash_index>>
          /\ q = Waiting \/ Goes(q, r, pc, r.i)
      BY <1>1, <2>10, <3>0, MkdirDone
    <3>2. Continues(w)
      BY <2>2, <2>3, <3>1
    <3> QED
      BY <1>2, <2>7, <3>1, <3>2 DEF Moves
  <2>11. CASE CopyLinks(w)
    BY <1>1, <1>2, <2>2, <2>3, <2>5, <2>11, CopyLinksDone DEF Moves
  <2>12. CASE create_metadata(w)
    BY <1>1, <1>2, <2>3, <2>6, <2>12, CreateMetadataDone DEF Moves
  <2>13. CASE LinkZero(w)
    BY <1>1, <1>2, <1>4, <2>2, <2>3, <2>4, <2>13, LinkZeroDone DEF Moves
  <2>14. CASE delete_logical_block(w)
    <3>1. r.i \in LogicalBlocks
      BY <1>1, <2>1, <2>14, CallOf, BlockOf DEF delete_logical_block, PerBlock
    <3> QED
      BY <1>1, <1>2, <1>4, <2>2, <2>3, <2>4, <2>14, <3>1, DeleteBlockDone DEF Moves
  <2>15. CASE CheckUnused(w)
    BY <1>1, <1>2, <1>4, <2>2, <2>15, CheckUnusedDone DEF Moves
  <2>16. CASE modify_bitmap_bits(w)
    BY <1>1, <1>2, <1>4, <2>2, <2>16, ModifyBitmapDone DEF Moves
  <2>17. CASE fclose(w)
    BY <1>1, <1>2, <2>2, <2>7, <2>17, FcloseDone DEF Moves, fclose
  <2>18. CASE delete_file_dir_structure(w)
    BY <1>1, <1>2, <2>3, <2>6, <2>18, DeleteStructureDone DEF Moves
  <2>19. CASE save_file_metadata(w)
    BY <1>1, <1>2, <2>2, <2>3, <2>6, <2>19, SaveMetadataDone DEF Moves
  <2>20. CASE CheckShared(w)
    BY <1>1, <1>2, <1>4, <2>2, <2>3, <2>20, CheckSharedDone DEF Moves
  <2>21. CASE RemoveLink(w)
    <3>1. r.i \in LogicalBlocks
      BY <1>1, <2>1, <2>21, CallOf, BlockOf DEF RemoveLink, PerBlock
    <3> QED
      BY <1>1, <1>2, <2>2, <2>4, <2>21, <3>1, RemoveLinkDone DEF Moves
  <2>22. CASE bitmap_load(w)
    BY <1>1, <1>2, <1>4, <2>2, <2>3, <2>22, BitmapLoadDone DEF Moves
  <2>23. CASE bitmap_persist(w)
    BY <1>1, <1>2, <2>2, <2>7, <2>23, BitmapPersistDone DEF Moves, bitmap_persist
  <2>24. CASE create_new_hardlink(w)
    <3>1. r.i \in LogicalBlocks
      BY <1>1, <2>1, <2>24, CallOf, BlockOf DEF create_new_hardlink, PerBlock
    <3> QED
      BY <1>1, <1>2, <1>4, <2>2, <2>3, <2>4, <2>24, <3>1, HardlinkDone DEF Moves
  <2>25. CASE OpenBlock(w)
    BY <1>1, <1>2, <1>4, <2>2, <2>3, <2>25, OpenBlockDone DEF Moves
  <2>26. CASE AccessBlock(w)
    BY <1>1, <1>2, <2>3, <2>7, <2>26, AccessBlockDone DEF Moves, AccessBlock
  <2>27. CASE LoadIndex(w)
    BY <1>1, <1>2, <1>4, <2>2, <2>27, LoadIndexDone DEF Moves
  <2>28. CASE LookUp(w)
    <3>1. PICK c : c = read_block_content(r)
      OBVIOUS
    <3>2. LookUpOutcome(w, r, q, c)
      BY <1>1, <2>28, <3>1, LookUpDone
    <3> QED
      BY <1>2, <1>4, <2>2, <2>3, <3>2 DEF Moves, LookUpOutcome
  <2>29. CASE update_logical_block_link(w)
    <3>1. r.i \in LogicalBlocks
      BY <1>1, <2>1, <2>29, CallOf, BlockOf DEF update_logical_block_link, PerBlock
    <3> QED
      BY <1>1, <1>2, <2>2, <2>4, <2>29, <3>1, RelinkDone DEF Moves, RelinkOutcome
  <2>30. CASE SaveIndex(w)
    BY <1>1, <1>2, <2>2, <2>7, <2>30, SaveIndexDone DEF Moves, SaveIndex
  <2> QED
    BY <1>6, <2>10, <2>11, <2>12, <2>13, <2>14, <2>15, <2>16, <2>17, <2>18, <2>19, <2>20,
      <2>21, <2>22, <2>23, <2>24, <2>25, <2>26, <2>27, <2>28, <2>29, <2>30 DEF Step
<1> QED
  BY <1>5, <1>6

\* The File:Tag a request changes is no concern of the others.
LEMMA NotOthers ==
    ASSUME Ownership, NEW w \in Workers, NEW v \in Workers, v # w, Busy(v),
           NEW t, Modifies(w, t)
    PROVE  /\ thread[v].from # t /\ thread[v].t # t /\ ~Modifies(v, t)
           /\ owner[t] = w /\ ~Closed(t)
<1>1. owner[t] = w /\ ~Closed(t)
  BY DEF Ownership, Owned, Modifies
<1>2. /\ owner[thread[v].from] = v \/ Closed(thread[v].from)
      /\ thread[v].op # "READ" => owner[thread[v].t] = v
      /\ thread[v].op # "TAG" => thread[v].from = thread[v].t
  BY DEF Ownership, Owned
<1> QED
  BY <1>1, <1>2 DEF Modifies

\* So it is left as it is by the steps of others.
LEMMA OthersFiles ==
    ASSUME Ownership, NEW w \in Workers, OnlyOwn(w), NEW v \in Workers, v # w, Busy(v),
           thread[v] \in ThreadRecords
    PROVE  FileKept(thread[v].t) /\ FileKept(thread[v].from)
BY NotOthers DEF OnlyOwn, ThreadRecords

\* Committed File:Tags are left as they are.
LEMMA ClosedFiles ==
    ASSUME Ownership, NEW w \in Workers, OnlyOwn(w), NEW t \in FileTags, Closed(t)
    PROVE  FileKept(t) /\ Closed(t)' /\ ~Modifies(w, t)
<1>1. ~Modifies(w, t)
  BY DEF Ownership, Owned, Modifies
<1> QED
  BY <1>1 DEF OnlyOwn, FileKept, Closed, Exists, Committed

\* The steps that change metadata or directories.
MetadataStep(w) ==
    mkdir(w) \/ create_metadata(w) \/ delete_file_dir_structure(w) \/ save_file_metadata(w)

\* The others leave both.
LEMMA MetadataStays ==
    ASSUME NEW w, handle_client(w) \/ Step(w), ~MetadataStep(w)
    PROVE  UNCHANGED <<metadata, tag_dirs>>
BY DEF MetadataStep, handle_client, Step, CopyLinks, LinkZero, delete_logical_block,
  CheckUnused, modify_bitmap_bits, fclose, CheckShared, RemoveLink, bitmap_load,
  bitmap_persist, create_new_hardlink, OpenBlock, AccessBlock, LoadIndex, LookUp,
  update_logical_block_link, SaveIndex, Linking, disk

\* What the step of w does to its own File:Tag and directory.
OwnMove(w) ==
    /\ \A t \in FileTags : (t \in tag_dirs' <=> t \in tag_dirs) \/ Modifies(w, t)
    /\ \A t \in FileTags : Modifies(w, t) => (Exists(t)' => t \in tag_dirs')
    /\ Busy(w)' => Owned(w)'

\* The requests of a Worker are about its own File:Tags when they begin, ...
LEMMA HandleOwn ==
    ASSUME ThreadTypes, Ownership, ~ChangeCommitted, NEW w \in Workers, handle_client(w),
           UNCHANGED owner
    PROVE  OwnMove(w)
<1>1. PICK q : q = thread'[w]
  OBVIOUS
<1>2. /\ thread[w] = Waiting /\ UNCHANGED <<disk, tag_dirs>>
      /\ \/ q = Waiting
         \/ \E s \in Requests : Allowed(w, s) /\ ~Rejected(s) /\ Begins(q, s)
  BY <1>1, HandleDone
<1>3. ~Busy(w) /\ metadata' = metadata /\ tag_dirs' = tag_dirs
  BY <1>2 DEF Busy, disk
<1>4. ASSUME NEW s \in Requests, Allowed(w, s), ~Rejected(s), Begins(q, s)
      PROVE  /\ q.op # "READ" => owner[q.t] = w /\ ~Closed(q.t)
             /\ owner[q.from] = w \/ Closed(q.from)
             /\ q.op # "TAG" => q.from = q.t
             /\ q.op \in {"CREATE", "TAG"} => ~Exists(q.t)
             /\ q.op # "CREATE" => Exists(q.from)
             /\ q.op \in {"WRITE", "TRUNCATE"} => q.state = "WORK_IN_PROGRESS"
             /\ q.pc \notin {"cp -rl", "create_metadata"}
  <2>1. /\ Received(s) /\ (s.op # "TAG" => s.from = s.t) /\ s.state = "WORK_IN_PROGRESS"
        /\ s.op \in Operations /\ s.t \in FileTags /\ s.from \in FileTags
    BY RequestReceived DEF Received
  <2>2. /\ q \in ThreadRecords /\ q.op = s.op /\ q.t = s.t /\ q.from = s.from
        /\ q.op # "CREATE" => Exists(q.from) /\ q.state = metadata[q.from].state
    BY <1>4 DEF Begins
  <2>3. /\ q.op # "READ" => owner[q.t] = w
        /\ owner[q.from] = w \/ Closed(q.from)
        /\ q.op \in {"TRUNCATE", "DELETE"} => ~Closed(q.t)
    BY <1>4, <2>2 DEF Allowed
  <2>4. q.op \in {"CREATE", "TAG"} => ~Exists(q.t)
    <3>1. q.op = "CREATE" => q.t \notin tag_dirs
      BY <1>4, <2>2 DEF Rejected
    <3>2. q.op = "TAG" => ~Exists(q.t)
      BY <1>4, <2>2 DEF Rejected
    <3> QED
      BY <3>1, <3>2, <2>1, <2>2 DEF Ownership
  <2>5. q.op \in {"COMMIT", "WRITE"} => ~Closed(q.t)
    <3>1. q.op = "COMMIT" => ~Closed(q.t)
      BY <1>4, <2>2 DEF Rejected
    <3>2. q.op = "WRITE" => ~Closed(q.t)
      BY <1>4, <2>2 DEF Rejected
    <3> QED
      BY <3>1, <3>2
  <2>6. q.op # "READ" => ~Closed(q.t)
    BY <2>1, <2>2, <2>3, <2>4, <2>5 DEF Operations, Closed
  <2>7. q.op \in {"WRITE", "TRUNCATE"} => q.state = "WORK_IN_PROGRESS"
    <3>1. ASSUME q.op \in {"WRITE", "TRUNCATE"} PROVE q.state = "WORK_IN_PROGRESS"
      <4>1. q.from = q.t /\ Exists(q.t) /\ ~Closed(q.t) /\ q.state = metadata[q.t].state
        BY <2>1, <2>2, <2>6, <3>1
      <4>2. TypeOK
        BY DEF ThreadTypes
      <4>3. metadata[q.t].state \in {"WORK_IN_PROGRESS", "COMMITTED"}
        BY <2>1, <2>2, <4>1, <4>2, FileType
      <4> QED
        BY <4>1, <4>3 DEF Closed, Committed
    <3> QED
      BY <3>1
  <2>8. q.pc \notin {"cp -rl", "create_metadata"}
    BY <1>4, <2>1, <2>2 DEF Begins, Operations, AfterDelete
  <2> QED
    BY <2>1, <2>2, <2>3, <2>4, <2>6, <2>7, <2>8
<1>5. Busy(w)' => Owned(w)'
  <2> SUFFICES ASSUME Busy(w)' PROVE Owned(w)'
    OBVIOUS
  <2>1. q # Waiting
    BY <1>1 DEF Busy
  <2>2. \A t : (Closed(t)' <=> Closed(t)) /\ (Exists(t)' <=> Exists(t))
    BY <1>3 DEF Closed, Exists, Committed
  <2> QED
    BY <1>1, <1>2, <1>4, <2>1, <2>2 DEF Owned
<1> QED
  BY <1>3, <1>5 DEF OwnMove, Modifies

\* ... and at every step.
LEMMA StepOwn ==
    ASSUME ThreadTypes, Ownership, NEW w \in Workers, Step(w), Moves(w), UNCHANGED owner
    PROVE  OwnMove(w)
<1>1. PICK r, q : r = thread[w] /\ q = thread'[w]
  OBVIOUS
<1>2. TypeOK
  BY DEF ThreadTypes
<1>3. Busy(w) /\ r \in ThreadRecords /\ r # Waiting /\ Consistent(r)
  <2>1. Busy(w)
    BY StepBusy
  <2> QED
    BY <1>1, <2>1 DEF Busy, ThreadTypes
<1>4. r.t \in FileTags /\ r.from \in FileTags /\ r.op \in Operations
  BY <1>3 DEF ThreadRecords, Operations
<1>5. Owned(w)
  BY <1>3 DEF Ownership
<1>6. Continues(w)
  BY <1>1, <1>3 DEF Moves
<1>7. ASSUME q # Waiting
      PROVE  /\ q \in ThreadRecords /\ Consistent(q)
             /\ q.op = r.op /\ q.t = r.t /\ q.from = r.from /\ q.state = r.state
  BY <1>1, <1>6, <1>7 DEF Continues
<1>8. \A t : Modifies(w, t) <=> t = r.t /\ r.op # "READ"
  BY <1>1, <1>3 DEF Modifies
<1>9. ASSUME UNCHANGED metadata, tag_dirs' = tag_dirs \/ (mkdir(w) /\ tag_dirs' = tag_dirs \cup {r.t})
      PROVE  Busy(w)' => Owned(w)'
  <2> SUFFICES ASSUME Busy(w)' PROVE Owned(w)'
    OBVIOUS
  <2>1. q # Waiting
    BY <1>1 DEF Busy
  <2>2. \A t : (Closed(t)' <=> Closed(t)) /\ (Exists(t)' <=> Exists(t))
    BY <1>9 DEF Closed, Exists, Committed
  <2>3. ASSUME q.pc \in {"cp -rl", "create_metadata"} PROVE q.t \in tag_dirs'
    <3>1. q.op \in {"CREATE", "TAG"}
      BY <1>4, <1>7, <2>1, <2>3 DEF Consistent, CallsOf, Operations
    <3>2. r.pc \in {"mkdir", "cp -rl", "create_metadata"}
      BY <1>3, <1>4, <1>7, <2>1, <3>1 DEF Consistent, CallsOf, Operations
    <3>3. CASE mkdir(w)
      <4>1. q = Waiting \/ tag_dirs' = tag_dirs \cup {r.t}
        BY <1>1, <3>3, MkdirDone
      <4> QED
        BY <1>7, <2>1, <4>1
    <3>4. CASE ~mkdir(w)
      <4>1. r.pc # "mkdir"
        BY <1>1, <1>3, <3>4 DEF Step, mkdir, CopyLinks, create_metadata, LinkZero, delete_logical_block,
          CheckUnused, modify_bitmap_bits, fclose, delete_file_dir_structure, save_file_metadata,
          CheckShared, RemoveLink, bitmap_load, bitmap_persist, create_new_hardlink, OpenBlock,
          AccessBlock, LoadIndex, LookUp, update_logical_block_link, SaveIndex, Calls
      <4>2. r.t \in tag_dirs
        BY <1>1, <1>5, <3>2, <4>1 DEF Owned
      <4> QED
        BY <1>7, <1>9, <2>1, <4>2
    <3> QED
      BY <3>3, <3>4
  <2> QED
    BY <1>1, <1>5, <1>7, <2>1, <2>2, <2>3 DEF Owned
<1>10. CASE ~MetadataStep(w)
  <2>1. UNCHANGED <<metadata, tag_dirs>>
    BY <1>10, MetadataStays
  <2>2. \A t \in FileTags : Exists(t)' => t \in tag_dirs'
    BY <2>1 DEF Ownership, Exists
  <2> QED
    BY <1>9, <2>1, <2>2 DEF OwnMove
<1>11. CASE mkdir(w)
  <2>1. /\ r.op \in {"CREATE", "TAG"} /\ metadata' = metadata
        /\ tag_dirs' = tag_dirs \/ tag_dirs' = tag_dirs \cup {r.t}
    BY <1>1, <1>11, MkdirDone
  <2>2. \A t \in FileTags : Exists(t)' => t \in tag_dirs'
    BY <2>1 DEF Ownership, Exists
  <2>3. \A t \in FileTags : (t \in tag_dirs' <=> t \in tag_dirs) \/ Modifies(w, t)
    BY <1>8, <2>1
  <2> QED
    BY <1>9, <1>11, <2>1, <2>2, <2>3 DEF OwnMove
<1>12. CASE create_metadata(w)
  <2>1. q = Waiting /\ tag_dirs' = tag_dirs /\ r.pc = "create_metadata"
    BY <1>1, <1>12, CreateMetadataDone DEF create_metadata, Calls
  <2>2. r.t \in tag_dirs
    BY <1>1, <1>5, <2>1 DEF Owned
  <2> QED
    BY <1>1, <1>8, <2>1, <2>2 DEF OwnMove, Busy
<1>13. CASE delete_file_dir_structure(w)
  <2>1. /\ q = Waiting /\ tag_dirs' = tag_dirs \ {r.t} /\ r.op = "DELETE"
        /\ metadata' = [metadata EXCEPT ![r.t] = NoFile]
    BY <1>1, <1>13, DeleteStructureDone
  <2>2. ~Exists(r.t)'
    BY <1>2, <1>4, <2>1, OneFileChanges DEF Exists
  <2> QED
    BY <1>1, <1>8, <2>1, <2>2 DEF OwnMove, Busy
<1>14. CASE save_file_metadata(w)
  <2>1. /\ r.op \in {"TRUNCATE", "COMMIT", "WRITE"} /\ tag_dirs' = tag_dirs
        /\ metadata' = [metadata EXCEPT ![r.t] = SavedFile(r)]
        /\ \/ r.op = "WRITE" /\ Goes(q, r, "fopen", r.i)
           \/ q = Waiting
    BY <1>1, <1>14, SaveMetadataDone
  <2>2. r.from = r.t /\ Exists(r.t) /\ r.t \in tag_dirs
    BY <1>1, <1>4, <1>5, <2>1 DEF Owned, Ownership
  <2>3. /\ metadata'[r.t] = SavedFile(r) /\ SavedFile(r) \in Files
        /\ \A u \in FileTags \ {r.t} : metadata'[u] = metadata[u]
    BY <1>2, <1>3, <1>4, <2>1, OneFileChanges, SavedFileType
  <2>4. ASSUME q # Waiting
        PROVE  Owned(w)'
    <3>1. r.op = "WRITE" /\ q.pc = "fopen"
      BY <2>1, <2>4 DEF Goes
    <3>2. r.state = "WORK_IN_PROGRESS" /\ owner[r.t] = w
      BY <1>1, <1>5, <3>1 DEF Owned
    <3>3. SavedFile(r).state = "WORK_IN_PROGRESS"
      BY <3>1, <3>2 DEF SavedFile
    <3>4. Exists(r.t)' /\ ~Closed(r.t)'
      BY <2>3, <3>3, FilesExist DEF Exists, Closed, Committed
    <3> QED
      BY <1>1, <1>7, <2>2, <2>4, <3>1, <3>2, <3>4 DEF Owned
  <2> QED
    BY <1>1, <1>8, <2>1, <2>2, <2>4 DEF OwnMove, Busy
<1> QED
  BY <1>10, <1>11, <1>12, <1>13, <1>14 DEF MetadataStep

\* A step leaves the requests of all Workers to their own File:Tags.
LEMMA OwnershipStep ==
    ASSUME ThreadTypes, Ownership, NEW w \in Workers, Moves(w), OwnMove(w), UNCHANGED owner
    PROVE  Ownership'
<1>1. ASSUME NEW t \in FileTags, Exists(t)' PROVE t \in tag_dirs'
  <2>1. CASE Modifies(w, t)
    BY <1>1, <2>1 DEF OwnMove
  <2>2. CASE ~Modifies(w, t)
    BY <1>1, <2>2 DEF OwnMove, Moves, OnlyOwn, FileKept, Ownership, Exists
  <2> QED
    BY <2>1, <2>2
<1>2. ASSUME NEW v \in Workers, v # w, Busy(v)' PROVE Owned(v)'
  <2>1. thread'[v] = thread[v] /\ Busy(v)
    BY <1>2 DEF Moves, Others, Busy
  <2>2. PICK r : r = thread[v]
    OBVIOUS
  <2>3. r \in ThreadRecords /\ r.t \in FileTags /\ r.from \in FileTags /\ Owned(v)
    BY <2>1, <2>2 DEF Ownership, ThreadTypes, Busy, ThreadRecords
  <2>4. metadata'[r.t] = metadata[r.t] /\ metadata'[r.from] = metadata[r.from]
    BY <1>2, <2>1, <2>2, <2>3, OthersFiles DEF Moves, FileKept
  <2>5. /\ Closed(r.t)' <=> Closed(r.t)
        /\ Closed(r.from)' <=> Closed(r.from)
        /\ Exists(r.t)' <=> Exists(r.t)
        /\ Exists(r.from)' <=> Exists(r.from)
    BY <2>4 DEF Closed, Exists, Committed
  <2>6. r.t \in tag_dirs => r.t \in tag_dirs'
    <3>1. ~Modifies(w, r.t)
      BY <1>2, <2>1, <2>2, NotOthers
    <3> QED
      BY <2>3, <3>1 DEF OwnMove
  <2> QED
    BY <2>1, <2>2, <2>3, <2>5, <2>6 DEF Owned
<1>3. Busy(w)' => Owned(w)'
  BY DEF OwnMove
<1> QED
  BY <1>1, <1>2, <1>3 DEF Ownership

-----------------------------------------------------------------------------
(* What was committed before the Storage stopped.                          *)

\* A block of such a File:Tag.
Lasting(p) ==
    \E t \in survivors, k \in LogicalBlocks : k <= BlockCount(t) /\ links[t][k] = p

\* The request neither frees nor writes such a block.
Spares(r) ==
    /\ r.pc \in {"fclose", "bitmap_persist"} => \A p : Lasting(p) => p \in r.buffer
    /\ r.pc = "modify_bitmap_bits" \/ (r.op = "COMMIT" /\ r.pc = "bitmap_load") =>
          ~Lasting(r.block)
    /\ r.op = "WRITE" /\ r.pc \in {"bitmap_persist", "create_new_hardlink", "access"} =>
          ~Lasting(r.block)
    /\ r.op = "WRITE" /\ r.pc \in {"save_file_metadata", "fopen"} => ~Lasting(links[r.t][r.i])

SurvivorInv ==
    /\ survivors \subseteq FileTags
    /\ \A t \in survivors : Closed(t)
    /\ \A p : Lasting(p) => p \in bitmap
    /\ \A w \in Workers : Busy(w) => Spares(thread[w])

\* Such blocks stay the same ones.
LEMMA LastingStays ==
    ASSUME Ownership, SurvivorInv, NEW w \in Workers, OnlyOwn(w), UNCHANGED survivors
    PROVE  /\ \A t \in survivors : FileKept(t) /\ Closed(t)'
           /\ \A p : Lasting(p)' <=> Lasting(p)
<1>1. \A t \in survivors : FileKept(t) /\ Closed(t)'
  BY ClosedFiles DEF SurvivorInv
<1>2. \A t \in survivors : links'[t] = links[t] /\ BlockCount(t)' = BlockCount(t)
  BY <1>1 DEF FileKept, BlockCount
<1> QED
  BY <1>1, <1>2 DEF Lasting

\* The call a step goes on to.
LEMMA SparesStep ==
    ASSUME ThreadTypes, Ownership, SurvivorInv, NEW w \in Workers, handle_client(w) \/ Step(w),
           Moves(w), UNCHANGED <<owner, survivors>>, Busy(w)'
    PROVE  Spares(thread[w])'
<1>1. PICK r, q : r = thread[w] /\ q = thread'[w]
  OBVIOUS
<1>2. TypeOK /\ q # Waiting /\ (q \in ThreadRecords /\ Consistent(q))
  BY <1>1, ThreadStepTypes DEF ThreadTypes, Busy, StepTypes, Typed
<1>3. \A p : Lasting(p)' <=> Lasting(p)
  BY LastingStays DEF Moves
<1>4. ASSUME q.pc \notin {"fclose", "bitmap_persist", "modify_bitmap_bits"},
             q.op = "COMMIT" => q.pc # "bitmap_load",
             q.op = "WRITE" => q.pc \notin {"create_new_hardlink", "access",
                                            "save_file_metadata", "fopen"}
      PROVE  Spares(q)'
  BY <1>4 DEF Spares
<1>5. ASSUME NEW p, IsLinked(p, links) = FALSE PROVE ~Lasting(p)
  BY <1>5 DEF Lasting, IsLinked, SurvivorInv
<1>6. CASE handle_client(w)
  <2>1. PICK s \in Requests : Begins(q, s)
    BY <1>1, <1>2, <1>6, HandleDone
  <2>2. s.op \in Operations
    BY RequestReceived DEF Received
  <2>3. q.op = s.op /\ q.pc \notin {"fclose", "bitmap_persist", "modify_bitmap_bits", "bitmap_load"}
        /\ (q.op = "WRITE" => q.pc = "ph_block_links")
    BY <2>1, <2>2 DEF Begins, Operations, AfterDelete
  <2> QED
    BY <1>1, <1>4, <2>3
<1>7. CASE Step(w)
  <2>1. Busy(w)
    BY <1>7, StepBusy
  <2>2. /\ r # Waiting /\ r \in ThreadRecords /\ Consistent(r) /\ r.t \in FileTags
        /\ Spares(r) /\ Owned(w)
    BY <1>1, <2>1 DEF Busy, ThreadTypes, ThreadRecords, SurvivorInv, Ownership
  <2>3. ASSUME NEW i, Goes(q, r, AfterTurn(r), i), r.op \in {"DELETE", "TRUNCATE", "COMMIT"}
        PROVE  Spares(q)'
    <3>1. q.op = r.op /\ q.pc \in {"delete_logical_block", "delete_file_dir_structure",
                                   "save_file_metadata", "read_block_content", "config_save"}
      BY <2>3 DEF Goes, AfterTurn, AfterDelete, AfterLookUp
    <3> QED
      BY <1>4, <2>3, <3>1
  <2>10. CASE mkdir(w)
    <3>1. PICK pc : pc = IF r.op = "TAG" THEN "cp -rl" ELSE "create_metadata"
      OBVIOUS
    <3>2. Goes(q, r, pc, r.i)
      BY <1>1, <1>2, <2>10, <3>1, MkdirDone
    <3> QED
      BY <1>1, <1>4, <3>1, <3>2 DEF Goes
  <2>11. CASE CopyLinks(w)
    BY <1>1, <1>2, <1>4, <2>11, CopyLinksDone DEF Goes
  <2>12. CASE create_metadata(w)
    BY <1>1, <1>2, <2>12, CreateMetadataDone
  <2>13. CASE LinkZero(w)
    <3>1. q.op = "TRUNCATE" /\ q.pc \in {"link", "save_file_metadata"}
      BY <1>1, <1>2, <2>13, LinkZeroDone DEF Goes
    <3> QED
      BY <1>1, <1>4, <3>1
  <2>14. CASE delete_logical_block(w)
    <3>1. r.op \in {"DELETE", "TRUNCATE"} /\ (Goes(q, r, "stat", r.i) \/ Goes(q, r, AfterTurn(r), r.i + 1))
      BY <1>1, <1>2, <2>14, DeleteBlockDone
    <3>2. CASE Goes(q, r, "stat", r.i)
      BY <1>1, <1>4, <3>2 DEF Goes
    <3> QED
      BY <1>1, <2>3, <3>1, <3>2
  <2>15. CASE CheckUnused(w)
    <3>1. /\ r.op \in {"DELETE", "TRUNCATE", "COMMIT"} /\ q.block = r.block
          /\ \/ Goes(q, r, AfterTurn(r), r.i + 1)
             \/ /\ Unused(r.block)
                /\ Goes(q, r, IF r.op = "COMMIT" THEN "bitmap_load"
                                                 ELSE "modify_bitmap_bits", r.i)
      BY <1>1, <2>15, CheckUnusedDone DEF Keeping
    <3>2. CASE Goes(q, r, AfterTurn(r), r.i + 1)
      BY <1>1, <2>3, <3>1, <3>2
    <3>3. CASE Unused(r.block) /\ Goes(q, r, IF r.op = "COMMIT" THEN "bitmap_load"
                                                 ELSE "modify_bitmap_bits", r.i)
      <4>1. ~Lasting(q.block)
        BY <1>5, <3>1, <3>3, OwnNameOnly DEF Unused, IsLinked
      <4>2. q.pc \in {"bitmap_load", "modify_bitmap_bits"} /\ q.op = r.op
        BY <3>3 DEF Goes
      <4> QED
        BY <1>1, <1>3, <3>1, <4>1, <4>2 DEF Spares
    <3> QED
      BY <3>1, <3>2, <3>3
  <2>16. CASE modify_bitmap_bits(w)
    <3>1. /\ r.op \in {"DELETE", "TRUNCATE"} /\ Goes(q, r, "fclose", r.i)
          /\ q.buffer = bitmap \ {r.block} /\ r.pc = "modify_bitmap_bits"
      BY <1>1, <2>16, ModifyBitmapDone DEF modify_bitmap_bits, Calls
    <3>2. q.op = r.op /\ q.pc = "fclose"
      BY <3>1 DEF Goes
    <3>3. \A p : Lasting(p) => p \in q.buffer
      BY <2>2, <3>1 DEF Spares, SurvivorInv
    <3> QED
      BY <1>1, <1>3, <3>1, <3>2, <3>3 DEF Spares
  <2>17. CASE fclose(w)
    BY <1>1, <2>3, <2>17, FcloseDone
  <2>18. CASE delete_file_dir_structure(w)
    BY <1>1, <1>2, <2>18, DeleteStructureDone
  <2>19. CASE save_file_metadata(w)
    <3>1. /\ r.op = "WRITE" /\ Goes(q, r, "fopen", r.i) /\ links' = links
          /\ r.pc = "save_file_metadata"
      BY <1>1, <1>2, <2>19, SaveMetadataDone DEF save_file_metadata, Calls
    <3>2. ~Lasting(links[r.t][r.i]) /\ q.pc = "fopen" /\ q.t = r.t /\ q.i = r.i /\ q.op = "WRITE"
      BY <2>2, <3>1 DEF Spares, Goes
    <3> QED
      BY <1>1, <1>3, <3>1, <3>2 DEF Spares
  <2>20. CASE CheckShared(w)
    <3>1. /\ r.op = "WRITE" /\ links' = links
          /\ Goes(q, r, IF Shared(links[r.t][r.i]) THEN "remove" ELSE "fopen", r.i)
      BY <1>1, <1>2, <2>20, CheckSharedDone DEF disk
    <3>2. CASE Shared(links[r.t][r.i])
      BY <1>1, <1>4, <3>1, <3>2 DEF Goes
    <3>3. CASE ~Shared(links[r.t][r.i])
      <4>1. q.pc = "fopen" /\ q.t = r.t /\ q.i = r.i /\ q.op = "WRITE"
        BY <3>1, <3>3 DEF Goes
      <4>2. r.i \in LogicalBlocks
        BY <2>2, <3>1, BlockOf
      <4>3. ~Lasting(links[r.t][r.i])
        <5>1. ASSUME NEW t \in survivors, NEW k \in LogicalBlocks, links[t][k] = links[r.t][r.i]
              PROVE  FALSE
          <6>1. t = r.t
            BY <2>2, <3>3, <4>2, <5>1, NotShared DEF SurvivorInv
          <6> QED
            BY <1>1, <2>2, <3>1, <6>1 DEF SurvivorInv, Owned
        <5> QED
          BY <5>1 DEF Lasting
      <4> QED
        BY <1>1, <1>3, <3>1, <4>1, <4>3 DEF Spares
    <3> QED
      BY <3>2, <3>3
  <2>21. CASE RemoveLink(w)
    <3>1. r.op \in {"WRITE", "COMMIT"}
          /\ Goes(q, r, IF r.op = "WRITE" THEN "bitmap_load" ELSE "relink", r.i)
      BY <1>1, <2>21, RemoveLinkDone
    <3> QED
      BY <1>1, <1>4, <3>1 DEF Goes
  <2>22. CASE bitmap_load(w)
    <3>0. r.pc = "bitmap_load"
      BY <1>1, <2>22, CallOf DEF bitmap_load
    <3>1. /\ r.op \in {"WRITE", "COMMIT"}
          /\ Goes(q, r, "bitmap_persist", r.i)
          /\ r.op = "COMMIT" => q.block = r.block /\ q.buffer = bitmap \ {r.block}
          /\ r.op = "WRITE" => q.block \notin bitmap /\ q.buffer = bitmap \cup {q.block}
      BY <1>1, <1>2, <2>22, BitmapLoadDone
    <3>2. q.op = r.op /\ q.pc = "bitmap_persist"
      BY <3>1 DEF Goes
    <3>3. CASE r.op = "COMMIT"
      <4>1. \A p : Lasting(p) => p \in q.buffer
        BY <2>2, <3>0, <3>1, <3>3 DEF Spares, SurvivorInv
      <4> QED
        BY <1>1, <1>3, <3>2, <3>3, <4>1 DEF Spares
    <3>4. CASE r.op = "WRITE"
      <4>1. ~Lasting(q.block) /\ \A p : Lasting(p) => p \in q.buffer
        BY <3>1, <3>4 DEF SurvivorInv
      <4> QED
        BY <1>1, <1>3, <3>2, <3>4, <4>1 DEF Spares
    <3> QED
      BY <3>1, <3>3, <3>4
  <2>23. CASE bitmap_persist(w)
    <3>1. /\ r.op \in {"WRITE", "COMMIT"} /\ r.pc = "bitmap_persist" /\ q.block = r.block
          /\ \/ r.op = "COMMIT" /\ Goes(q, r, AfterTurn(r), r.i + 1)
             \/ r.op = "WRITE" /\ Goes(q, r, "create_new_hardlink", r.i)
      BY <1>1, <2>23, BitmapPersistDone DEF bitmap_persist, Calls, Keeping
    <3>2. CASE r.op = "WRITE"
      <4>1. q.op = "WRITE" /\ q.pc = "create_new_hardlink" /\ ~Lasting(q.block)
        BY <2>2, <3>1, <3>2 DEF Goes, Spares
      <4> QED
        BY <1>1, <1>3, <4>1 DEF Spares
    <3> QED
      BY <1>1, <2>3, <3>1, <3>2
  <2>24. CASE create_new_hardlink(w)
    <3>1. /\ r.op = "WRITE" /\ r.pc = "create_new_hardlink" /\ Linking(r.t, r.i, r.block)
          /\ Goes(q, r, "save_file_metadata", r.i)
      BY <1>1, <1>2, <2>24, HardlinkDone DEF create_new_hardlink, Calls
    <3>2. r.i \in LogicalBlocks
      BY <2>2, <3>1, BlockOf
    <3>3. links'[r.t][r.i] = r.block /\ ~Lasting(r.block)
      BY <1>2, <2>2, <3>1, <3>2, OneLink DEF Spares
    <3>4. q.op = "WRITE" /\ q.pc = "save_file_metadata" /\ q.t = r.t /\ q.i = r.i
      BY <3>1 DEF Goes
    <3> QED
      BY <1>1, <1>3, <3>3, <3>4 DEF Spares
  <2>25. CASE OpenBlock(w)
    <3>1. Goes(q, r, "access", r.i) /\ q.block = links[r.t][r.i] /\ r.pc = "fopen"
      BY <1>1, <1>2, <2>25, OpenBlockDone DEF OpenBlock, Calls
    <3>2. q.op = r.op /\ q.pc = "access"
      BY <3>1 DEF Goes
    <3>3. q.op = "WRITE" => ~Lasting(q.block)
      BY <2>2, <3>1, <3>2 DEF Spares
    <3> QED
      BY <1>1, <1>3, <3>2, <3>3 DEF Spares
  <2>26. CASE AccessBlock(w)
    BY <1>1, <1>2, <2>26, AccessBlockDone
  <2>27. CASE LoadIndex(w)
    <3>1. r.op = "COMMIT" /\ Goes(q, r, AfterLookUp(r, 1), 1)
      BY <1>1, <2>27, LoadIndexDone
    <3> QED
      BY <1>1, <1>4, <3>1 DEF Goes, AfterLookUp
  <2>28. CASE LookUp(w)
    <3>1. PICK c : c = read_block_content(r)
      OBVIOUS
    <3>2. r.op = "COMMIT" /\ (Goes(q, r, AfterTurn(r), r.i + 1) \/ Goes(q, r, "remove", r.i))
      BY <1>1, <1>2, <2>28, <3>1, LookUpDone DEF LookUpOutcome
    <3>3. CASE Goes(q, r, "remove", r.i)
      BY <1>1, <1>4, <3>2, <3>3 DEF Goes
    <3> QED
      BY <1>1, <2>3, <3>2, <3>3
  <2>29. CASE update_logical_block_link(w)
    BY <1>1, <1>4, <2>29, RelinkDone DEF RelinkOutcome, Goes
  <2>30. CASE SaveIndex(w)
    BY <1>1, <1>4, <2>30, SaveIndexDone DEF Goes
  <2> QED
    BY <1>7, <2>10, <2>11, <2>12, <2>13, <2>14, <2>15, <2>16, <2>17, <2>18, <2>19, <2>20,
      <2>21, <2>22, <2>23, <2>24, <2>25, <2>26, <2>27, <2>28, <2>29, <2>30 DEF Step
<1> QED
  BY <1>6, <1>7

\* What was committed when the Storage stopped stays out of the requests' reach.
LEMMA SurvivorStep ==
    ASSUME ThreadTypes, Ownership, SurvivorInv, NEW w \in Workers, handle_client(w) \/ Step(w),
           Moves(w), UNCHANGED <<owner, survivors>>
    PROVE  SurvivorInv'
<1>1. /\ \A t \in survivors : FileKept(t) /\ Closed(t)'
      /\ \A p : Lasting(p)' <=> Lasting(p)
  BY LastingStays DEF Moves
<1>2. \A p : Lasting(p) => p \in bitmap'
  <2>1. CASE bitmap' = bitmap
    BY <2>1 DEF SurvivorInv
  <2>2. CASE bitmap' = thread[w].buffer /\ (Calls(w, "fclose") \/ Calls(w, "bitmap_persist"))
    <3>1. Spares(thread[w]) /\ thread[w].pc \in {"fclose", "bitmap_persist"}
      BY <2>2 DEF SurvivorInv, Calls
    <3> QED
      BY <2>2, <3>1 DEF Spares
  <2> QED
    BY <2>1, <2>2 DEF Moves
<1>3. ASSUME NEW v \in Workers, v # w, Busy(v)' PROVE Spares(thread[v])'
  <2>1. PICK r : r = thread[v]
    OBVIOUS
  <2>2. thread'[v] = r /\ Busy(v) /\ r \in ThreadRecords
    BY <1>3, <2>1 DEF Moves, Others, Busy, ThreadTypes
  <2>3. Spares(r) /\ links'[r.t] = links[r.t]
    BY <1>3, <2>1, <2>2, OthersFiles DEF SurvivorInv, Moves, FileKept
  <2>4. Spares(r)'
    BY <1>1, <2>3 DEF Spares
  <2> QED
    BY <2>2, <2>4 DEF Spares
<1>4. Busy(w)' => Spares(thread[w])'
  BY SparesStep
<1>5. survivors' \subseteq FileTags /\ \A t \in survivors' : Closed(t)'
  BY <1>1 DEF SurvivorInv
<1> QED
  BY <1>1, <1>2, <1>3, <1>4, <1>5 DEF SurvivorInv

-----------------------------------------------------------------------------
(* The requests in progress, as long as none has failed halfway.           *)

\* DELETE, and TRUNCATE to fewer blocks.
FreesBlocks(r) == r.op = "DELETE" \/ (r.op = "TRUNCATE" /\ r.n < Len(r.blocks))

\* The request's copy of the metadata, and how far its loop is.
Copied(r) ==
    /\ r.op = "CREATE" => r.blocks = <<>>
    /\ r.op \in {"TAG", "DELETE", "TRUNCATE", "READ"} => r.blocks = metadata[r.from].blocks
    /\ r.op \in {"COMMIT", "WRITE"} => Len(r.blocks) = BlockCount(r.t)
    /\ r.op = "WRITE" /\ r.pc # "save_file_metadata" => r.blocks = metadata[r.t].blocks
    /\ r.op = "DELETE" => r.n = 0
    /\ r.op \in {"DELETE", "TRUNCATE"} =>
          /\ r.pc \in Freeing \cup {"delete_logical_block"} => r.n < r.i
          /\ r.pc = "link" => Len(r.blocks) < r.i
          /\ r.pc = "delete_file_dir_structure" => r.i = Len(r.blocks) + 1
          /\ r.pc = "save_file_metadata" =>
                r.i = 1 + IF r.n < Len(r.blocks) THEN Len(r.blocks) ELSE r.n

\* The link is removed and the new one not made.
Unlinked(r) ==
    \/ r.pc = "relink"
    \/ r.op = "WRITE" /\ r.pc \in {"bitmap_load", "bitmap_persist", "create_new_hardlink"}

\* The link of logical block k that a request has left in its File:Tag so far.
Expect(r, k) ==
    IF r.op \in {"DELETE", "TRUNCATE"}
    THEN IF k > Len(r.blocks) THEN IF k < r.i THEN 0 ELSE NoBlock
         ELSE IF k <= r.n \/ k > r.i \/ (k = r.i /\ r.pc \notin Freeing)
         THEN r.blocks[k] ELSE NoBlock
    ELSE IF \/ k > Len(r.blocks)
            \/ r.op = "TAG" /\ r.pc # "create_metadata"
            \/ Unlinked(r) /\ k = r.i
    THEN NoBlock ELSE r.blocks[k]

Matched(r) ==
    /\ Copied(r)
    /\ r.op # "READ" => \A k \in LogicalBlocks : links[r.t][k] = Expect(r, k)

\* The link the metadata names.
Named(t, k) ==
    IF Exists(t) /\ k <= BlockCount(t) THEN metadata[t].blocks[k] ELSE NoBlock

\* The request commits t, and only the metadata has still to say so.
Committing(r, t) ==
    r # Waiting /\ r.pc = "save_file_metadata" /\ r.op = "COMMIT" /\ r.t = t

\* t is committed, or about to be.
Settled(t) == Closed(t) \/ \E w \in Workers : Committing(thread[w], t)

SettledBlock(p) == \E t \in FileTags, k \in LogicalBlocks : Settled(t) /\ links[t][k] = p

\* Blocks that w may make links to.
Accessible(w, p) ==
    \E t \in FileTags, k \in LogicalBlocks :
        links[t][k] = p /\ (owner[t] = w \/ Settled(t))

\* A block that is marked and has no link yet, ...
Reserving(r) == r # Waiting /\ r.pc = "create_new_hardlink"

\* ... that has no link any more, ...
Dropping(r) ==
    /\ r # Waiting
    /\ \/ r.pc \in {"modify_bitmap_bits", "fclose"}
       \/ r.op = "COMMIT" /\ r.pc \in {"bitmap_load", "bitmap_persist"}

\* ... and that may have none.
Holding(r) == Dropping(r) \/ (r # Waiting /\ r.pc \in {"relink", "stat"})

\* The block a request has in hand, and its copy of the bitmap.
InHand(r) ==
    /\ Reserving(r) \/ Holding(r) => r.block \in bitmap
    /\ Reserving(r) \/ Dropping(r) => ~IsLinked(r.block, links)
    /\ r.pc = "bitmap_persist" /\ r.op = "WRITE" =>
          r.block \notin bitmap /\ r.buffer = bitmap \cup {r.block}
    /\ r.pc = "fclose" \/ (r.pc = "bitmap_persist" /\ r.op = "COMMIT") =>
          r.buffer = bitmap \ {r.block}

\* A COMMIT's copy of the index.
IndexKnown(r) ==
    /\ HoldsIndex(r) =>
          \A c \in Contents : r.index[c] # NoBlock =>
              /\ content[r.index[c]] = c
              /\ \/ SettledBlock(r.index[c])
                 \/ \E k \in LogicalBlocks : k < r.i /\ links[r.t][k] = r.index[c]
    /\ r.op = "COMMIT" /\ r.pc \in {"remove", "relink"} => r.block = r.blocks[r.i]

\* No other link is to the block of logical block i of t.
OnlyLink(t, i) ==
    \A u \in FileTags, k \in LogicalBlocks : links[u][k] = links[t][i] => u = t /\ k = i

\* The block a request writes is its own alone; one that it found shared stays
\* in use without it.
AccessKnown(w, r) ==
    /\ r.op = "WRITE" /\ r.pc = "remove" =>
          \E t \in FileTags, k \in LogicalBlocks :
              /\ links[t][k] = links[r.t][r.i]
              /\ t # r.t \/ k # r.i
              /\ owner[t] = w \/ Settled(t)
    /\ r.op = "WRITE" /\ r.pc \in {"save_file_metadata", "fopen", "access"} =>
          OnlyLink(r.t, r.i)
    /\ r.pc = "access" => r.block = links[r.t][r.i]

\* What the request has left of the data it found.
Remembers(r) ==
    /\ r.op \in {"CREATE", "TAG"} => r.before = NoFile
    /\ r.op \in {"DELETE", "TRUNCATE", "COMMIT", "WRITE"} =>
          /\ r.before # NoFile /\ ~r.before.committed
          /\ Len(r.before.data) = Len(r.blocks)
          /\ \A k \in 1..Len(r.blocks) :
                links[r.t][k] # NoBlock /\ ~(r.op = "WRITE" /\ k = r.i) =>
                    content[links[r.t][k]] = r.before.data[k]
    /\ r.op = "COMMIT" /\ r.pc \in {"remove", "relink"} => r.c = r.before.data[r.i]

Knows(w, r) ==
    Matched(r) /\ InHand(r) /\ IndexKnown(r) /\ AccessKnown(w, r) /\ Remembers(r)

\* A request that frees blocks runs alone.
RunsAlone ==
    \A w, v \in Workers : Busy(w) /\ Busy(v) /\ FreesBlocks(thread[w]) => v = w

\* initial_file:BASE has block 0, of zeros.
BaseThere == Closed(Protected) /\ links[Protected][1] = 0 /\ content[0] = Zeros

LinksMarked ==
    \A t \in FileTags, k \in LogicalBlocks : links[t][k] \in bitmap \cup {NoBlock}

\* A marked block is in use, or a request has it in hand.
MarksUsed ==
    \A p \in bitmap \cap Blocks :
        \/ IsLinked(p, links)
        \/ \E w \in Workers : /\ Reserving(thread[w]) \/ Holding(thread[w])
                              /\ thread[w].block = p

\* A block is taken by one request only, and not while another gives it up.
TakenOnce ==
    \A w, v \in Workers :
        Reserving(thread[w]) /\ (Reserving(thread[v]) \/ Holding(thread[v]))
            /\ thread[v].block = thread[w].block => v = w

\* What File:Tags of two Workers share belongs to a third that stays.
SharedSettled ==
    \A t, u \in FileTags, i, k \in LogicalBlocks :
        (owner[t] # owner[u] /\ links[t][i] = links[u][k] /\ links[t][i] # NoBlock)
            => SettledBlock(links[t][i])

\* The index names blocks that stay as they are.
IndexSettled ==
    \A c \in Contents : hash_index[c] # NoBlock =>
        content[hash_index[c]] = c /\ SettledBlock(hash_index[c])

\* Where no request is at work, links and metadata agree.
Settles ==
    \A t \in FileTags : (\A w \in Workers : ~Modifies(w, t)) =>
        \A k \in LogicalBlocks : links[t][k] = Named(t, k)

ThreadInv ==
    /\ \A w \in Workers : Busy(w) => Knows(w, thread[w])
    /\ RunsAlone /\ BaseThere /\ LinksMarked /\ MarksUsed /\ TakenOnce
    /\ SharedSettled /\ IndexSettled /\ Settles

-----------------------------------------------------------------------------
(* What one step does, as the other requests see it.                       *)

\* Links are kept, removed, or made to blocks that the Worker may share or has
\* taken.
NewLinks(w) ==
    \A k \in LogicalBlocks :
        LET p == links'[thread[w].t][k]
        IN  \/ p \in {NoBlock, links[thread[w].t][k]}
            \/ Accessible(w, p)
            \/ Reserving(thread[w]) /\ p = thread[w].block

\* A block that loses its last link is in hand.
LinksKept(w) ==
    \A p \in Blocks : IsLinked(p, links) =>
        IsLinked(p, links') \/ (Holding(thread'[w]) /\ thread'[w].block = p)

BitmapMove(w) ==
    \/ bitmap' = bitmap
    \/ /\ bitmap' = bitmap \ {thread[w].block} /\ Dropping(thread[w])
       /\ FreesBlocks(thread[w]) \/ HoldsBitmap(thread[w])
    \/ /\ bitmap' = bitmap \cup {thread[w].block}
       /\ HoldsBitmap(thread[w]) /\ thread[w].op = "WRITE"

ContentMove(w) ==
    \/ content' = content
    \/ /\ Calls(w, "access") /\ thread[w].op = "WRITE"
       /\ content' = [content EXCEPT ![thread[w].block] = thread[w].c]

\* What a request has in hand it had before, or gets from its links.
HandMove(w) ==
    LET r == thread[w]
        q == thread'[w]
    IN  /\ Holding(q) => \/ Holding(r) /\ q.block = r.block
                         \/ IsLinked(q.block, links)
        /\ Reserving(q) => q.block \notin bitmap
        /\ Holding(r) => \/ Holding(q) /\ q.block = r.block
                         \/ IsLinked(r.block, links')
                         \/ r.block \notin bitmap'
        /\ Reserving(r) => IsLinked(r.block, links')
        /\ (bitmap' # bitmap /\ ~Dropping(r)) => Reserving(q) /\ q.block = r.block

SettledMove(w) ==
    \A t \in FileTags : Settled(t) => Settled(t)' /\ links'[t] = links[t]

\* A request that frees blocks begins when there is no other, and no other
\* beside it.
AloneMove(w) ==
    Busy(w)' =>
        \/ Busy(w) /\ (FreesBlocks(thread'[w]) => FreesBlocks(thread[w]))
        \/ \A v \in Workers : Busy(v) => ~FreesBlocks(thread[v]) /\ ~FreesBlocks(thread'[w])

IndexMove(w) ==
    \/ hash_index' = hash_index
    \/ \A c \in Contents : hash_index'[c] # NoBlock =>
          content'[hash_index'[c]] = c /\ SettledBlock(hash_index[c])'

\* A request that ends leaves links as its metadata names them.
EndMove(w) ==
    \A t \in FileTags : Modifies(w, t) /\ ~Modifies(w, t)' =>
        \A k \in LogicalBlocks : links'[t][k] = Named(t, k)'

Effects(w) ==
    /\ NewLinks(w) /\ LinksKept(w) /\ BitmapMove(w) /\ ContentMove(w) /\ HandMove(w)
    /\ SettledMove(w) /\ AloneMove(w) /\ IndexMove(w) /\ EndMove(w)

\* What is known while the Storage serves requests and none has failed.
Serving == ThreadTypes /\ Mutexes /\ Ownership /\ ThreadInv

\* What is known of one request.
LEMMA Requesting ==
    ASSUME Serving, NEW w \in Workers, Busy(w), NEW r, r = thread[w]
    PROVE  /\ r \in ThreadRecords /\ Consistent(r) /\ r # Waiting
           /\ r.op \in Operations /\ r.t \in FileTags /\ r.from \in FileTags
           /\ r.i \in 1..MaxBlocks + 1 /\ r.n \in 0..MaxBlocks
           /\ r.blocks \in Seq(Blocks) /\ Len(r.blocks) \in 0..MaxBlocks
           /\ Knows(w, r) /\ Owned(w)
<1>1. r \in ThreadRecords /\ Consistent(r) /\ r # Waiting /\ Knows(w, r) /\ Owned(w)
  BY DEF Serving, ThreadTypes, Busy, Ownership, ThreadInv
<1>2. /\ r.op \in Operations /\ r.t \in FileTags /\ r.from \in FileTags
      /\ r.i \in 1..MaxBlocks + 1 /\ r.n \in 0..MaxBlocks /\ r.blocks \in Seq(Blocks)
  BY <1>1 DEF ThreadRecords, Operations
<1>3. Len(r.blocks) \in Nat /\ Len(r.blocks) <= MaxBlocks
  BY <1>1, <1>2 DEF Consistent
<1> QED
  BY <1>1, <1>2, <1>3, Numbers

\* Blocks of links.
LEMMA LinkBlocks ==
    ASSUME TypeOK, NEW t \in FileTags, NEW k \in LogicalBlocks
    PROVE  links[t][k] \in Blocks \cup {NoBlock}
BY DEF TypeOK

\* A request that has written its metadata changes nothing more.
LEMMA SettledFree ==
    ASSUME Serving, NEW w \in Workers, NEW t \in FileTags, Modifies(w, t), Settled(t)
    PROVE  Committing(thread[w], t)
<1>1. ~Closed(t) /\ owner[t] = w
  BY DEF Serving, Ownership, Owned, Modifies
<1>2. PICK v \in Workers : Committing(thread[v], t)
  BY <1>1 DEF Settled
<1>3. Busy(v) /\ thread[v].op # "READ" /\ thread[v].t = t
  BY <1>2 DEF Committing, Busy
<1>4. owner[t] = v
  BY <1>3 DEF Serving, Ownership, Owned
<1> QED
  BY <1>1, <1>2, <1>4

\* The link a WRITE writes through is there, and no other is to its block.
LEMMA WritesOwn ==
    ASSUME Serving, NEW w \in Workers, Busy(w), NEW r, r = thread[w], r.op = "WRITE",
           r.pc \in {"save_file_metadata", "fopen", "access"}
    PROVE  /\ r.i \in LogicalBlocks /\ r.t \in FileTags /\ links[r.t][r.i] \in Blocks
           /\ OnlyLink(r.t, r.i)
           /\ r.pc = "access" => r.block = links[r.t][r.i]
<1>1. r \in ThreadRecords /\ Consistent(r) /\ Knows(w, r) /\ r.t \in FileTags
  BY Requesting
<1>2. r.i \in LogicalBlocks /\ r.i \in 1..Len(r.blocks) /\ r.blocks[r.i] \in Blocks
  BY <1>1, BlockOf
<1>3. links[r.t][r.i] = Expect(r, r.i)
  BY <1>1, <1>2 DEF Knows, Matched
<1>4. Expect(r, r.i) = r.blocks[r.i]
  BY <1>2 DEF Expect, Unlinked
<1> QED
  BY <1>1, <1>2, <1>3, <1>4 DEF Knows, AccessKnown

\* A step writes no block but that of its own File:Tag.
LEMMA OthersContent ==
    ASSUME Serving, NEW w \in Workers, ContentMove(w), NEW t \in FileTags, ~Modifies(w, t),
           NEW k \in LogicalBlocks, links[t][k] # NoBlock
    PROVE  content'[links[t][k]] = content[links[t][k]]
<1>1. CASE content' = content
  BY <1>1
<1>2. CASE /\ Calls(w, "access") /\ thread[w].op = "WRITE"
           /\ content' = [content EXCEPT ![thread[w].block] = thread[w].c]
  <2>1. PICK r : r = thread[w]
    OBVIOUS
  <2>2. Busy(w) /\ r.pc = "access" /\ r.op = "WRITE"
    BY <1>2, <2>1 DEF Calls
  <2>3. OnlyLink(r.t, r.i) /\ r.block = links[r.t][r.i]
    BY <2>1, <2>2, WritesOwn
  <2>4. t # r.t
    BY <2>1, <2>2 DEF Modifies
  <2>5. links[t][k] # r.block /\ links[t][k] \in Blocks
    BY <2>3, <2>4, LinkBlocks DEF OnlyLink, Serving, ThreadTypes
  <2>6. content \in [Blocks -> Contents]
    BY DEF Serving, ThreadTypes, TypeOK
  <2> QED
    BY <1>2, <2>1, <2>5, <2>6
<1> QED
  BY <1>1, <1>2 DEF ContentMove

\* What is settled is neither written nor unlinked.
LEMMA SettledKept ==
    ASSUME Serving, NEW w \in Workers, Moves(w), ContentMove(w), SettledMove(w),
           NEW p, p # NoBlock, SettledBlock(p)
    PROVE  SettledBlock(p)' /\ content'[p] = content[p]
<1>1. PICK t \in FileTags, k \in LogicalBlocks : Settled(t) /\ links[t][k] = p
  BY DEF SettledBlock
<1>2. Settled(t)' /\ links'[t] = links[t]
  BY <1>1 DEF SettledMove
<1>3. SettledBlock(p)'
  BY <1>1, <1>2 DEF SettledBlock
<1>4. CASE ~Modifies(w, t)
  BY <1>1, <1>3, <1>4, OthersContent
<1>5. CASE Modifies(w, t)
  <2>1. thread[w].pc = "save_file_metadata"
    BY <1>1, <1>5, SettledFree DEF Committing
  <2>2. content' = content
    BY <2>1 DEF ContentMove, Calls
  <2> QED
    BY <1>3, <2>2
<1> QED
  BY <1>4, <1>5

\* At most one request gives up a block.
LEMMA OneHolder ==
    ASSUME Serving, NEW w \in Workers, NEW v \in Workers, v # w, Holding(thread[w])
    PROVE  ~Holding(thread[v])
<1>1. ASSUME NEW x \in Workers, Holding(thread[x])
      PROVE  Busy(x) /\ (FreesBlocks(thread[x]) \/ index_mutex = x)
  <2>1. PICK r : r = thread[x]
    OBVIOUS
  <2>2. Busy(x) /\ r.pc \in {"modify_bitmap_bits", "fclose", "bitmap_load", "bitmap_persist",
                             "relink", "stat"}
        /\ (r.pc \in {"bitmap_load", "bitmap_persist"} => r.op = "COMMIT")
    BY <1>1, <2>1 DEF Holding, Dropping, Busy
  <2>3. /\ r \in ThreadRecords /\ Consistent(r) /\ r # Waiting /\ r.op \in Operations
        /\ Knows(x, r) /\ r.n \in Nat /\ r.i \in Nat /\ Len(r.blocks) \in Nat
    BY <2>1, <2>2, Requesting, Numbers
  <2>4. CASE r.op = "COMMIT"
    <3>1. HoldsIndex(r)
      BY <2>2, <2>3, <2>4 DEF HoldsIndex, Consistent, CallsOf
    <3> QED
      BY <2>1, <2>2, <3>1 DEF Serving, Mutexes
  <2>5. CASE r.op # "COMMIT"
    <3>1. r.op \in {"DELETE", "TRUNCATE"} /\ r.pc \in Freeing
      BY <2>2, <2>3, <2>5 DEF Consistent, CallsOf, Operations, Freeing
    <3>2. r.n < r.i /\ r.i <= Len(r.blocks)
      BY <2>3, <3>1 DEF Knows, Matched, Copied, Consistent, PerBlock, Freeing
    <3> QED
      BY <2>1, <2>2, <2>3, <3>1, <3>2 DEF FreesBlocks
  <2> QED
    BY <2>4, <2>5
<1>2. ASSUME Holding(thread[v]) PROVE FALSE
  BY <1>1, <1>2 DEF Serving, ThreadInv, RunsAlone
<1> QED
  BY <1>2

\* The links of other File:Tags stay, and new ones are not to blocks that
\* nobody links to, unless the step took them.
LEMMA NewLinksTo ==
    ASSUME Serving, NEW w \in Workers, Moves(w), NewLinks(w), NEW p, p # NoBlock,
           NEW t \in FileTags, NEW k \in LogicalBlocks, links'[t][k] = p
    PROVE  \/ links[t][k] = p
           \/ owner[t] = w /\ Accessible(w, p)
           \/ owner[t] = w /\ Reserving(thread[w]) /\ p = thread[w].block
<1>1. CASE FileKept(t)
  BY <1>1 DEF FileKept
<1>2. CASE ~FileKept(t)
  <2>1. Modifies(w, t)
    BY <1>2 DEF Moves, OnlyOwn
  <2>2. thread[w].t = t /\ owner[t] = w
    BY <2>1 DEF Modifies, Serving, Ownership, Owned
  <2> QED
    BY <2>2 DEF NewLinks
<1> QED
  BY <1>1, <1>2

\* A block without a link gets one only from the request that took it.
LEMMA StaysUnlinked ==
    ASSUME Serving, NEW w \in Workers, Moves(w), NewLinks(w), NEW p, p # NoBlock,
           ~IsLinked(p, links), ~(Reserving(thread[w]) /\ thread[w].block = p)
    PROVE  ~IsLinked(p, links')
<1> SUFFICES ASSUME NEW t \in FileTags, NEW k \in LogicalBlocks, links'[t][k] = p
             PROVE  FALSE
  BY DEF IsLinked
<1> QED
  BY NewLinksTo DEF IsLinked, Accessible

\* What the request of v knows stays true when w makes a step.
LEMMA OthersMatched ==
    ASSUME Serving, NEW w \in Workers, Moves(w), NEW v \in Workers, v # w, Busy(v),
           NEW r, r = thread[v]
    PROVE  Matched(r)' /\ links'[r.t] = links[r.t] /\ links'[r.from] = links[r.from]
<1>1. r \in ThreadRecords /\ Knows(v, r)
  BY Requesting
<1>2. /\ metadata'[r.t] = metadata[r.t] /\ links'[r.t] = links[r.t]
      /\ metadata'[r.from] = metadata[r.from] /\ links'[r.from] = links[r.from]
  BY <1>1, OthersFiles DEF Serving, Moves, FileKept
<1>3. Matched(r)
  BY <1>1 DEF Knows
<1>4. Copied(r)'
  BY <1>2, <1>3 DEF Matched, Copied, BlockCount
<1> QED
  BY <1>2, <1>3, <1>4 DEF Matched

\* Blocks in hand have numbers.
LEMMA HandBlocks ==
    ASSUME Serving, NEW v \in Workers, Busy(v), NEW r, r = thread[v],
           Reserving(r) \/ Holding(r)
    PROVE  r.block \in bitmap /\ r.block # NoBlock
<1>1. r.block \in bitmap
  BY Requesting DEF Knows, InHand
<1>2. bitmap \subseteq 0..BitmapBits
  BY Numbers DEF Serving, ThreadTypes, TypeOK
<1> QED
  BY <1>1, <1>2, StorageAssumption

\* A step of w leaves the block another request has in hand marked and its copy
\* of the bitmap current.
LEMMA OthersInHand ==
    ASSUME Serving, NEW w \in Workers, Moves(w), Effects(w), NEW v \in Workers, v # w, Busy(v),
           NEW r, r = thread[v]
    PROVE  InHand(r)'
<1>1. r \in ThreadRecords /\ Consistent(r) /\ r # Waiting /\ InHand(r) /\ r.op \in Operations
  BY Requesting DEF Knows
<1>2. ASSUME Reserving(r) \/ Holding(r) PROVE r.block \in bitmap'
  <2>1. r.block \in bitmap
    BY <1>2, HandBlocks
  <2>2. ASSUME Dropping(thread[w]) PROVE thread[w].block # r.block
    <3>1. Holding(thread[w])
      BY <2>2 DEF Holding
    <3>2. ~Holding(r)
      BY <3>1, OneHolder
    <3> QED
      BY <1>2, <3>1, <3>2 DEF Serving, ThreadInv, TakenOnce
  <2> QED
    BY <2>1, <2>2 DEF Effects, BitmapMove
<1>3. ASSUME Reserving(r) \/ Dropping(r) PROVE ~IsLinked(r.block, links')
  <2>1. Reserving(r) \/ Holding(r)
    BY <1>3 DEF Holding
  <2>2. r.block # NoBlock /\ ~IsLinked(r.block, links)
    BY <1>1, <1>3, <2>1, HandBlocks DEF InHand
  <2>3. ~(Reserving(thread[w]) /\ thread[w].block = r.block)
    BY <2>1 DEF Serving, ThreadInv, TakenOnce
  <2> QED
    BY <2>2, <2>3, StaysUnlinked DEF Effects
<1>4. ASSUME r.pc = "bitmap_persist" \/ r.pc = "fclose" PROVE bitmap' = bitmap
  <2>1. ~Busy(w) \/ ~FreesBlocks(thread[w])
    BY DEF Serving, ThreadInv, RunsAlone
  <2>2. CASE r.pc = "bitmap_persist"
    <3>1. bitmap_mutex = v
      BY <1>1, <2>2 DEF HoldsBitmap, Serving, Mutexes
    <3>2. ~HoldsBitmap(thread[w])
      BY <3>1 DEF Serving, Mutexes
    <3> QED
      BY <2>1, <3>2 DEF Effects, BitmapMove, Dropping, Busy
  <2>3. CASE r.pc = "fclose"
    <3>1. Holding(r) /\ r.op # "COMMIT"
      BY <1>1, <2>3 DEF Holding, Dropping, Consistent, CallsOf
    <3>2. r.op \in {"DELETE", "TRUNCATE"} /\ r.pc \in Freeing
      BY <1>1, <2>3 DEF Consistent, CallsOf, Operations, Freeing
    <3>3. r.n < r.i /\ r.i <= Len(r.blocks) /\ r.n \in Nat /\ r.i \in Nat /\ Len(r.blocks) \in Nat
      BY <3>2, Requesting, Numbers DEF Knows, Matched, Copied, Consistent, PerBlock, Freeing
    <3>4. FreesBlocks(r)
      BY <3>2, <3>3 DEF FreesBlocks
    <3>5. ~Busy(w)
      BY <3>4 DEF Serving, ThreadInv, RunsAlone
    <3> QED
      BY <3>5 DEF Effects, BitmapMove, Dropping, HoldsBitmap, Busy
  <2> QED
    BY <1>4, <2>2, <2>3
<1> QED
  BY <1>1, <1>2, <1>3, <1>4 DEF InHand

\* A step of w leaves the copy of the hash index another request works on
\* current.
LEMMA OthersIndex ==
    ASSUME Serving, NEW w \in Workers, Moves(w), Effects(w), NEW v \in Workers, v # w, Busy(v),
           NEW r, r = thread[v]
    PROVE  IndexKnown(r)'
<1>1. IndexKnown(r) /\ links'[r.t] = links[r.t] /\ r.t \in FileTags
  BY Requesting, OthersMatched DEF Knows
<1>2. ASSUME HoldsIndex(r), NEW c \in Contents, r.index[c] # NoBlock
      PROVE  /\ content'[r.index[c]] = c
             /\ \/ SettledBlock(r.index[c])'
                \/ \E k \in LogicalBlocks : k < r.i /\ links'[r.t][k] = r.index[c]
  <2>1. content[r.index[c]] = c
    BY <1>1, <1>2 DEF IndexKnown
  <2>2. CASE SettledBlock(r.index[c])
    BY <1>2, <2>1, <2>2, SettledKept DEF Effects
  <2>3. CASE \E k \in LogicalBlocks : k < r.i /\ links[r.t][k] = r.index[c]
    <3>1. PICK k \in LogicalBlocks : k < r.i /\ links[r.t][k] = r.index[c]
      BY <2>3
    <3>2. ~Modifies(w, r.t)
      BY NotOthers DEF Serving
    <3>3. content'[links[r.t][k]] = content[links[r.t][k]]
      BY <1>1, <1>2, <3>1, <3>2, OthersContent DEF Effects
    <3> QED
      BY <1>1, <2>1, <3>1, <3>3
  <2> QED
    BY <1>1, <1>2, <2>2, <2>3 DEF IndexKnown
<1> QED
  BY <1>1, <1>2 DEF IndexKnown

\* A step of w makes no link to a block another WRITE found it holds alone, and
\* removes none that made such a block shared.
LEMMA OthersAccess ==
    ASSUME Serving, NEW w \in Workers, Moves(w), Effects(w), UNCHANGED owner,
           NEW v \in Workers, v # w, Busy(v), NEW r, r = thread[v]
    PROVE  AccessKnown(v, r)'
<1>1. /\ AccessKnown(v, r) /\ links'[r.t] = links[r.t] /\ r.t \in FileTags /\ Owned(v)
      /\ r \in ThreadRecords /\ Consistent(r)
  BY Requesting, OthersMatched DEF Knows
<1>2. ASSUME r.op = "WRITE", r.pc = "remove"
      PROVE  \E t \in FileTags, k \in LogicalBlocks :
                 /\ links'[t][k] = links'[r.t][r.i]
                 /\ t # r.t \/ k # r.i
                 /\ owner'[t] = v \/ Settled(t)'
  <2>1. PICK t \in FileTags, k \in LogicalBlocks :
            /\ links[t][k] = links[r.t][r.i]
            /\ t # r.t \/ k # r.i
            /\ owner[t] = v \/ Settled(t)
    BY <1>1, <1>2 DEF AccessKnown
  <2>2. CASE Settled(t)
    BY <1>1, <2>1, <2>2 DEF Effects, SettledMove
  <2>3. CASE owner[t] = v
    <3>1. ~Modifies(w, t)
      BY <2>3 DEF Serving, Ownership, Owned, Modifies
    <3>2. links'[t] = links[t]
      BY <3>1 DEF Moves, OnlyOwn, FileKept
    <3> QED
      BY <1>1, <2>1, <2>3, <3>2
  <2> QED
    BY <2>1, <2>2, <2>3
<1>3. ASSUME r.op = "WRITE", r.pc \in {"save_file_metadata", "fopen", "access"}
      PROVE  OnlyLink(r.t, r.i)'
  <2>1. r.i \in LogicalBlocks /\ links[r.t][r.i] \in Blocks /\ OnlyLink(r.t, r.i)
    BY <1>3, WritesOwn
  <2>2. ASSUME NEW t \in FileTags, NEW k \in LogicalBlocks, links'[t][k] = links'[r.t][r.i]
        PROVE  t = r.t /\ k = r.i
    <3>1. PICK p : p = links[r.t][r.i]
      OBVIOUS
    <3>2. p # NoBlock /\ links'[t][k] = p
      BY <1>1, <2>1, <2>2, <3>1, Numbers
    <3>3. CASE links[t][k] = p
      BY <2>1, <3>1, <3>3 DEF OnlyLink
    <3>4. CASE owner[t] = w /\ Accessible(w, p)
      <4>1. owner[r.t] = w \/ Settled(r.t)
        BY <2>1, <3>1, <3>4 DEF Accessible, OnlyLink
      <4>2. owner[r.t] = v /\ Modifies(v, r.t)
        BY <1>1, <1>3 DEF Owned, Modifies
      <4>3. Settled(r.t)
        BY <4>1, <4>2
      <4>4. r.op = "COMMIT"
        BY <1>1, <4>2, <4>3, SettledFree DEF Committing
      <4> QED
        BY <1>3, <4>4
    <3>5. CASE Reserving(thread[w]) /\ p = thread[w].block
      <4>1. Busy(w) /\ ~IsLinked(p, links)
        BY <3>5, Requesting DEF Reserving, Busy, Knows, InHand
      <4> QED
        BY <1>1, <2>1, <3>1, <4>1 DEF IsLinked
    <3> QED
      BY <3>2, <3>3, <3>4, <3>5, NewLinksTo DEF Effects
  <2> QED
    BY <2>2 DEF OnlyLink
<1>4. r.pc = "access" => r.block = links'[r.t][r.i]
  BY <1>1 DEF AccessKnown
<1> QED
  BY <1>2, <1>3, <1>4 DEF AccessKnown

\* A step of w leaves the data another request found as it found them.
LEMMA OthersRemember ==
    ASSUME Serving, NEW w \in Workers, Moves(w), Effects(w), NEW v \in Workers, v # w, Busy(v),
           NEW r, r = thread[v]
    PROVE  Remembers(r)'
<1>1. /\ Remembers(r) /\ links'[r.t] = links[r.t] /\ r.t \in FileTags
      /\ Len(r.blocks) \in 0..MaxBlocks
  BY Requesting, OthersMatched DEF Knows
<1>2. ASSUME NEW k \in 1..Len(r.blocks), links[r.t][k] # NoBlock
      PROVE  content'[links[r.t][k]] = content[links[r.t][k]]
  <2>1. k \in LogicalBlocks
    BY <1>1, Numbers DEF LogicalBlocks
  <2>2. ~Modifies(w, r.t)
    BY NotOthers DEF Serving
  <2> QED
    BY <1>1, <1>2, <2>1, <2>2, OthersContent DEF Effects
<1> QED
  BY <1>1, <1>2 DEF Remembers

\* All together.
LEMMA OthersKnow ==
    ASSUME Serving, NEW w \in Workers, Moves(w), Effects(w), UNCHANGED owner,
           NEW v \in Workers, v # w, Busy(v)'
    PROVE  Knows(v, thread[v])'
<1>1. PICK r : r = thread[v]
  OBVIOUS
<1>2. thread'[v] = r /\ Busy(v)
  BY <1>1 DEF Moves, Others, Busy
<1>3. Knows(v, r)'
  BY <1>1, <1>2, OthersMatched, OthersInHand, OthersIndex, OthersAccess, OthersRemember DEF Knows
<1> QED
  BY <1>2, <1>3

-----------------------------------------------------------------------------
(* What all requests together keep.                                        *)

\* A request that frees blocks stays the only one.
LEMMA AloneStep ==
    ASSUME Serving, NEW w \in Workers, Moves(w), AloneMove(w)
    PROVE  RunsAlone'
<1> SUFFICES ASSUME NEW x \in Workers, NEW v \in Workers, Busy(x)', Busy(v)',
                    FreesBlocks(thread'[x]), v # x
             PROVE  FALSE
  BY DEF RunsAlone
<1>1. RunsAlone /\ \A y \in Workers \ {w} : thread'[y] = thread[y]
  BY DEF Serving, ThreadInv, Moves, Others
<1>2. CASE x # w /\ v # w
  BY <1>1, <1>2 DEF RunsAlone, Busy
<1>3. CASE x = w
  <2>1. Busy(v)
    BY <1>1, <1>3 DEF Busy
  <2>2. Busy(w) /\ FreesBlocks(thread[w])
    BY <1>3, <2>1 DEF AloneMove
  <2> QED
    BY <1>1, <1>3, <2>1, <2>2 DEF RunsAlone
<1>4. CASE v = w /\ x # w
  <2>1. Busy(x) /\ FreesBlocks(thread[x])
    BY <1>1, <1>4 DEF Busy
  <2>2. Busy(w)
    BY <1>4, <2>1 DEF AloneMove
  <2> QED
    BY <1>1, <1>4, <2>1, <2>2 DEF RunsAlone
<1> QED
  BY <1>2, <1>3, <1>4

\* initial_file:BASE keeps its block.
LEMMA BaseStep ==
    ASSUME Serving, NEW w \in Workers, Moves(w), ContentMove(w)
    PROVE  BaseThere'
<1>1. BaseThere /\ Protected \in FileTags /\ 1 \in LogicalBlocks
  BY StorageAssumption, Numbers DEF Serving, ThreadInv
<1>2. FileKept(Protected) /\ Closed(Protected)' /\ ~Modifies(w, Protected)
  BY <1>1, ClosedFiles DEF BaseThere, Serving, Moves
<1>3. content'[0] = content[0]
  BY <1>1, <1>2, OthersContent, Numbers DEF BaseThere
<1> QED
  BY <1>1, <1>2, <1>3 DEF BaseThere, FileKept

\* Every block with a link stays marked in the bitmap.
LEMMA MarkedStep ==
    ASSUME Serving, NEW w \in Workers, Moves(w), Effects(w)
    PROVE  LinksMarked'
<1> SUFFICES ASSUME NEW t \in FileTags, NEW k \in LogicalBlocks, links'[t][k] # NoBlock
             PROVE  links'[t][k] \in bitmap'
  BY DEF LinksMarked
<1>1. PICK p : p = links'[t][k]
  OBVIOUS
<1>2. p \in bitmap /\ (Dropping(thread[w]) => thread[w].block # p)
  <2>1. CASE IsLinked(p, links)
    <3>1. p \in bitmap
      BY <1>1, <2>1 DEF IsLinked, Serving, ThreadInv, LinksMarked
    <3>2. Dropping(thread[w]) => Busy(w) /\ ~IsLinked(thread[w].block, links)
      BY Requesting DEF Dropping, Busy, Knows, InHand
    <3> QED
      BY <2>1, <3>1, <3>2
  <2>2. CASE Reserving(thread[w]) /\ p = thread[w].block
    <3>1. Busy(w)
      BY <2>2 DEF Reserving, Busy
    <3> QED
      BY <2>2, <3>1, HandBlocks DEF Reserving, Dropping
  <2>3. \/ IsLinked(p, links)
        \/ Reserving(thread[w]) /\ p = thread[w].block
    BY <1>1, NewLinksTo DEF Effects, IsLinked, Accessible
  <2> QED
    BY <2>1, <2>2, <2>3
<1> QED
  BY <1>1, <1>2 DEF Effects, BitmapMove

\* Every marked block has a link or is in the hand of a request.
LEMMA UsedStep ==
    ASSUME Serving, NEW w \in Workers, Moves(w), Effects(w)
    PROVE  MarksUsed'
<1> SUFFICES ASSUME NEW p \in bitmap' \cap Blocks, ~IsLinked(p, links')
             PROVE  \E v \in Workers : /\ Reserving(thread'[v]) \/ Holding(thread'[v])
                                       /\ thread'[v].block = p
  BY DEF MarksUsed
<1>1. PICK r, q : r = thread[w] /\ q = thread'[w]
  OBVIOUS
<1>2. CASE p \in bitmap
  <2>1. CASE IsLinked(p, links)
    BY <1>2, <2>1 DEF Effects, LinksKept
  <2>2. CASE \E v \in Workers : /\ Reserving(thread[v]) \/ Holding(thread[v])
                                /\ thread[v].block = p
    <3>1. PICK v \in Workers : /\ Reserving(thread[v]) \/ Holding(thread[v])
                               /\ thread[v].block = p
      BY <2>2
    <3>2. CASE v # w
      BY <3>1, <3>2 DEF Moves, Others
    <3>3. CASE v = w
      BY <3>1, <3>3 DEF Effects, HandMove
    <3> QED
      BY <3>2, <3>3
  <2> QED
    BY <1>2, <2>1, <2>2 DEF Serving, ThreadInv, MarksUsed
<1>3. CASE p \notin bitmap
  <2>1. bitmap' # bitmap /\ p = r.block /\ HoldsBitmap(r) /\ r.op = "WRITE"
    BY <1>1, <1>3 DEF Effects, BitmapMove
  <2>2. ~Dropping(r)
    BY <2>1 DEF Dropping, HoldsBitmap
  <2> QED
    BY <1>1, <2>1, <2>2 DEF Effects, HandMove
<1> QED
  BY <1>2, <1>3

\* No two requests get the same block from the bitmap.
LEMMA TakenStep ==
    ASSUME Serving, NEW w \in Workers, Moves(w), Effects(w)
    PROVE  TakenOnce'
<1> SUFFICES ASSUME NEW x \in Workers, NEW v \in Workers, v # x, Reserving(thread'[x]),
                    Reserving(thread'[v]) \/ Holding(thread'[v]),
                    thread'[v].block = thread'[x].block
             PROVE  FALSE
  BY DEF TakenOnce
<1>1. TakenOnce /\ \A y \in Workers \ {w} : thread'[y] = thread[y]
  BY DEF Serving, ThreadInv, Moves, Others
<1>2. ASSUME NEW y \in Workers, Reserving(thread[y]) \/ Holding(thread[y])
      PROVE  Busy(y) /\ thread[y].block \in bitmap /\ thread[y].block # NoBlock
  <2>1. Busy(y)
    BY <1>2 DEF Reserving, Holding, Dropping, Busy
  <2> QED
    BY <1>2, <2>1, HandBlocks
<1>3. CASE x # w /\ v # w
  BY <1>1, <1>3 DEF TakenOnce
<1>4. CASE x = w
  BY <1>1, <1>2, <1>4 DEF Effects, HandMove
<1>5. CASE v = w /\ x # w
  <2>1. Reserving(thread[x]) /\ thread[x].block = thread'[w].block
    BY <1>1, <1>5
  <2>2. ~IsLinked(thread[x].block, links) /\ thread[x].block \in bitmap
    BY <1>2, <2>1, Requesting DEF Knows, InHand
  <2>3. Holding(thread[w]) /\ thread'[w].block = thread[w].block
    BY <1>5, <2>1, <2>2 DEF Effects, HandMove
  <2> QED
    BY <1>1, <1>5, <2>1, <2>3 DEF TakenOnce
<1> QED
  BY <1>3, <1>4, <1>5

\* A block that File:Tags of two Workers link to is one nobody writes.
LEMMA SharedStep ==
    ASSUME Serving, NEW w \in Workers, Moves(w), Effects(w), UNCHANGED owner
    PROVE  SharedSettled'
<1> SUFFICES ASSUME NEW t \in FileTags, NEW u \in FileTags,
                    NEW i \in LogicalBlocks, NEW k \in LogicalBlocks,
                    owner[t] # owner[u], links'[t][i] = links'[u][k], links'[t][i] # NoBlock
             PROVE  SettledBlock(links[t][i])'
  BY DEF SharedSettled
<1>1. PICK p : p = links'[t][i]
  OBVIOUS
<1>2. p # NoBlock /\ links'[u][k] = p
  BY <1>1
<1>3. ASSUME NEW a \in FileTags, NEW b \in FileTags, NEW m \in LogicalBlocks,
             NEW n \in LogicalBlocks, owner[a] # owner[b], links[a][m] = p, links[b][n] = p
      PROVE  SettledBlock(p)
  BY <1>2, <1>3 DEF Serving, ThreadInv, SharedSettled
<1>4. ASSUME NEW a \in FileTags, NEW b \in FileTags, NEW m \in LogicalBlocks,
             NEW n \in LogicalBlocks, owner[a] # owner[b], links'[a][m] = p,
             links[b][n] = p
      PROVE  SettledBlock(p)
  <2>1. CASE links[a][m] = p
    BY <1>3, <1>4, <2>1
  <2>2. CASE owner[a] = w /\ Accessible(w, p)
    <3>1. PICK c \in FileTags, l \in LogicalBlocks : links[c][l] = p /\ (owner[c] = w \/ Settled(c))
      BY <2>2 DEF Accessible
    <3>2. CASE Settled(c)
      BY <3>1, <3>2 DEF SettledBlock
    <3>3. CASE owner[c] = w
      BY <1>3, <1>4, <2>2, <3>1, <3>3
    <3> QED
      BY <3>1, <3>2, <3>3
  <2>3. CASE Reserving(thread[w]) /\ p = thread[w].block
    <3>1. Busy(w) /\ ~IsLinked(p, links)
      BY <2>3, Requesting DEF Reserving, Busy, Knows, InHand
    <3> QED
      BY <1>4, <3>1 DEF IsLinked
  <2> QED
    BY <1>2, <1>4, <2>1, <2>2, <2>3, NewLinksTo DEF Effects
<1>5. SettledBlock(p)
  <2>1. CASE owner[t] # w
    <3>1. links[t][i] = p
      BY <1>1, <1>2, <2>1, NewLinksTo DEF Effects
    <3> QED
      BY <1>2, <1>4, <3>1
  <2>2. CASE owner[u] # w
    <3>1. links[u][k] = p
      BY <1>2, <2>2, NewLinksTo DEF Effects
    <3> QED
      BY <1>1, <1>4, <3>1
  <2> QED
    BY <2>1, <2>2
<1>6. SettledBlock(p)'
  BY <1>2, <1>5, SettledKept DEF Effects
<1> QED
  BY <1>1, <1>6

\* The hash index names blocks with that content that nobody writes.
LEMMA IndexStep ==
    ASSUME Serving, NEW w \in Workers, Moves(w), Effects(w)
    PROVE  IndexSettled'
<1>1. CASE hash_index' = hash_index
  <2>1. ASSUME NEW c \in Contents, hash_index'[c] # NoBlock
        PROVE  content'[hash_index'[c]] = c /\ SettledBlock(hash_index[c])'
    <3>1. PICK p : p = hash_index[c]
      OBVIOUS
    <3>2. content[p] = c /\ SettledBlock(p) /\ p # NoBlock
      BY <1>1, <2>1, <3>1 DEF Serving, ThreadInv, IndexSettled
    <3>3. content'[p] = c /\ SettledBlock(p)'
      BY <3>2, SettledKept DEF Effects
    <3> QED
      BY <1>1, <3>1, <3>3
  <2> QED
    BY <2>1 DEF IndexSettled
<1>2. CASE hash_index' # hash_index
  BY <1>2 DEF Effects, IndexMove, IndexSettled
<1> QED
  BY <1>1, <1>2

\* A File:Tag that no request changes has the links its metadata names.
LEMMA SettlesStep ==
    ASSUME Serving, NEW w \in Workers, Moves(w), EndMove(w)
    PROVE  Settles'
<1> SUFFICES ASSUME NEW t \in FileTags, \A v \in Workers : ~Modifies(v, t)'
             PROVE  \A k \in LogicalBlocks : links'[t][k] = Named(t, k)'
  BY DEF Settles
<1>1. CASE Modifies(w, t)
  BY <1>1 DEF EndMove
<1>2. CASE ~Modifies(w, t)
  <2>1. \A v \in Workers : ~Modifies(v, t)
    BY <1>2 DEF Moves, Others, Modifies, Busy
  <2>2. FileKept(t)
    BY <1>2 DEF Moves, OnlyOwn
  <2>3. \A k \in LogicalBlocks : links[t][k] = Named(t, k)
    BY <2>1 DEF Serving, ThreadInv, Settles
  <2>4. \A k \in LogicalBlocks : Named(t, k)' = Named(t, k)
    BY <2>2 DEF FileKept, Named, Exists, BlockCount
  <2> QED
    BY <2>2, <2>3, <2>4 DEF FileKept
<1> QED
  BY <1>1, <1>2

\* A step with these effects keeps what all requests together know.
LEMMA InvStep ==
    ASSUME Serving, NEW w \in Workers, Moves(w), Effects(w), UNCHANGED owner,
           Busy(w)' => Knows(w, thread[w])'
    PROVE  ThreadInv'
<1>1. \A v \in Workers : Busy(v)' => Knows(v, thread[v])'
  BY OthersKnow
<1> QED
  BY <1>1, AloneStep, BaseStep, MarkedStep, UsedStep, TakenStep, SharedStep, IndexStep,
    SettlesStep DEF Effects, ThreadInv

-----------------------------------------------------------------------------
(* The steps of a request, one by one.                                     *)

\* What a step leaves of the requests' knowledge.
Retains(w) == Effects(w) /\ (Busy(w)' => Knows(w, thread[w])')

\* What follows from the shape of a step.
LEMMA SettledFrame ==
    ASSUME Serving, NEW w \in Workers, Moves(w),
           Busy(w) => ~(thread[w].op = "COMMIT" /\ thread[w].pc = "save_file_metadata")
    PROVE  SettledMove(w)
<1> SUFFICES ASSUME NEW t \in FileTags, Settled(t)
             PROVE  Settled(t)' /\ links'[t] = links[t]
  BY DEF SettledMove
<1>1. CASE Closed(t)
  BY <1>1, ClosedFiles DEF Serving, Moves, FileKept, Settled
<1>2. CASE ~Closed(t)
  <2>1. PICK v \in Workers : Committing(thread[v], t)
    BY <1>2 DEF Settled
  <2>2. v # w /\ Busy(v) /\ thread[v].t = t
    BY <2>1 DEF Committing, Busy
  <2>3. ~Modifies(w, t)
    BY <2>2, NotOthers DEF Serving
  <2>4. thread'[v] = thread[v] /\ links'[t] = links[t]
    BY <2>2, <2>3 DEF Moves, Others, OnlyOwn, FileKept
  <2> QED
    BY <2>1, <2>4 DEF Settled
<1> QED
  BY <1>1, <1>2

\* The request goes on, with as many blocks, or ends.
LEMMA StepFrame ==
    ASSUME Serving, NEW w \in Workers, Moves(w), Busy(w), NEW r, r = thread[w],
           NEW q, q = thread'[w], q = Waiting \/ Len(q.blocks) = Len(r.blocks)
    PROVE  /\ AloneMove(w)
           /\ q # Waiting \/ r.op = "READ" => EndMove(w)
           /\ links' = links => NewLinks(w) /\ LinksKept(w)
           /\ bitmap' = bitmap => BitmapMove(w)
           /\ content' = content => ContentMove(w)
           /\ hash_index' = hash_index => IndexMove(w)
<1>1. q = Waiting \/ (q.op = r.op /\ q.t = r.t /\ q.n = r.n)
  BY DEF Moves, Continues, Busy
<1>2. AloneMove(w)
  BY <1>1 DEF AloneMove, FreesBlocks, Busy
<1>3. q # Waiting \/ r.op = "READ" => EndMove(w)
  BY <1>1 DEF EndMove, Modifies, Busy
<1> QED
  BY <1>2, <1>3 DEF NewLinks, LinksKept, BitmapMove, ContentMove, IndexMove

\* The calls at which a request has a block in hand.
HandCalls == {"modify_bitmap_bits", "fclose", "bitmap_load", "bitmap_persist", "relink", "stat",
              "create_new_hardlink"}

\* No block is in hand.
LEMMA NoHands ==
    ASSUME NEW w, NEW r, r = thread[w], NEW q, q = thread'[w], bitmap' = bitmap,
           r = Waiting \/ r.pc \notin HandCalls, q = Waiting \/ q.pc \notin HandCalls
    PROVE  HandMove(w)
BY DEF HandMove, Holding, Dropping, Reserving, HandCalls

\* Nothing is known about a block in hand, the index, or the block to access.
LEMMA NothingElse ==
    ASSUME NEW w, NEW q, q.pc \notin HandCalls,
           q.op \notin {"COMMIT", "WRITE"}, q.pc # "access"
    PROVE  InHand(q)' /\ IndexKnown(q)' /\ AccessKnown(w, q)'
BY DEF InHand, IndexKnown, AccessKnown, HandCalls, Holding, Dropping, Reserving, HoldsIndex

\* Links as the request expects them.
LEMMA LinkAsExpected ==
    ASSUME NEW r, Matched(r), r.op # "READ", NEW k \in LogicalBlocks
    PROVE  links[r.t][k] = Expect(r, k)
BY DEF Matched

\* CREATE makes no links, and TAG none before it copies them.
LEMMA NoneExpected ==
    ASSUME NEW r, r.op \in {"CREATE", "TAG"}, r.op = "TAG" => r.pc # "create_metadata",
           r.op = "CREATE" => r.blocks = <<>>, NEW k \in LogicalBlocks
    PROVE  Expect(r, k) = NoBlock
<1>1. r.op = "CREATE" => k > Len(r.blocks)
  BY Numbers DEF LogicalBlocks
<1> QED
  BY <1>1 DEF Expect

\* mkdir of CREATE and TAG.
LEMMA MkdirKeeps ==
    ASSUME Serving, NEW w \in Workers, mkdir(w), Moves(w)
    PROVE  Retains(w)
<1>1. PICK r, q : r = thread[w] /\ q = thread'[w]
  OBVIOUS
<1>2. Busy(w) /\ r.pc = "mkdir"
  BY <1>1 DEF mkdir, Calls
<1>3. /\ Knows(w, r) /\ Owned(w) /\ r.t \in FileTags /\ Len(r.blocks) \in 0..MaxBlocks
      /\ r.blocks \in Seq(Blocks)
  BY <1>1, <1>2, Requesting
<1>4. PICK pc : pc = IF r.op = "TAG" THEN "cp -rl" ELSE "create_metadata"
  OBVIOUS
<1>5. /\ r.op \in {"CREATE", "TAG"}
      /\ UNCHANGED <<metadata, links, bitmap, content, hash_index>>
      /\ q = Waiting \/ (Goes(q, r, pc, r.i) /\ Keeping(q, r))
  BY <1>1, <1>4, MkdirDone DEF Serving
<1>6. \A k \in LogicalBlocks : links[r.t][k] = NoBlock
  <2>1. ASSUME NEW k \in LogicalBlocks PROVE links[r.t][k] = NoBlock
    <3>1. links[r.t][k] = Expect(r, k) /\ (r.op = "CREATE" => r.blocks = <<>>)
      BY <1>3, <1>5 DEF Knows, Matched, Copied
    <3> QED
      BY <1>2, <1>5, <3>1, NoneExpected
  <2> QED
    BY <2>1
<1>7. ASSUME q # Waiting PROVE Knows(w, q)'
  <2>1. /\ q.op = r.op /\ q.t = r.t /\ q.from = r.from /\ q.before = r.before
        /\ q.blocks = r.blocks /\ q.pc = pc /\ q.i = r.i
    BY <1>5, <1>7 DEF Goes, Keeping
  <2>2. Copied(q)'
    BY <1>3, <1>4, <1>5, <2>1 DEF Knows, Matched, Copied, BlockCount
  <2>3. \A k \in LogicalBlocks : Expect(q, k) = NoBlock
    <3>1. q.op = "CREATE" => q.blocks = <<>>
      BY <1>3, <2>1 DEF Knows, Matched, Copied
    <3>2. q.op \in {"CREATE", "TAG"} /\ (q.op = "TAG" => q.pc # "create_metadata")
      BY <1>4, <1>5, <2>1
    <3> QED
      BY <3>1, <3>2, NoneExpected
  <2>4. Matched(q)'
    BY <1>5, <1>6, <2>1, <2>2, <2>3 DEF Matched
  <2>5. InHand(q)' /\ IndexKnown(q)' /\ AccessKnown(w, q)'
    BY <1>4, <1>5, <2>1, NothingElse DEF HandCalls
  <2>6. Remembers(q)'
    BY <1>3, <1>5, <2>1 DEF Knows, Remembers
  <2> QED
    BY <2>4, <2>5, <2>6 DEF Knows
<1>8. SettledMove(w)
  BY <1>1, <1>2, SettledFrame
<1>9. q = Waiting \/ Len(q.blocks) = Len(r.blocks)
  BY <1>5 DEF Keeping
<1>10. HandMove(w)
  BY <1>1, <1>2, <1>4, <1>5, NoHands DEF HandCalls, Goes
<1>11. EndMove(w)
  <2>1. CASE q # Waiting
    BY <1>1, <1>2, <1>9, <2>1, StepFrame
  <2>2. CASE q = Waiting
    <3>1. ~Exists(r.t)
      BY <1>1, <1>3, <1>5 DEF Owned
    <3> QED
      BY <1>1, <1>5, <1>6, <3>1 DEF EndMove, Modifies, Named, Exists
  <2> QED
    BY <2>1, <2>2
<1>12. Effects(w)
  BY <1>1, <1>2, <1>5, <1>8, <1>9, <1>10, <1>11, StepFrame DEF Effects
<1> QED
  BY <1>1, <1>7, <1>12 DEF Retains, Busy

\* What nobody is at work on has the links its metadata names.
LEMMA NamedLinks ==
    ASSUME Serving, NEW w \in Workers, NEW t \in FileTags, owner[t] = w \/ Closed(t),
           ~Modifies(w, t), NEW k \in LogicalBlocks
    PROVE  links[t][k] = Named(t, k)
<1>1. ASSUME NEW v \in Workers, Modifies(v, t) PROVE FALSE
  <2>1. owner[t] = v /\ ~Closed(t)
    BY <1>1 DEF Serving, Ownership, Owned, Modifies
  <2> QED
    BY <1>1, <2>1
<1> QED
  BY <1>1 DEF Serving, ThreadInv, Settles

\* cp -rl of TAG: the new File:Tag has no links, so all are copied.
LEMMA CopyLinksKeeps ==
    ASSUME Serving, NEW w \in Workers, CopyLinks(w), Moves(w)
    PROVE  Retains(w)
<1>1. PICK r, q : r = thread[w] /\ q = thread'[w]
  OBVIOUS
<1>2. Busy(w) /\ r.pc = "cp -rl"
  BY <1>1 DEF CopyLinks, Calls
<1>3. /\ Knows(w, r) /\ Owned(w) /\ r.t \in FileTags /\ Len(r.blocks) \in 0..MaxBlocks
      /\ r.blocks \in Seq(Blocks) /\ r.from \in FileTags
  BY <1>1, <1>2, Requesting
<1>4. /\ r.op = "TAG"
      /\ UNCHANGED <<metadata, bitmap, content, hash_index>>
      /\ links' = [links EXCEPT ![r.t] = [i \in LogicalBlocks |->
                     IF links[r.t][i] = NoBlock THEN links[r.from][i] ELSE links[r.t][i]]]
      /\ \/ q = Waiting /\ \E i \in LogicalBlocks :
                links[r.t][i] \notin {NoBlock, links[r.from][i]}
         \/ Goes(q, r, "create_metadata", r.i) /\ Keeping(q, r)
  BY <1>1, CopyLinksDone DEF Serving
<1>5. ~Exists(r.t) /\ Exists(r.from) /\ r.from # r.t /\ (owner[r.from] = w \/ Closed(r.from))
  BY <1>1, <1>3, <1>4 DEF Owned
<1>6. \A k \in LogicalBlocks : links[r.t][k] = NoBlock
  <2>1. ASSUME NEW k \in LogicalBlocks PROVE links[r.t][k] = NoBlock
    <3>1. links[r.t][k] = Expect(r, k)
      BY <1>3, <1>4, LinkAsExpected DEF Knows
    <3>2. r.op \in {"CREATE", "TAG"} /\ r.op # "CREATE" /\ r.pc # "create_metadata"
      BY <1>2, <1>4
    <3> QED
      BY <3>1, <3>2, NoneExpected
  <2> QED
    BY <2>1
<1>7. \A k \in LogicalBlocks : links[r.from][k] = Named(r.from, k)
  <2>1. ~Modifies(w, r.from)
    BY <1>1, <1>5 DEF Modifies
  <2> QED
    BY <1>3, <1>5, <2>1, NamedLinks
<1>8. /\ \A k \in LogicalBlocks : links'[r.t][k] = links[r.from][k]
      /\ \A u \in FileTags \ {r.t} : links'[u] = links[u]
  <2>1. /\ links'[r.t] = [i \in LogicalBlocks |->
                     IF links[r.t][i] = NoBlock THEN links[r.from][i] ELSE links[r.t][i]]
        /\ \A u \in FileTags \ {r.t} : links'[u] = links[u]
    BY <1>3, <1>4, AllLinks DEF Serving, ThreadTypes
  <2> QED
    BY <1>6, <2>1
<1>9. Goes(q, r, "create_metadata", r.i) /\ Keeping(q, r)
  BY <1>4, <1>6
<1>10. /\ q.op = "TAG" /\ q.t = r.t /\ q.from = r.from /\ q.before = r.before
       /\ q.blocks = r.blocks /\ q.pc = "create_metadata" /\ q \in ThreadRecords
  BY <1>4, <1>9 DEF Goes, Keeping
<1>11. Knows(w, q)'
  <2>1. Copied(q)' /\ r.blocks = metadata[r.from].blocks
    BY <1>3, <1>4, <1>10 DEF Knows, Matched, Copied
  <2>2. ASSUME NEW k \in LogicalBlocks PROVE links'[q.t][k] = Expect(q, k)
    <3>1. links'[q.t][k] = Named(r.from, k) /\ k \in Nat
      BY <1>7, <1>8, <1>10, <2>2, Numbers
    <3>2. Named(r.from, k) = IF k <= Len(r.blocks) THEN r.blocks[k] ELSE NoBlock
      BY <1>5, <2>1 DEF Named, BlockCount
    <3>3. Expect(q, k) = IF k > Len(r.blocks) THEN NoBlock ELSE r.blocks[k]
      BY <1>10 DEF Expect, Unlinked
    <3> QED
      BY <1>3, <3>1, <3>2, <3>3
  <2>3. Matched(q)'
    BY <2>1, <2>2 DEF Matched
  <2>4. InHand(q)' /\ IndexKnown(q)' /\ AccessKnown(w, q)'
    BY <1>10, NothingElse DEF HandCalls
  <2>5. Remembers(q)'
    BY <1>3, <1>4, <1>10 DEF Knows, Remembers
  <2> QED
    BY <2>3, <2>4, <2>5 DEF Knows
<1>12. NewLinks(w)
  <2>1. ASSUME NEW k \in LogicalBlocks PROVE Accessible(w, links'[r.t][k])
    BY <1>3, <1>5, <1>8 DEF Accessible, Settled
  <2> QED
    BY <1>1, <2>1 DEF NewLinks
<1>13. LinksKept(w)
  <2>1. ASSUME NEW p \in Blocks, NEW t \in FileTags, NEW k \in LogicalBlocks, links[t][k] = p
        PROVE  IsLinked(p, links')
    BY <1>6, <1>8, <2>1, Numbers DEF IsLinked
  <2> QED
    BY <2>1 DEF LinksKept, IsLinked
<1>14. SettledMove(w)
  BY <1>1, <1>2, SettledFrame
<1>15. HandMove(w)
  BY <1>1, <1>2, <1>4, <1>10, NoHands DEF HandCalls
<1>16. q # Waiting
  BY <1>10, ThreadsAssumption
<1>17. Effects(w)
  BY <1>1, <1>2, <1>4, <1>10, <1>12, <1>13, <1>14, <1>15, <1>16, StepFrame DEF Effects
<1> QED
  BY <1>1, <1>11, <1>17 DEF Retains

\* create_metadata of CREATE and TAG.
LEMMA CreateMetadataKeeps ==
    ASSUME Serving, NEW w \in Workers, create_metadata(w), Moves(w)
    PROVE  Retains(w)
<1>1. PICK r, q : r = thread[w] /\ q = thread'[w]
  OBVIOUS
<1>2. Busy(w) /\ r.pc = "create_metadata"
  BY <1>1 DEF create_metadata, Calls
<1>3. /\ Knows(w, r) /\ Owned(w) /\ r.t \in FileTags /\ Len(r.blocks) \in 0..MaxBlocks
      /\ r.blocks \in Seq(Blocks)
  BY <1>1, <1>2, Requesting
<1>4. /\ q = Waiting /\ r.op \in {"CREATE", "TAG"}
      /\ UNCHANGED <<links, bitmap, content, hash_index>>
      /\ metadata' = [metadata EXCEPT ![r.t] = [blocks |-> r.blocks,
                                                state |-> "WORK_IN_PROGRESS"]]
  BY <1>1, CreateMetadataDone DEF Serving
<1>5. EndMove(w)
  <2>1. metadata'[r.t] = [blocks |-> r.blocks, state |-> "WORK_IN_PROGRESS"]
    BY <1>3, <1>4, OneFileChanges DEF Serving, ThreadTypes
  <2>2. Exists(r.t)' /\ BlockCount(r.t)' = Len(r.blocks) /\ metadata'[r.t].blocks = r.blocks
    BY <1>3, <2>1, FilesExist DEF Exists, BlockCount, Files
  <2>3. ASSUME NEW k \in LogicalBlocks PROVE links'[r.t][k] = Named(r.t, k)'
    <3>1. links'[r.t][k] = Expect(r, k) /\ k \in Nat
      BY <1>3, <1>4, LinkAsExpected, Numbers DEF Knows
    <3>2. Expect(r, k) = IF k > Len(r.blocks) THEN NoBlock ELSE r.blocks[k]
      BY <1>2, <1>4 DEF Expect, Unlinked
    <3> QED
      BY <1>3, <2>2, <3>1, <3>2 DEF Named
  <2> QED
    BY <1>1, <2>3 DEF EndMove, Modifies
<1>6. SettledMove(w)
  BY <1>1, <1>2, SettledFrame
<1>7. HandMove(w)
  BY <1>1, <1>2, <1>4, NoHands DEF HandCalls
<1>8. Effects(w)
  BY <1>1, <1>2, <1>4, <1>5, <1>6, <1>7, StepFrame DEF Effects
<1> QED
  BY <1>1, <1>4, <1>8 DEF Retains, Busy

\* A loop that goes on to the next block leaves what the request expects.
LEMMA TurnMatched ==
    ASSUME NEW r \in ThreadRecords, Consistent(r), Matched(r), r.i \in LogicalBlocks,
           \/ r.op \in {"DELETE", "TRUNCATE"} /\ r.pc \in Freeing
           \/ r.op = "COMMIT" /\ r.pc \in {"stat", "bitmap_persist", "read_block_content"},
           NEW q, Goes(q, r, AfterTurn(r), r.i + 1), q.blocks = r.blocks,
           UNCHANGED <<metadata, links>>
    PROVE  Matched(q)'
<1>1. /\ q.op = r.op /\ q.t = r.t /\ q.from = r.from /\ q.n = r.n
      /\ q.i = r.i + 1 /\ q.pc = AfterTurn(r)
  BY DEF Goes
<1>2. r.i \in Nat /\ r.n \in Nat /\ Len(r.blocks) \in Nat /\ r.i <= Len(r.blocks)
  BY Numbers DEF ThreadRecords, Consistent, PerBlock, Freeing
<1>3. CASE r.op = "COMMIT"
  <2>1. q.pc \in {"read_block_content", "config_save"} /\ q.op = "COMMIT"
    BY <1>1, <1>3 DEF AfterTurn, AfterLookUp
  <2>2. Copied(q)'
    BY <1>1, <1>3, <2>1 DEF Matched, Copied, BlockCount
  <2>3. \A k : Expect(q, k) = Expect(r, k)
    BY <1>1, <1>3, <2>1 DEF Expect, Unlinked, Freeing
  <2> QED
    BY <1>1, <1>3, <2>2, <2>3 DEF Matched
<1>4. CASE r.op \in {"DELETE", "TRUNCATE"} /\ r.pc \in Freeing
  <2>1. r.n < r.i
    BY <1>4 DEF Matched, Copied
  <2>2. \/ q.pc = "delete_logical_block" /\ r.i + 1 <= Len(r.blocks)
        \/ q.pc = "delete_file_dir_structure" /\ r.i = Len(r.blocks) /\ r.op = "DELETE"
        \/ q.pc = "save_file_metadata" /\ r.i = Len(r.blocks) /\ r.op # "DELETE"
    BY <1>1, <1>2, <1>4 DEF AfterTurn, AfterDelete
  <2>3. q.pc \notin Freeing /\ q.pc # "link"
    BY <2>2 DEF Freeing
  <2>4. Copied(q)'
    BY <1>1, <1>2, <1>4, <2>1, <2>2, <2>3 DEF Matched, Copied
  <2>5. ASSUME NEW k \in LogicalBlocks PROVE Expect(q, k) = Expect(r, k)
    <3>1. k \in Nat
      BY Numbers
    <3> QED
      BY <1>1, <1>2, <1>4, <2>1, <2>3, <3>1 DEF Expect
  <2> QED
    BY <1>1, <1>4, <2>4, <2>5 DEF Matched
<1> QED
  BY <1>3, <1>4

\* What a request that frees blocks or commits remembers, if links and contents stay.
LEMMA StillRemembers ==
    ASSUME NEW r, Remembers(r), NEW q, q.op = r.op, q.t = r.t, q.before = r.before,
           Len(q.blocks) = Len(r.blocks), q.op = "WRITE" => q.i = r.i, UNCHANGED <<links, content>>,
           q.op = "COMMIT" => q.pc \notin {"remove", "relink"}
    PROVE  Remembers(q)'
BY DEF Remembers

\* TRUNCATE to more blocks links block 0, which initial_file:BASE keeps.
LEMMA LinkZeroKeeps ==
    ASSUME Serving, NEW w \in Workers, LinkZero(w), Moves(w)
    PROVE  Retains(w)
<1>1. PICK r, q : r = thread[w] /\ q = thread'[w]
  OBVIOUS
<1>2. Busy(w) /\ r.pc = "link"
  BY <1>1 DEF LinkZero, Calls
<1>3. /\ Knows(w, r) /\ Matched(r) /\ Owned(w) /\ r.t \in FileTags /\ Len(r.blocks) \in 0..MaxBlocks
      /\ r.blocks \in Seq(Blocks) /\ r.i \in Nat /\ r.n \in Nat /\ Len(r.blocks) \in Nat
      /\ Consistent(r)
  BY <1>1, <1>2, Requesting, Numbers DEF Knows
<1>4. r.op = "TRUNCATE" /\ r.i \in LogicalBlocks
  BY <1>1, LinkZeroDone DEF Serving
<1>5. Len(r.blocks) < r.i /\ r.i <= r.n /\ r.blocks = metadata[r.from].blocks
  BY <1>2, <1>3, <1>4 DEF Matched, Copied, Consistent
<1>6. links[r.t][r.i] = NoBlock
  BY <1>3, <1>4, <1>5, LinkAsExpected DEF Expect
<1>7. /\ Linking(r.t, r.i, 0) /\ Keeping(q, r)
      /\ Goes(q, r, IF r.i + 1 <= r.n THEN "link" ELSE "save_file_metadata", r.i + 1)
  BY <1>1, <1>6, LinkZeroDone DEF Serving
<1>8. /\ \A u \in FileTags \ {r.t} : links'[u] = links[u]
      /\ \A k \in LogicalBlocks : links'[r.t][k] = IF k = r.i THEN 0 ELSE links[r.t][k]
      /\ UNCHANGED <<metadata, bitmap, content, hash_index>>
  BY <1>3, <1>4, <1>7, OneLink DEF Serving, ThreadTypes
<1>9. /\ q.op = "TRUNCATE" /\ q.t = r.t /\ q.from = r.from /\ q.n = r.n /\ q.before = r.before
      /\ q.blocks = r.blocks /\ q.i = r.i + 1 /\ q \in ThreadRecords
      /\ q.pc = IF r.i + 1 <= r.n THEN "link" ELSE "save_file_metadata"
  BY <1>4, <1>7 DEF Goes, Keeping
<1>10. Knows(w, q)'
  <2>1. Copied(q)'
    <3>1. q.pc = "link" => Len(r.blocks) < r.i + 1
      BY <1>3, <1>5
    <3>2. q.pc = "save_file_metadata" =>
             r.i + 1 = 1 + IF r.n < Len(r.blocks) THEN Len(r.blocks) ELSE r.n
      BY <1>3, <1>5, <1>9
    <3> QED
      BY <1>3, <1>4, <1>8, <1>9, <3>1, <3>2 DEF Copied, Matched, Freeing
  <2>2. ASSUME NEW k \in LogicalBlocks PROVE links'[q.t][k] = Expect(q, k)
    <3>1. k \in Nat /\ links[r.t][k] = Expect(r, k)
      BY <1>3, <1>4, LinkAsExpected, Numbers
    <3>2. CASE k = r.i
      <4>1. Expect(q, k) = 0
        BY <1>3, <1>5, <1>9, <3>1, <3>2 DEF Expect
      <4> QED
        BY <1>8, <1>9, <3>2, <4>1
    <3>3. CASE k # r.i
      <4>1. Expect(q, k) = Expect(r, k)
        BY <1>3, <1>4, <1>5, <1>9, <3>1, <3>3 DEF Expect
      <4> QED
        BY <1>8, <1>9, <3>1, <3>3, <4>1
    <3> QED
      BY <3>2, <3>3
  <2>3. Matched(q)'
    BY <2>1, <2>2 DEF Matched
  <2>4. InHand(q)' /\ IndexKnown(q)' /\ AccessKnown(w, q)'
    BY <1>9, NothingElse DEF HandCalls
  <2>5. Remembers(q)'
    <3>1. ASSUME NEW k \in 1..Len(r.blocks) PROVE k # r.i /\ k \in LogicalBlocks
      BY <1>3, <1>5, Numbers DEF LogicalBlocks
    <3>2. \A k \in 1..Len(r.blocks) : links'[r.t][k] = links[r.t][k]
      BY <1>8, <3>1
    <3> QED
      BY <1>3, <1>4, <1>8, <1>9, <3>2 DEF Knows, Remembers
  <2> QED
    BY <2>3, <2>4, <2>5 DEF Knows
<1>11. NewLinks(w)
  <2>1. Accessible(w, 0)
    <3>1. Closed(Protected) /\ links[Protected][1] = 0 /\ Protected \in FileTags /\ 1 \in LogicalBlocks
      BY StorageAssumption, Numbers DEF Serving, ThreadInv, BaseThere
    <3> QED
      BY <3>1 DEF Accessible, Settled
  <2> QED
    BY <1>1, <1>8, <2>1 DEF NewLinks
<1>12. LinksKept(w)
  <2>1. ASSUME NEW p \in Blocks, NEW t \in FileTags, NEW k \in LogicalBlocks, links[t][k] = p
        PROVE  IsLinked(p, links')
    <3>1. links'[t][k] = p
      BY <1>6, <1>8, <2>1, Numbers
    <3> QED
      BY <3>1 DEF IsLinked
  <2> QED
    BY <2>1 DEF LinksKept, IsLinked
<1>13. SettledMove(w)
  BY <1>1, <1>2, SettledFrame
<1>14. HandMove(w)
  BY <1>1, <1>2, <1>8, <1>9, NoHands DEF HandCalls
<1>15. q # Waiting
  BY <1>9, ThreadsAssumption
<1>16. Effects(w)
  BY <1>1, <1>2, <1>8, <1>9, <1>11, <1>12, <1>13, <1>14, <1>15, StepFrame DEF Effects
<1> QED
  BY <1>1, <1>10, <1>16 DEF Retains

\* The link of a block is removed: the request has the block in hand.
LEMMA DeleteBlockKeeps ==
    ASSUME Serving, NEW w \in Workers, delete_logical_block(w), Moves(w)
    PROVE  Retains(w)
<1>1. PICK r, q : r = thread[w] /\ q = thread'[w]
  OBVIOUS
<1>2. Busy(w) /\ r.pc = "delete_logical_block"
  BY <1>1 DEF delete_logical_block, Calls
<1>3. /\ Knows(w, r) /\ Matched(r) /\ Owned(w) /\ r.t \in FileTags /\ Len(r.blocks) \in 0..MaxBlocks
      /\ r.blocks \in Seq(Blocks) /\ r.i \in Nat /\ r.n \in Nat /\ Len(r.blocks) \in Nat
      /\ Consistent(r) /\ r \in ThreadRecords
  BY <1>1, <1>2, Requesting, Numbers DEF Knows
<1>4. r.i \in LogicalBlocks /\ r.i <= Len(r.blocks) /\ r.blocks[r.i] \in Blocks
  BY <1>2, <1>3, BlockOf DEF PerBlock
<1>5. r.op \in {"DELETE", "TRUNCATE"}
  BY <1>1, DeleteBlockDone DEF Serving
<1>6. r.n < r.i /\ r.blocks = metadata[r.from].blocks
  BY <1>2, <1>3, <1>5 DEF Matched, Copied
<1>7. links[r.t][r.i] = r.blocks[r.i]
  BY <1>2, <1>3, <1>4, <1>5, LinkAsExpected DEF Expect, Freeing
<1>8. /\ Linking(r.t, r.i, NoBlock) /\ Goes(q, r, "stat", r.i)
      /\ q.blocks = r.blocks /\ q.block = r.blocks[r.i]
  BY <1>1, <1>4, <1>7, DeleteBlockDone, Numbers DEF Serving
<1>9. /\ \A u \in FileTags \ {r.t} : links'[u] = links[u]
      /\ \A k \in LogicalBlocks : links'[r.t][k] = IF k = r.i THEN NoBlock ELSE links[r.t][k]
      /\ UNCHANGED <<metadata, bitmap, content, hash_index>>
  BY <1>3, <1>4, <1>8, OneLink DEF Serving, ThreadTypes
<1>10. /\ q.op = r.op /\ q.t = r.t /\ q.from = r.from /\ q.n = r.n /\ q.before = r.before
       /\ q.i = r.i /\ q \in ThreadRecords /\ q.pc = "stat"
  BY <1>8 DEF Goes
<1>11. q # Waiting
  BY <1>10, ThreadsAssumption
<1>12. Holding(q) /\ ~Reserving(q) /\ ~Dropping(q) /\ ~Holding(r) /\ ~Reserving(r) /\ ~Dropping(r)
  BY <1>2, <1>10, <1>11 DEF Holding, Reserving, Dropping
<1>13. IsLinked(q.block, links) /\ q.block \in bitmap
  <2>1. IsLinked(q.block, links)
    BY <1>3, <1>4, <1>7, <1>8 DEF IsLinked
  <2>2. links[r.t][r.i] \in bitmap
    BY <1>3, <1>4, <1>7, Numbers DEF Serving, ThreadInv, LinksMarked
  <2> QED
    BY <1>7, <1>8, <2>1, <2>2
<1>14. Knows(w, q)'
  <2>1. Copied(q)'
    BY <1>3, <1>5, <1>6, <1>8, <1>9, <1>10 DEF Copied, Matched
  <2>2. ASSUME NEW k \in LogicalBlocks PROVE links'[q.t][k] = Expect(q, k)
    <3>1. k \in Nat /\ links[r.t][k] = Expect(r, k)
      BY <1>3, <1>5, LinkAsExpected, Numbers
    <3>2. CASE k = r.i
      <4>1. Expect(q, k) = NoBlock
        BY <1>3, <1>4, <1>5, <1>6, <1>8, <1>10, <3>2 DEF Expect, Freeing
      <4> QED
        BY <1>9, <1>10, <3>2, <4>1
    <3>3. CASE k # r.i
      <4>1. Expect(q, k) = Expect(r, k)
        BY <1>5, <1>8, <1>10, <3>3 DEF Expect
      <4> QED
        BY <1>9, <1>10, <3>1, <3>3, <4>1
    <3> QED
      BY <3>2, <3>3
  <2>3. Matched(q)'
    BY <2>1, <2>2 DEF Matched
  <2>4. InHand(q)'
    BY <1>9, <1>10, <1>12, <1>13 DEF InHand
  <2>5. IndexKnown(q)' /\ AccessKnown(w, q)'
    BY <1>5, <1>10 DEF IndexKnown, AccessKnown, HoldsIndex
  <2>6. Remembers(q)'
    <3>1. \A k \in 1..Len(r.blocks) : k \in LogicalBlocks
      BY <1>3, Numbers DEF LogicalBlocks
    <3>2. \A k \in 1..Len(r.blocks) : links'[r.t][k] # NoBlock => links'[r.t][k] = links[r.t][k]
      BY <1>9, <3>1
    <3> QED
      BY <1>3, <1>5, <1>8, <1>9, <1>10, <3>2 DEF Knows, Remembers
  <2> QED
    BY <2>3, <2>4, <2>5, <2>6 DEF Knows
<1>15. NewLinks(w)
  BY <1>1, <1>9 DEF NewLinks
<1>16. LinksKept(w)
  <2>1. ASSUME NEW p \in Blocks, NEW t \in FileTags, NEW k \in LogicalBlocks, links[t][k] = p,
               p # q.block
        PROVE  IsLinked(p, links')
    <3>1. links'[t][k] = p
      BY <1>7, <1>8, <1>9, <2>1
    <3> QED
      BY <3>1 DEF IsLinked
  <2> QED
    BY <1>1, <1>12, <2>1 DEF LinksKept, IsLinked
<1>17. SettledMove(w)
  BY <1>1, <1>2, SettledFrame
<1>18. HandMove(w)
  BY <1>1, <1>9, <1>12, <1>13 DEF HandMove
<1>19. Effects(w)
  BY <1>1, <1>2, <1>8, <1>9, <1>11, <1>15, <1>16, <1>17, <1>18, StepFrame DEF Effects
<1> QED
  BY <1>1, <1>14, <1>19 DEF Retains

\* A COMMIT's copy of the index, after a step that kept links, contents and index.
LEMMA StillIndexed ==
    ASSUME Serving, NEW w \in Workers, Moves(w), SettledMove(w), Busy(w), NEW r, r = thread[w],
           IndexKnown(r), NEW q, q.op = r.op, q.t = r.t, q.index = r.index,
           r.op = "COMMIT" => HoldsIndex(r), q.i \in {r.i, r.i + 1}, r.i \in Nat,
           q.op = "COMMIT" => q.pc \notin {"remove", "relink"}, UNCHANGED <<links, content>>
    PROVE  IndexKnown(q)'
<1>1. ASSUME HoldsIndex(q), NEW c \in Contents, q.index[c] # NoBlock
      PROVE  /\ content'[q.index[c]] = c
             /\ \/ SettledBlock(q.index[c])'
                \/ \E k \in LogicalBlocks : k < q.i /\ links'[q.t][k] = q.index[c]
  <2>1. HoldsIndex(r)
    BY <1>1 DEF HoldsIndex
  <2>2. /\ content[r.index[c]] = c
        /\ \/ SettledBlock(r.index[c])
           \/ \E k \in LogicalBlocks : k < r.i /\ links[r.t][k] = r.index[c]
    BY <1>1, <2>1 DEF IndexKnown
  <2>3. CASE SettledBlock(r.index[c])
    <3>1. SettledBlock(r.index[c])'
      BY <2>3 DEF SettledBlock, SettledMove
    <3> QED
      BY <2>2, <3>1
  <2>4. CASE \E k \in LogicalBlocks : k < r.i /\ links[r.t][k] = r.index[c]
    <3>1. PICK k \in LogicalBlocks : k < r.i /\ links[r.t][k] = r.index[c]
      BY <2>4
    <3>2. k \in Nat /\ k < q.i
      BY <3>1, Numbers
    <3> QED
      BY <2>2, <3>1, <3>2
  <2> QED
    BY <2>2, <2>3, <2>4
<1> QED
  BY <1>1 DEF IndexKnown

\* A request that gave up a block looks whether it is unused.
LEMMA CheckUnusedKeeps ==
    ASSUME Serving, NEW w \in Workers, CheckUnused(w), Moves(w)
    PROVE  Retains(w)
<1>1. PICK r, q : r = thread[w] /\ q = thread'[w]
  OBVIOUS
<1>2. Busy(w) /\ r.pc = "stat"
  BY <1>1 DEF CheckUnused, Calls
<1>3. /\ Knows(w, r) /\ Matched(r) /\ r.t \in FileTags /\ r.i \in Nat
      /\ Consistent(r) /\ r \in ThreadRecords /\ r # Waiting
  BY <1>1, <1>2, Requesting, Numbers DEF Knows
<1>4. PICK pc : pc = IF r.op = "COMMIT" THEN "bitmap_load" ELSE "modify_bitmap_bits"
  OBVIOUS
<1>5. /\ r.op \in {"DELETE", "TRUNCATE", "COMMIT"} /\ r.i \in LogicalBlocks /\ Keeping(q, r)
      /\ UNCHANGED <<metadata, links, bitmap, content, hash_index>>
      /\ \/ ~Unused(r.block) /\ Goes(q, r, AfterTurn(r), r.i + 1)
         \/ Unused(r.block) /\ Goes(q, r, pc, r.i)
  BY <1>1, <1>4, CheckUnusedDone DEF Serving, disk
<1>6. /\ q.op = r.op /\ q.t = r.t /\ q.from = r.from /\ q.n = r.n /\ q.before = r.before
      /\ q \in ThreadRecords /\ q.i \in {r.i, r.i + 1} /\ q # Waiting
      /\ q.blocks = r.blocks /\ q.block = r.block /\ q.index = r.index
  BY <1>5, ThreadsAssumption DEF Goes, Keeping
<1>7. Unused(r.block) <=> ~IsLinked(r.block, links)
  BY OwnNameOnly DEF Unused, IsLinked
<1>8. Holding(r) /\ ~Reserving(r) /\ r.block \in bitmap
  <2>1. Holding(r) /\ ~Reserving(r)
    BY <1>2, <1>3 DEF Holding, Reserving
  <2> QED
    BY <1>3, <2>1 DEF Knows, InHand
<1>9. q.pc \in {"delete_logical_block", "delete_file_dir_structure", "save_file_metadata",
                "read_block_content", "config_save"} \/ q.pc = pc
  BY <1>5 DEF Goes, AfterTurn, AfterDelete, AfterLookUp
<1>10. SettledMove(w)
  BY <1>1, <1>2, SettledFrame
<1>11. AccessKnown(w, q)' /\ Remembers(q)' /\ IndexKnown(q)'
  <2>1. AccessKnown(w, q)'
    BY <1>4, <1>5, <1>6, <1>9 DEF AccessKnown
  <2>2. Remembers(q)'
    BY <1>3, <1>4, <1>5, <1>6, <1>9, StillRemembers DEF Knows
  <2>3. r.op = "COMMIT" => HoldsIndex(r)
    BY <1>2, <1>3 DEF HoldsIndex
  <2>4. q.pc \notin {"remove", "relink"}
    BY <1>4, <1>9
  <2>5. IndexKnown(q)'
    BY <1>1, <1>2, <1>3, <1>5, <1>6, <1>10, <2>3, <2>4, StillIndexed DEF Knows
  <2> QED
    BY <2>1, <2>2, <2>5
<1>12. CASE ~Unused(r.block) /\ Goes(q, r, AfterTurn(r), r.i + 1)
  <2>1. Matched(q)'
    BY <1>2, <1>3, <1>5, <1>6, <1>12, TurnMatched DEF Freeing
  <2>2. q.pc \notin HandCalls
    BY <1>12 DEF Goes, AfterTurn, AfterDelete, AfterLookUp, HandCalls
  <2>3. InHand(q)'
    BY <2>2 DEF InHand, Holding, Dropping, Reserving, HandCalls
  <2>4. HandMove(w)
    BY <1>1, <1>5, <1>7, <1>8, <1>12, <2>2 DEF HandMove, Holding, Dropping, Reserving, HandCalls
  <2> QED
    BY <1>1, <1>2, <1>5, <1>6, <1>10, <1>11, <2>1, <2>3, <2>4, StepFrame
      DEF Retains, Effects, Knows
<1>13. CASE Unused(r.block) /\ Goes(q, r, pc, r.i)
  <2>1. q.pc = pc /\ q.i = r.i
    BY <1>13 DEF Goes
  <2>2. Matched(q)'
    <3>1. Copied(q)'
      BY <1>2, <1>3, <1>4, <1>5, <1>6, <2>1 DEF Matched, Copied, BlockCount, Freeing
    <3>2. \A k : Expect(q, k) = Expect(r, k)
      BY <1>2, <1>4, <1>5, <1>6, <2>1 DEF Expect, Unlinked, Freeing
    <3> QED
      BY <1>3, <1>5, <1>6, <3>1, <3>2 DEF Matched
  <2>3. Holding(q) /\ Dropping(q) /\ ~Reserving(q)
    BY <1>4, <1>6, <2>1 DEF Holding, Dropping, Reserving
  <2>4. InHand(q)'
    BY <1>4, <1>5, <1>6, <1>7, <1>8, <1>13, <2>1, <2>3 DEF InHand
  <2>5. HandMove(w)
    BY <1>1, <1>5, <1>6, <1>8, <2>3 DEF HandMove
  <2> QED
    BY <1>1, <1>2, <1>5, <1>6, <1>10, <1>11, <2>2, <2>4, <2>5, StepFrame
      DEF Retains, Effects, Knows
<1> QED
  BY <1>5, <1>12, <1>13

\* The bitmap without the block is prepared.
LEMMA ModifyBitmapKeeps ==
    ASSUME Serving, NEW w \in Workers, modify_bitmap_bits(w), Moves(w)
    PROVE  Retains(w)
<1>1. PICK r, q : r = thread[w] /\ q = thread'[w]
  OBVIOUS
<1>2. Busy(w) /\ r.pc = "modify_bitmap_bits"
  BY <1>1 DEF modify_bitmap_bits, Calls
<1>3. Knows(w, r) /\ Matched(r) /\ InHand(r) /\ r.t \in FileTags /\ r # Waiting
  BY <1>1, <1>2, Requesting DEF Knows
<1>4. /\ r.op \in {"DELETE", "TRUNCATE"} /\ Goes(q, r, "fclose", r.i) /\ Keeping(q, r)
      /\ UNCHANGED <<metadata, links, bitmap, content, hash_index>>
      /\ q.buffer = bitmap \ {r.block}
  BY <1>1, ModifyBitmapDone DEF Serving, disk
<1>5. /\ q.op = r.op /\ q.t = r.t /\ q.from = r.from /\ q.n = r.n /\ q.before = r.before
      /\ q \in ThreadRecords /\ q.i = r.i /\ q # Waiting /\ q.pc = "fclose"
      /\ q.blocks = r.blocks /\ q.block = r.block
  BY <1>4, ThreadsAssumption DEF Goes, Keeping
<1>6. /\ Holding(r) /\ Dropping(r) /\ ~Reserving(r)
      /\ Holding(q) /\ Dropping(q) /\ ~Reserving(q)
  BY <1>2, <1>3, <1>5 DEF Holding, Dropping, Reserving
<1>7. Matched(q)'
  <2>1. Copied(q)'
    BY <1>2, <1>3, <1>4, <1>5 DEF Matched, Copied, Freeing
  <2>2. \A k : Expect(q, k) = Expect(r, k)
    BY <1>2, <1>4, <1>5 DEF Expect, Freeing
  <2> QED
    BY <1>3, <1>4, <1>5, <2>1, <2>2 DEF Matched
<1>8. InHand(q)'
  BY <1>3, <1>4, <1>5, <1>6 DEF InHand
<1>9. IndexKnown(q)' /\ AccessKnown(w, q)' /\ Remembers(q)'
  BY <1>3, <1>4, <1>5, StillRemembers DEF IndexKnown, AccessKnown, HoldsIndex, Knows
<1>10. SettledMove(w)
  BY <1>1, <1>2, SettledFrame
<1>11. HandMove(w)
  BY <1>1, <1>4, <1>5, <1>6 DEF HandMove
<1> QED
  BY <1>1, <1>2, <1>4, <1>5, <1>7, <1>8, <1>9, <1>10, <1>11, StepFrame
    DEF Retains, Effects, Knows

\* DELETE and TRUNCATE free a block: the bitmap is as they read it.
LEMMA FcloseKeeps ==
    ASSUME Serving, NEW w \in Workers, fclose(w), Moves(w)
    PROVE  Retains(w)
<1>1. PICK r, q : r = thread[w] /\ q = thread'[w]
  OBVIOUS
<1>2. Busy(w) /\ r.pc = "fclose"
  BY <1>1 DEF fclose, Calls
<1>3. /\ Knows(w, r) /\ Matched(r) /\ InHand(r) /\ r.t \in FileTags /\ r # Waiting
      /\ Consistent(r) /\ r \in ThreadRecords
      /\ r.i \in Nat /\ r.n \in Nat /\ Len(r.blocks) \in Nat
  BY <1>1, <1>2, Requesting, Numbers DEF Knows
<1>4. /\ r.op \in {"DELETE", "TRUNCATE"} /\ bitmap' = r.buffer /\ r.i \in LogicalBlocks
      /\ UNCHANGED <<metadata, links, content, hash_index>>
      /\ Goes(q, r, AfterTurn(r), r.i + 1) /\ Keeping(q, r)
  BY <1>1, FcloseDone DEF Serving
<1>5. bitmap' = bitmap \ {r.block}
  BY <1>2, <1>3, <1>4 DEF InHand
<1>6. /\ q.op = r.op /\ q.t = r.t /\ q.from = r.from /\ q.n = r.n /\ q.before = r.before
      /\ q \in ThreadRecords /\ q # Waiting /\ q.blocks = r.blocks
      /\ q.pc \in {"delete_logical_block", "delete_file_dir_structure", "save_file_metadata"}
  BY <1>4, ThreadsAssumption DEF Goes, Keeping, AfterTurn, AfterDelete
<1>7. Dropping(r) /\ ~Reserving(r) /\ FreesBlocks(r)
  <2>1. Dropping(r) /\ ~Reserving(r)
    BY <1>2, <1>3 DEF Dropping, Reserving
  <2>2. r.n < r.i /\ r.i <= Len(r.blocks)
    BY <1>2, <1>3, <1>4 DEF Matched, Copied, Consistent, PerBlock, Freeing
  <2> QED
    BY <1>3, <1>4, <2>1, <2>2 DEF FreesBlocks
<1>8. ~Holding(q) /\ ~Dropping(q) /\ ~Reserving(q)
  BY <1>4, <1>6 DEF Holding, Dropping, Reserving
<1>9. Matched(q)'
  BY <1>2, <1>3, <1>4, <1>6, TurnMatched DEF Freeing
<1>10. InHand(q)' /\ IndexKnown(q)' /\ AccessKnown(w, q)'
  BY <1>4, <1>6, NothingElse DEF HandCalls
<1>11. Remembers(q)'
  BY <1>3, <1>4, <1>6, StillRemembers DEF Knows
<1>12. BitmapMove(w)
  BY <1>1, <1>5, <1>7 DEF BitmapMove
<1>13. SettledMove(w)
  BY <1>1, <1>2, SettledFrame
<1>14. HandMove(w)
  BY <1>1, <1>5, <1>7, <1>8 DEF HandMove
<1> QED
  BY <1>1, <1>2, <1>4, <1>6, <1>9, <1>10, <1>11, <1>12, <1>13, <1>14, StepFrame
    DEF Retains, Effects, Knows

\* DELETE removes what is left of the File:Tag: no link any more.
LEMMA DeleteStructureKeeps ==
    ASSUME Serving, NEW w \in Workers, delete_file_dir_structure(w), Moves(w)
    PROVE  Retains(w)
<1>1. PICK r, q : r = thread[w] /\ q = thread'[w]
  OBVIOUS
<1>2. Busy(w) /\ r.pc = "delete_file_dir_structure"
  BY <1>1 DEF delete_file_dir_structure, Calls
<1>3. /\ Knows(w, r) /\ Matched(r) /\ r.t \in FileTags
      /\ r.i \in Nat /\ r.n \in Nat /\ Len(r.blocks) \in Nat
  BY <1>1, <1>2, Requesting, Numbers DEF Knows
<1>4. /\ q = Waiting /\ r.op = "DELETE"
      /\ UNCHANGED <<bitmap, content, hash_index>>
      /\ metadata' = [metadata EXCEPT ![r.t] = NoFile]
      /\ links' = [links EXCEPT ![r.t] = NoLinks]
  BY <1>1, DeleteStructureDone DEF Serving
<1>5. r.n = 0 /\ r.i = Len(r.blocks) + 1
  BY <1>2, <1>3, <1>4 DEF Matched, Copied
<1>6. ASSUME NEW k \in LogicalBlocks PROVE links[r.t][k] = NoBlock
  <2>1. k \in Nat /\ k >= 1
    BY Numbers DEF LogicalBlocks
  <2>2. links[r.t][k] = Expect(r, k)
    BY <1>3, <1>4, LinkAsExpected
  <2> QED
    BY <1>3, <1>4, <1>5, <2>1, <2>2 DEF Expect
<1>7. /\ \A k \in LogicalBlocks : links'[r.t][k] = NoBlock
      /\ \A u \in FileTags \ {r.t} : links'[u] = links[u]
  <2>1. links'[r.t] = NoLinks /\ \A u \in FileTags \ {r.t} : links'[u] = links[u]
    BY <1>3, <1>4, AllLinks DEF Serving, ThreadTypes
  <2> QED
    BY <2>1 DEF NoLinks
<1>8. NewLinks(w)
  BY <1>1, <1>7 DEF NewLinks
<1>9. LinksKept(w)
  <2>1. ASSUME NEW p \in Blocks, NEW t \in FileTags, NEW k \in LogicalBlocks, links[t][k] = p
        PROVE  IsLinked(p, links')
    <3>1. links'[t][k] = p
      BY <1>6, <1>7, <2>1, Numbers
    <3> QED
      BY <3>1 DEF IsLinked
  <2> QED
    BY <2>1 DEF LinksKept, IsLinked
<1>10. EndMove(w)
  <2>1. ~Exists(r.t)'
    BY <1>3, <1>4, OneFileChanges DEF Serving, ThreadTypes, Exists
  <2> QED
    BY <1>1, <1>7, <2>1 DEF EndMove, Modifies, Named
<1>11. SettledMove(w)
  BY <1>1, <1>2, SettledFrame
<1>12. HandMove(w)
  BY <1>1, <1>2, <1>4, NoHands DEF HandCalls
<1> QED
  BY <1>1, <1>2, <1>4, <1>8, <1>9, <1>10, <1>11, <1>12, StepFrame DEF Retains, Effects, Busy

\* The metadata a request writes names the links it has left.
LEMMA SavedNamed ==
    ASSUME NEW r \in ThreadRecords, Matched(r), r.op \in {"TRUNCATE", "COMMIT", "WRITE"},
           r.pc = "save_file_metadata", Len(r.blocks) \in Nat, r.n \in Nat,
           NEW k \in LogicalBlocks
    PROVE  /\ SavedFile(r).blocks \in Seq(Blocks)
           /\ Len(SavedFile(r).blocks) = IF r.op = "TRUNCATE" THEN r.n ELSE Len(r.blocks)
           /\ links[r.t][k] = IF k <= Len(SavedFile(r).blocks) THEN SavedFile(r).blocks[k]
                              ELSE NoBlock
<1>1. k \in Nat /\ k >= 1 /\ links[r.t][k] = Expect(r, k) /\ r.blocks \in Seq(Blocks)
  BY LinkAsExpected, Numbers DEF LogicalBlocks, ThreadRecords
<1>2. CASE r.op = "TRUNCATE"
  <2>1. PICK b : b = [j \in 1..r.n |-> IF j <= Len(r.blocks) THEN r.blocks[j] ELSE 0]
    OBVIOUS
  <2>2. \A j \in 1..r.n : (IF j <= Len(r.blocks) THEN r.blocks[j] ELSE 0) \in Blocks
    BY <1>1, Numbers
  <2>3. b \in Seq(Blocks) /\ Len(b) = r.n
    BY <2>1, <2>2
  <2>4. SavedFile(r).blocks = b
    BY <1>2, <2>1 DEF SavedFile
  <2>5. r.i = 1 + IF r.n < Len(r.blocks) THEN Len(r.blocks) ELSE r.n
    BY <1>2 DEF Matched, Copied
  <2>6. Expect(r, k) = IF k <= r.n THEN IF k <= Len(r.blocks) THEN r.blocks[k] ELSE 0 ELSE NoBlock
    BY <1>1, <1>2, <2>5 DEF Expect
  <2>7. k <= r.n => b[k] = IF k <= Len(r.blocks) THEN r.blocks[k] ELSE 0
    BY <1>1, <2>1
  <2> QED
    BY <1>1, <1>2, <2>3, <2>4, <2>6, <2>7
<1>3. CASE r.op # "TRUNCATE"
  <2>1. SavedFile(r).blocks = r.blocks
    BY <1>3 DEF SavedFile
  <2>2. Expect(r, k) = IF k > Len(r.blocks) THEN NoBlock ELSE r.blocks[k]
    BY <1>3 DEF Expect, Unlinked
  <2> QED
    BY <1>1, <1>3, <2>1, <2>2
<1> QED
  BY <1>2, <1>3

\* TRUNCATE and COMMIT end with their metadata, WRITE goes on to its block.
LEMMA SaveMetadataKeeps ==
    ASSUME Serving, NEW w \in Workers, save_file_metadata(w), Moves(w)
    PROVE  Retains(w)
<1>1. PICK r, q : r = thread[w] /\ q = thread'[w]
  OBVIOUS
<1>2. Busy(w) /\ r.pc = "save_file_metadata"
  BY <1>1 DEF save_file_metadata, Calls
<1>3. /\ Knows(w, r) /\ Matched(r) /\ r.t \in FileTags /\ Owned(w) /\ r # Waiting
      /\ r.i \in Nat /\ r.n \in Nat /\ Len(r.blocks) \in Nat
      /\ Consistent(r) /\ r \in ThreadRecords
  BY <1>1, <1>2, Requesting, Numbers DEF Knows
<1>4. /\ r.op \in {"TRUNCATE", "COMMIT", "WRITE"}
      /\ UNCHANGED <<links, bitmap, content, hash_index>>
      /\ metadata' = [metadata EXCEPT ![r.t] = SavedFile(r)]
      /\ \/ r.op = "WRITE" /\ Goes(q, r, "fopen", r.i) /\ Keeping(q, r)
         \/ r.op # "WRITE" /\ q = Waiting
  BY <1>1, SaveMetadataDone DEF Serving
<1>5. metadata'[r.t] = SavedFile(r) /\ Exists(r.t)'
  <2>1. metadata'[r.t] = SavedFile(r)
    BY <1>3, <1>4, OneFileChanges DEF Serving, ThreadTypes
  <2>2. SavedFile(r) \in Files
    BY <1>3, <1>4, SavedFileType
  <2> QED
    BY <2>1, <2>2, FilesExist DEF Exists
<1>6. EndMove(w)
  <2>1. ASSUME NEW k \in LogicalBlocks PROVE links'[r.t][k] = Named(r.t, k)'
    <3>1. links[r.t][k] = IF k <= Len(SavedFile(r).blocks) THEN SavedFile(r).blocks[k] ELSE NoBlock
      BY <1>2, <1>3, <1>4, SavedNamed
    <3> QED
      BY <1>4, <1>5, <3>1 DEF Named, BlockCount
  <2> QED
    BY <1>1, <2>1 DEF EndMove, Modifies
<1>7. SettledMove(w)
  <2>1. CASE r.op # "COMMIT"
    BY <1>1, <1>2, <2>1, SettledFrame
  <2>2. CASE r.op = "COMMIT"
    <3>1. Closed(r.t)'
      BY <1>5, <2>2 DEF Closed, Committed, SavedFile
    <3>2. ASSUME NEW t \in FileTags, t # r.t, Settled(t) PROVE Settled(t)'
      <4>1. CASE Closed(t)
        BY <4>1, ClosedFiles DEF Serving, Moves, Settled
      <4>2. CASE ~Closed(t)
        <5>1. PICK v \in Workers : Committing(thread[v], t)
          BY <3>2, <4>2 DEF Settled
        <5>2. v # w
          BY <1>1, <3>2, <5>1 DEF Committing
        <5>3. thread'[v] = thread[v]
          BY <5>2 DEF Moves, Others
        <5> QED
          BY <5>1, <5>3 DEF Settled
      <4> QED
        BY <4>1, <4>2
    <3> QED
      BY <1>4, <3>1, <3>2 DEF SettledMove, Settled
  <2> QED
    BY <2>1, <2>2
<1>8. HandMove(w)
  BY <1>1, <1>2, <1>4, NoHands DEF HandCalls, Goes
<1>9. q = Waiting \/ Len(q.blocks) = Len(r.blocks)
  BY <1>4 DEF Keeping
<1>10. Effects(w)
  BY <1>1, <1>2, <1>4, <1>6, <1>7, <1>8, <1>9, StepFrame DEF Effects
<1>11. ASSUME q # Waiting PROVE Knows(w, q)'
  <2>1. /\ q.op = "WRITE" /\ q.t = r.t /\ q.from = r.from /\ q.n = r.n /\ q.before = r.before
        /\ q.pc = "fopen" /\ q.i = r.i /\ q.blocks = r.blocks /\ r.op = "WRITE"
    BY <1>4, <1>11 DEF Goes, Keeping
  <2>2. metadata'[r.t].blocks = r.blocks
    BY <1>5, <2>1 DEF SavedFile
  <2>3. Copied(q)'
    BY <2>1, <2>2 DEF Copied, BlockCount
  <2>4. \A k : Expect(q, k) = Expect(r, k)
    BY <1>2, <2>1 DEF Expect, Unlinked
  <2>5. Matched(q)'
    BY <1>3, <1>4, <2>1, <2>3, <2>4 DEF Matched
  <2>6. InHand(q)' /\ IndexKnown(q)'
    BY <2>1 DEF InHand, IndexKnown, Holding, Dropping, Reserving, HoldsIndex
  <2>7. AccessKnown(w, q)'
    BY <1>2, <1>3, <1>4, <2>1 DEF Knows, AccessKnown, OnlyLink
  <2>8. Remembers(q)'
    BY <1>3, <1>4, <2>1, StillRemembers DEF Knows
  <2> QED
    BY <2>5, <2>6, <2>7, <2>8 DEF Knows
<1> QED
  BY <1>1, <1>10, <1>11 DEF Retains, Busy

\* A WRITE finds its block its own, or shared with one that stays.
LEMMA CheckSharedKeeps ==
    ASSUME Serving, NEW w \in Workers, CheckShared(w), Moves(w), UNCHANGED owner
    PROVE  Retains(w)
<1>1. PICK r, q : r = thread[w] /\ q = thread'[w]
  OBVIOUS
<1>2. Busy(w) /\ r.pc = "ph_block_links"
  BY <1>1 DEF CheckShared, Calls
<1>3. /\ Knows(w, r) /\ Matched(r) /\ r.t \in FileTags /\ Owned(w) /\ r # Waiting
      /\ Consistent(r) /\ r \in ThreadRecords
  BY <1>1, <1>2, Requesting, Numbers DEF Knows
<1>4. /\ r.op = "WRITE"
      /\ UNCHANGED <<metadata, links, bitmap, content, hash_index>>
      /\ \/ links[r.t][r.i] = NoBlock
         \/ Goes(q, r, IF Shared(links[r.t][r.i]) THEN "remove" ELSE "fopen", r.i) /\ Keeping(q, r)
  BY <1>1, CheckSharedDone DEF Serving, disk
<1>5. /\ r.i \in LogicalBlocks /\ r.i \in 1..Len(r.blocks) /\ r.blocks[r.i] \in Blocks
  BY <1>3, <1>4, BlockOf
<1>6. links[r.t][r.i] = r.blocks[r.i]
  BY <1>2, <1>3, <1>4, <1>5, LinkAsExpected DEF Expect, Unlinked
<1>7. PICK p : p = links[r.t][r.i]
  OBVIOUS
<1>8. /\ p # NoBlock /\ Goes(q, r, IF Shared(p) THEN "remove" ELSE "fopen", r.i)
      /\ Keeping(q, r)
  BY <1>4, <1>5, <1>6, <1>7, Numbers
<1>9. /\ q.op = "WRITE" /\ q.t = r.t /\ q.from = r.from /\ q.n = r.n /\ q.before = r.before
      /\ q.i = r.i /\ q.blocks = r.blocks /\ q \in ThreadRecords /\ q # Waiting
      /\ q.pc = IF Shared(p) THEN "remove" ELSE "fopen"
  BY <1>4, <1>8, ThreadsAssumption DEF Goes, Keeping
<1>10. Matched(q)'
  <2>1. Copied(q)'
    BY <1>2, <1>3, <1>4, <1>9 DEF Matched, Copied, BlockCount
  <2>2. \A k : Expect(q, k) = Expect(r, k)
    BY <1>2, <1>4, <1>9 DEF Expect, Unlinked
  <2> QED
    BY <1>3, <1>4, <1>9, <2>1, <2>2 DEF Matched
<1>11. InHand(q)' /\ IndexKnown(q)'
  BY <1>9 DEF InHand, IndexKnown, Holding, Dropping, Reserving, HoldsIndex
<1>12. Remembers(q)'
  BY <1>3, <1>4, <1>9, StillRemembers DEF Knows
<1>13. SettledMove(w)
  BY <1>1, <1>2, SettledFrame
<1>14. AccessKnown(w, q)'
  <2>1. CASE Shared(p)
    <3>1. \E t \in FileTags, k \in LogicalBlocks :
              /\ links[t][k] = p /\ (t # r.t \/ k # r.i)
              /\ owner[t] = w \/ Settled(t)
      <4>1. PICK u \in FileTags, j \in LogicalBlocks : links[u][j] = p /\ (u # r.t \/ j # r.i)
        BY <1>3, <1>5, <1>7, <2>1, SharedTwice
      <4>2. CASE owner[u] = w
        BY <4>1, <4>2
      <4>3. CASE owner[u] # w
        <5>1. owner[r.t] = w
          BY <1>1, <1>3, <1>4 DEF Owned
        <5>2. SettledBlock(p)
          BY <1>3, <1>5, <1>7, <1>8, <4>1, <4>3, <5>1 DEF Serving, ThreadInv, SharedSettled
        <5>3. PICK t \in FileTags, k \in LogicalBlocks : Settled(t) /\ links[t][k] = p
          BY <5>2 DEF SettledBlock
        <5>4. t # r.t
          BY <1>1, <1>2, <1>3, <1>4, <5>3, SettledFree DEF Committing, Modifies
        <5> QED
          BY <5>3, <5>4
      <4> QED
        BY <4>2, <4>3
    <3>2. PICK t \in FileTags, k \in LogicalBlocks :
              /\ links[t][k] = p /\ (t # r.t \/ k # r.i)
              /\ owner[t] = w \/ Settled(t)
      BY <3>1
    <3>3. Settled(t) => Settled(t)'
      BY <1>13 DEF SettledMove
    <3> QED
      BY <1>4, <1>7, <1>9, <2>1, <3>2, <3>3 DEF AccessKnown
  <2>2. CASE ~Shared(p)
    <3>1. OnlyLink(r.t, r.i)
      BY <1>3, <1>5, <1>7, <2>2, NotShared DEF OnlyLink
    <3>2. OnlyLink(r.t, r.i)'
      BY <1>4, <3>1 DEF OnlyLink
    <3> QED
      BY <1>9, <2>2, <3>2 DEF AccessKnown
  <2> QED
    BY <2>1, <2>2
<1>15. HandMove(w)
  BY <1>1, <1>2, <1>4, <1>9, NoHands DEF HandCalls
<1> QED
  BY <1>1, <1>2, <1>4, <1>9, <1>10, <1>11, <1>12, <1>13, <1>14, <1>15, StepFrame
    DEF Retains, Effects, Knows

\* Blocks of the index stay what they are while the request removes or makes one
\* link of its own, after those it has looked at.
LEMMA IndexedStays ==
    ASSUME Serving, NEW w \in Workers, Moves(w), SettledMove(w), Busy(w), NEW r, r = thread[w],
           IndexKnown(r), HoldsIndex(r), content' = content,
           \A k \in LogicalBlocks : k < r.i => links'[r.t][k] = links[r.t][k],
           NEW c \in Contents, r.index[c] # NoBlock
    PROVE  /\ content'[r.index[c]] = c
           /\ \/ SettledBlock(r.index[c])'
              \/ \E k \in LogicalBlocks : k < r.i /\ links'[r.t][k] = r.index[c]
<1>1. /\ content[r.index[c]] = c
      /\ \/ SettledBlock(r.index[c])
         \/ \E k \in LogicalBlocks : k < r.i /\ links[r.t][k] = r.index[c]
  BY DEF IndexKnown
<1>2. CASE SettledBlock(r.index[c])
  <2>1. PICK t \in FileTags, k \in LogicalBlocks : Settled(t) /\ links[t][k] = r.index[c]
    BY <1>2 DEF SettledBlock
  <2>2. Settled(t)' /\ links'[t] = links[t]
    BY <2>1 DEF SettledMove
  <2>3. SettledBlock(r.index[c])'
    BY <2>1, <2>2 DEF SettledBlock
  <2> QED
    BY <1>1, <2>3
<1>3. CASE \E k \in LogicalBlocks : k < r.i /\ links[r.t][k] = r.index[c]
  BY <1>1, <1>3
<1> QED
  BY <1>1, <1>2, <1>3

\* WRITE removes the link to a block that another keeps in use, COMMIT that to
\* a duplicate, which it has in hand.
LEMMA RemoveLinkKeeps ==
    ASSUME Serving, NEW w \in Workers, RemoveLink(w), Moves(w)
    PROVE  Retains(w)
<1>1. PICK r, q : r = thread[w] /\ q = thread'[w]
  OBVIOUS
<1>2. Busy(w) /\ r.pc = "remove"
  BY <1>1 DEF RemoveLink, Calls
<1>3. /\ Knows(w, r) /\ Matched(r) /\ r.t \in FileTags /\ Owned(w) /\ r # Waiting
      /\ Consistent(r) /\ r \in ThreadRecords /\ Len(r.blocks) \in 0..MaxBlocks
  BY <1>1, <1>2, Requesting, Numbers DEF Knows
<1>4. PICK pc : pc = IF r.op = "WRITE" THEN "bitmap_load" ELSE "relink"
  OBVIOUS
<1>5. /\ r.op \in {"WRITE", "COMMIT"} /\ Linking(r.t, r.i, NoBlock)
      /\ Goes(q, r, pc, r.i) /\ Keeping(q, r)
  BY <1>1, <1>4, RemoveLinkDone DEF Serving
<1>6. r.i \in LogicalBlocks /\ r.i \in 1..Len(r.blocks) /\ r.blocks[r.i] \in Blocks
  BY <1>2, <1>3, BlockOf DEF PerBlock
<1>7. links[r.t][r.i] = r.blocks[r.i]
  BY <1>2, <1>3, <1>5, <1>6, LinkAsExpected DEF Expect, Unlinked
<1>8. /\ \A u \in FileTags \ {r.t} : links'[u] = links[u]
      /\ \A k \in LogicalBlocks : links'[r.t][k] = IF k = r.i THEN NoBlock ELSE links[r.t][k]
      /\ UNCHANGED <<metadata, bitmap, content, hash_index>>
  BY <1>3, <1>5, <1>6, OneLink DEF Serving, ThreadTypes
<1>9. /\ q.op = r.op /\ q.t = r.t /\ q.from = r.from /\ q.n = r.n /\ q.before = r.before
      /\ q.i = r.i /\ q.blocks = r.blocks /\ q \in ThreadRecords /\ q # Waiting
      /\ q.pc = pc /\ q.block = r.block /\ q.index = r.index /\ q.c = r.c
  BY <1>5, ThreadsAssumption DEF Goes, Keeping
<1>10. Matched(q)'
  <2>1. Copied(q)'
    BY <1>2, <1>3, <1>4, <1>5, <1>8, <1>9 DEF Matched, Copied, BlockCount
  <2>2. ASSUME NEW k \in LogicalBlocks PROVE links'[q.t][k] = Expect(q, k)
    <3>1. k \in Nat /\ links[r.t][k] = Expect(r, k)
      BY <1>3, <1>5, LinkAsExpected, Numbers
    <3>2. CASE k = r.i
      BY <1>4, <1>5, <1>8, <1>9, <3>2 DEF Expect, Unlinked
    <3>3. CASE k # r.i
      <4>1. Expect(q, k) = Expect(r, k)
        BY <1>5, <1>9, <3>3 DEF Expect
      <4> QED
        BY <1>8, <1>9, <3>1, <3>3, <4>1
    <3> QED
      BY <3>2, <3>3
  <2> QED
    BY <2>1, <2>2 DEF Matched
<1>11. Remembers(q)'
  <2>1. \A k \in 1..Len(r.blocks) : k \in LogicalBlocks
    BY <1>3, Numbers DEF LogicalBlocks
  <2>2. \A k \in 1..Len(r.blocks) : links'[r.t][k] # NoBlock => links'[r.t][k] = links[r.t][k]
    BY <1>8, <2>1
  <2>3. r.op = "COMMIT" => r.c = r.before.data[r.i]
    BY <1>2, <1>3 DEF Knows, Remembers
  <2> QED
    BY <1>3, <1>5, <1>8, <1>9, <2>2, <2>3 DEF Knows, Remembers
<1>12. SettledMove(w)
  BY <1>1, <1>2, SettledFrame
<1>13. NewLinks(w)
  BY <1>1, <1>8 DEF NewLinks
<1>14. ~Reserving(r) /\ ~Holding(r) /\ ~Dropping(r) /\ ~Reserving(q) /\ ~Dropping(q)
  BY <1>2, <1>4, <1>9 DEF Reserving, Holding, Dropping
<1>15. CASE r.op = "WRITE"
  <2>1. ~Holding(q)
    BY <1>4, <1>9, <1>14, <1>15 DEF Holding
  <2>2. InHand(q)' /\ IndexKnown(q)' /\ AccessKnown(w, q)'
    BY <1>4, <1>9, <1>14, <1>15, <2>1 DEF InHand, IndexKnown, HoldsIndex, AccessKnown
  <2>3. HandMove(w)
    BY <1>1, <1>8, <1>14, <2>1 DEF HandMove
  <2>4. LinksKept(w)
    <3>1. PICK t \in FileTags, k \in LogicalBlocks :
              links[t][k] = links[r.t][r.i] /\ (t # r.t \/ k # r.i)
      BY <1>2, <1>3, <1>15 DEF Knows, AccessKnown
    <3>2. links'[t][k] = links[r.t][r.i]
      BY <1>8, <3>1
    <3>3. ASSUME NEW p \in Blocks, NEW u \in FileTags, NEW j \in LogicalBlocks, links[u][j] = p
          PROVE  IsLinked(p, links')
      <4>1. CASE u = r.t /\ j = r.i
        BY <3>2, <3>3, <4>1 DEF IsLinked
      <4>2. CASE u # r.t \/ j # r.i
        <5>1. links'[u][j] = p
          BY <1>8, <3>3, <4>2
        <5> QED
          BY <5>1 DEF IsLinked
      <4> QED
        BY <4>1, <4>2
    <3> QED
      BY <3>3 DEF LinksKept, IsLinked
  <2> QED
    BY <1>1, <1>2, <1>8, <1>9, <1>10, <1>11, <1>12, <1>13, <2>2, <2>3, <2>4, StepFrame
      DEF Retains, Effects, Knows
<1>16. CASE r.op = "COMMIT"
  <2>1. Holding(q) /\ q.block = r.blocks[r.i]
    BY <1>2, <1>3, <1>4, <1>9, <1>16 DEF Holding, Knows, IndexKnown
  <2>2. IsLinked(q.block, links) /\ q.block \in bitmap
    <3>1. IsLinked(q.block, links)
      BY <1>3, <1>6, <1>7, <2>1 DEF IsLinked
    <3>2. links[r.t][r.i] \in bitmap
      BY <1>3, <1>6, <1>7, Numbers DEF Serving, ThreadInv, LinksMarked
    <3> QED
      BY <1>7, <2>1, <3>1, <3>2
  <2>3. InHand(q)' /\ AccessKnown(w, q)'
    BY <1>4, <1>8, <1>9, <1>14, <1>16, <2>1, <2>2 DEF InHand, AccessKnown
  <2>4. IndexKnown(q)'
    <3>1. HoldsIndex(r) /\ IndexKnown(r)
      BY <1>2, <1>3, <1>16 DEF HoldsIndex, Knows
    <3>2. ASSUME NEW k \in LogicalBlocks, k < r.i PROVE links'[r.t][k] = links[r.t][k]
      <4>1. k # r.i
        BY <1>6, <3>2, Numbers
      <4> QED
        BY <1>8, <4>1
    <3>3. \A c \in Contents : r.index[c] # NoBlock =>
              /\ content'[r.index[c]] = c
              /\ \/ SettledBlock(r.index[c])'
                 \/ \E k \in LogicalBlocks : k < r.i /\ links'[r.t][k] = r.index[c]
      BY <1>1, <1>2, <1>8, <1>12, <3>1, <3>2, IndexedStays
    <3> QED
      BY <1>9, <2>1, <3>3 DEF IndexKnown
  <2>5. HandMove(w)
    BY <1>1, <1>8, <1>14, <2>1, <2>2 DEF HandMove
  <2>6. LinksKept(w)
    <3>1. ASSUME NEW p \in Blocks, NEW t \in FileTags, NEW k \in LogicalBlocks, links[t][k] = p,
                 p # q.block
          PROVE  IsLinked(p, links')
      <4>1. links'[t][k] = p
        BY <1>7, <1>8, <2>1, <3>1
      <4> QED
        BY <4>1 DEF IsLinked
    <3> QED
      BY <1>1, <2>1, <3>1 DEF LinksKept, IsLinked
  <2> QED
    BY <1>1, <1>2, <1>8, <1>9, <1>10, <1>11, <1>12, <1>13, <2>3, <2>4, <2>5, <2>6, StepFrame
      DEF Retains, Effects, Knows
<1> QED
  BY <1>5, <1>15, <1>16

\* The bitmap is read: WRITE takes a free block, COMMIT gives one back.
LEMMA BitmapLoadKeeps ==
    ASSUME Serving, NEW w \in Workers, bitmap_load(w), Moves(w), ~LosesBlock(w)
    PROVE  Retains(w)
<1>1. PICK r, q : r = thread[w] /\ q = thread'[w]
  OBVIOUS
<1>2. Busy(w) /\ r.pc = "bitmap_load" /\ Calls(w, "bitmap_load")
  BY <1>1 DEF bitmap_load, Calls
<1>3. /\ Knows(w, r) /\ Matched(r) /\ InHand(r) /\ r.t \in FileTags /\ r # Waiting
      /\ r \in ThreadRecords /\ r.i \in Nat
  BY <1>1, <1>2, Requesting, Numbers DEF Knows
<1>4. /\ r.op \in {"WRITE", "COMMIT"}
      /\ UNCHANGED <<metadata, links, bitmap, content, hash_index>>
      /\ Goes(q, r, "bitmap_persist", r.i)
      /\ q.c = r.c /\ q.blocks = r.blocks /\ q.index = r.index
      /\ r.op = "COMMIT" => q.block = r.block /\ q.buffer = bitmap \ {r.block}
      /\ r.op = "WRITE" => q.block \notin bitmap /\ q.buffer = bitmap \cup {q.block}
  <2>1. q # Waiting
    BY <1>1, <1>2 DEF LosesBlock
  <2> QED
    BY <1>1, <2>1, BitmapLoadDone DEF Serving, disk
<1>5. /\ q.op = r.op /\ q.t = r.t /\ q.from = r.from /\ q.n = r.n /\ q.before = r.before
      /\ q.i = r.i /\ q \in ThreadRecords /\ q # Waiting /\ q.pc = "bitmap_persist"
  BY <1>4, ThreadsAssumption DEF Goes
<1>6. Matched(q)'
  <2>1. Copied(q)'
    BY <1>2, <1>3, <1>4, <1>5 DEF Matched, Copied, BlockCount
  <2>2. \A k : Expect(q, k) = Expect(r, k)
    BY <1>2, <1>4, <1>5 DEF Expect, Unlinked
  <2> QED
    BY <1>3, <1>4, <1>5, <2>1, <2>2 DEF Matched
<1>7. ~Reserving(r) /\ ~Reserving(q)
  BY <1>2, <1>5 DEF Reserving
<1>8. /\ Dropping(r) <=> r.op = "COMMIT"
      /\ Dropping(q) <=> r.op = "COMMIT"
      /\ Holding(r) <=> r.op = "COMMIT"
      /\ Holding(q) <=> r.op = "COMMIT"
  BY <1>2, <1>3, <1>5 DEF Dropping, Holding
<1>9. InHand(q)'
  BY <1>3, <1>4, <1>5, <1>7, <1>8 DEF InHand
<1>10. SettledMove(w)
  BY <1>1, <1>2, SettledFrame
<1>11. IndexKnown(q)'
  <2>1. r.op = "COMMIT" => HoldsIndex(r)
    BY <1>2, <1>3 DEF HoldsIndex
  <2> QED
    BY <1>1, <1>2, <1>3, <1>4, <1>5, <1>10, <2>1, StillIndexed DEF Knows
<1>12. AccessKnown(w, q)' /\ Remembers(q)'
  BY <1>3, <1>4, <1>5, StillRemembers DEF AccessKnown, Knows
<1>13. HandMove(w)
  BY <1>1, <1>4, <1>7, <1>8 DEF HandMove
<1> QED
  BY <1>1, <1>2, <1>4, <1>5, <1>6, <1>9, <1>10, <1>11, <1>12, <1>13, StepFrame
    DEF Retains, Effects, Knows

\* The bitmap is written as it was read: the mutex was held in between.
LEMMA BitmapPersistKeeps ==
    ASSUME Serving, NEW w \in Workers, bitmap_persist(w), Moves(w)
    PROVE  Retains(w)
<1>1. PICK r, q : r = thread[w] /\ q = thread'[w]
  OBVIOUS
<1>2. Busy(w) /\ r.pc = "bitmap_persist"
  BY <1>1 DEF bitmap_persist, Calls
<1>3. /\ Knows(w, r) /\ Matched(r) /\ InHand(r) /\ r.t \in FileTags /\ r # Waiting
      /\ r \in ThreadRecords /\ r.i \in Nat /\ Consistent(r)
  BY <1>1, <1>2, Requesting, Numbers DEF Knows
<1>4. /\ r.op \in {"WRITE", "COMMIT"} /\ bitmap' = r.buffer /\ r.i \in LogicalBlocks
      /\ UNCHANGED <<metadata, links, content, hash_index>> /\ Keeping(q, r)
      /\ \/ r.op = "COMMIT" /\ Goes(q, r, AfterTurn(r), r.i + 1)
         \/ r.op = "WRITE" /\ Goes(q, r, "create_new_hardlink", r.i)
  BY <1>1, BitmapPersistDone DEF Serving
<1>5. /\ q.op = r.op /\ q.t = r.t /\ q.from = r.from /\ q.n = r.n /\ q.before = r.before
      /\ q.i \in {r.i, r.i + 1} /\ q \in ThreadRecords /\ q # Waiting
      /\ q.blocks = r.blocks /\ q.block = r.block /\ q.index = r.index
      /\ r.op = "WRITE" => q.i = r.i
  BY <1>4, ThreadsAssumption DEF Goes, Keeping
<1>6. SettledMove(w)
  BY <1>1, <1>2, SettledFrame
<1>7. HoldsBitmap(r) /\ ~Reserving(r)
  BY <1>2, <1>3 DEF HoldsBitmap, Reserving
<1>8. CASE r.op = "WRITE"
  <2>1. r.block \notin bitmap /\ bitmap' = bitmap \cup {r.block} /\ r.block # NoBlock
    BY <1>2, <1>3, <1>4, <1>8 DEF InHand, Consistent
  <2>2. q.pc = "create_new_hardlink" /\ q.i = r.i
    BY <1>4, <1>8 DEF Goes
  <2>3. ~Dropping(r) /\ ~Holding(r) /\ Reserving(q) /\ ~Holding(q) /\ ~Dropping(q)
    BY <1>2, <1>5, <1>8, <2>2 DEF Dropping, Holding, Reserving
  <2>4. Matched(q)'
    <3>1. Copied(q)'
      BY <1>2, <1>3, <1>4, <1>5, <1>8, <2>2 DEF Matched, Copied, BlockCount
    <3>2. \A k : Expect(q, k) = Expect(r, k)
      BY <1>2, <1>5, <1>8, <2>2 DEF Expect, Unlinked
    <3> QED
      BY <1>3, <1>4, <1>5, <1>8, <3>1, <3>2 DEF Matched
  <2>5. ~IsLinked(r.block, links)
    BY <2>1 DEF IsLinked, Serving, ThreadInv, LinksMarked
  <2>6. InHand(q)'
    BY <1>4, <1>5, <2>1, <2>2, <2>3, <2>5 DEF InHand
  <2>7. IndexKnown(q)' /\ AccessKnown(w, q)' /\ Remembers(q)'
    BY <1>3, <1>4, <1>5, <1>8, <2>2, StillRemembers DEF IndexKnown, HoldsIndex, AccessKnown, Knows
  <2>8. BitmapMove(w) /\ HandMove(w)
    BY <1>1, <1>5, <1>7, <1>8, <2>1, <2>3 DEF BitmapMove, HandMove
  <2> QED
    BY <1>1, <1>2, <1>4, <1>5, <1>6, <2>4, <2>6, <2>7, <2>8, StepFrame
      DEF Retains, Effects, Knows
<1>9. CASE r.op = "COMMIT"
  <2>1. bitmap' = bitmap \ {r.block}
    BY <1>2, <1>3, <1>4, <1>9 DEF InHand
  <2>2. Goes(q, r, AfterTurn(r), r.i + 1) /\ q.pc \in {"read_block_content", "config_save"}
    BY <1>4, <1>9 DEF Goes, AfterTurn, AfterLookUp
  <2>3. Dropping(r) /\ Holding(r) /\ ~Reserving(q) /\ ~Holding(q) /\ ~Dropping(q)
    BY <1>2, <1>3, <1>9, <2>2 DEF Dropping, Holding, Reserving
  <2>4. Matched(q)'
    BY <1>2, <1>3, <1>4, <1>5, <1>9, <2>2, TurnMatched
  <2>5. InHand(q)'
    BY <2>2, <2>3 DEF InHand
  <2>6. IndexKnown(q)'
    <3>1. HoldsIndex(r)
      BY <1>2, <1>3, <1>9 DEF HoldsIndex
    <3> QED
      BY <1>1, <1>2, <1>3, <1>4, <1>5, <1>6, <2>2, <3>1, StillIndexed DEF Knows
  <2>7. AccessKnown(w, q)' /\ Remembers(q)'
    BY <1>3, <1>4, <1>5, <1>9, <2>2, StillRemembers DEF AccessKnown, Knows
  <2>8. BitmapMove(w) /\ HandMove(w)
    BY <1>1, <1>5, <1>7, <2>1, <2>3 DEF BitmapMove, HandMove
  <2> QED
    BY <1>1, <1>2, <1>4, <1>5, <1>6, <2>4, <2>5, <2>6, <2>7, <2>8, StepFrame
      DEF Retains, Effects, Knows
<1> QED
  BY <1>4, <1>8, <1>9

\* The copy gets its link: nobody else has one to it.
LEMMA HardlinkKeeps ==
    ASSUME Serving, NEW w \in Workers, create_new_hardlink(w), Moves(w), ~LosesBlock(w)
    PROVE  Retains(w)
<1>1. PICK r, q : r = thread[w] /\ q = thread'[w]
  OBVIOUS
<1>2. Busy(w) /\ r.pc = "create_new_hardlink" /\ Calls(w, "create_new_hardlink")
  BY <1>1 DEF create_new_hardlink, Calls
<1>3. /\ Knows(w, r) /\ Matched(r) /\ InHand(r) /\ r.t \in FileTags /\ r # Waiting
      /\ Consistent(r) /\ r \in ThreadRecords /\ Len(r.blocks) \in Nat
  BY <1>1, <1>2, Requesting, Numbers DEF Knows
<1>4. /\ r.op = "WRITE" /\ r.block \in Blocks /\ Linking(r.t, r.i, r.block)
      /\ Goes(q, r, "save_file_metadata", r.i)
      /\ q.blocks = [r.blocks EXCEPT ![r.i] = r.block] /\ Len(q.blocks) = Len(r.blocks)
  BY <1>1, <1>2, HardlinkDone DEF Serving, LosesBlock
<1>5. r.i \in LogicalBlocks /\ r.i \in 1..Len(r.blocks) /\ r.blocks \in Seq(Blocks)
  BY <1>2, <1>3, BlockOf DEF PerBlock, ThreadRecords
<1>6. /\ \A u \in FileTags \ {r.t} : links'[u] = links[u]
      /\ \A k \in LogicalBlocks : links'[r.t][k] = IF k = r.i THEN r.block ELSE links[r.t][k]
      /\ UNCHANGED <<metadata, bitmap, content, hash_index>>
  BY <1>3, <1>4, <1>5, OneLink DEF Serving, ThreadTypes
<1>7. /\ q.op = "WRITE" /\ q.t = r.t /\ q.from = r.from /\ q.n = r.n /\ q.before = r.before
      /\ q.i = r.i /\ q \in ThreadRecords /\ q # Waiting /\ q.pc = "save_file_metadata"
  BY <1>4, ThreadsAssumption DEF Goes
<1>8. /\ Reserving(r) /\ ~Holding(r) /\ ~Dropping(r)
      /\ ~Reserving(q) /\ ~Holding(q) /\ ~Dropping(q)
  BY <1>2, <1>3, <1>7 DEF Reserving, Holding, Dropping
<1>9. ~IsLinked(r.block, links) /\ links[r.t][r.i] = NoBlock
  <2>1. links[r.t][r.i] = Expect(r, r.i)
    BY <1>3, <1>4, <1>5, LinkAsExpected
  <2>2. Expect(r, r.i) = NoBlock
    BY <1>2, <1>4 DEF Expect, Unlinked
  <2> QED
    BY <1>3, <1>8, <2>1, <2>2 DEF InHand
<1>10. Matched(q)'
  <2>1. Copied(q)'
    BY <1>3, <1>4, <1>6, <1>7 DEF Matched, Copied, BlockCount
  <2>2. ASSUME NEW k \in LogicalBlocks PROVE links'[q.t][k] = Expect(q, k)
    <3>1. k \in Nat /\ k >= 1 /\ links[r.t][k] = Expect(r, k)
      BY <1>3, <1>4, LinkAsExpected, Numbers DEF LogicalBlocks
    <3>2. Expect(q, k) = IF k > Len(r.blocks) THEN NoBlock ELSE q.blocks[k]
      BY <1>4, <1>7 DEF Expect, Unlinked
    <3>3. CASE k = r.i
      <4>1. q.blocks[k] = r.block /\ ~(k > Len(r.blocks))
        BY <1>3, <1>4, <1>5, <3>3
      <4> QED
        BY <1>6, <1>7, <3>2, <3>3, <4>1
    <3>4. CASE k # r.i
      <4>1. Expect(r, k) = IF k > Len(r.blocks) THEN NoBlock ELSE r.blocks[k]
        BY <1>4, <3>4 DEF Expect
      <4>2. ~(k > Len(r.blocks)) => q.blocks[k] = r.blocks[k]
        BY <1>3, <1>4, <1>5, <3>1, <3>4
      <4> QED
        BY <1>6, <1>7, <3>1, <3>2, <3>4, <4>1, <4>2
    <3> QED
      BY <3>3, <3>4
  <2> QED
    BY <2>1, <2>2 DEF Matched
<1>11. OnlyLink(r.t, r.i)'
  <2>1. links'[r.t][r.i] = r.block
    BY <1>5, <1>6
  <2>2. ASSUME NEW u \in FileTags, NEW k \in LogicalBlocks, links'[u][k] = r.block,
               ~(u = r.t /\ k = r.i)
        PROVE  FALSE
    <3>1. links[u][k] = r.block
      BY <1>6, <2>2
    <3> QED
      BY <1>9, <3>1 DEF IsLinked
  <2> QED
    BY <2>1, <2>2 DEF OnlyLink
<1>12. InHand(q)' /\ IndexKnown(q)' /\ AccessKnown(w, q)'
  BY <1>7, <1>8, <1>11 DEF InHand, IndexKnown, HoldsIndex, AccessKnown
<1>13. Remembers(q)'
  <2>1. ASSUME NEW k \in 1..Len(r.blocks), k # r.i PROVE links'[r.t][k] = links[r.t][k]
    <3>1. k \in LogicalBlocks
      BY <1>3, Numbers DEF LogicalBlocks, Consistent
    <3> QED
      BY <1>6, <2>1, <3>1
  <2> QED
    BY <1>3, <1>4, <1>6, <1>7, <2>1 DEF Knows, Remembers
<1>14. SettledMove(w)
  BY <1>1, <1>2, SettledFrame
<1>15. NewLinks(w)
  BY <1>1, <1>6, <1>8 DEF NewLinks
<1>16. LinksKept(w)
  <2>1. ASSUME NEW p \in Blocks, NEW t \in FileTags, NEW k \in LogicalBlocks, links[t][k] = p
        PROVE  IsLinked(p, links')
    <3>1. links'[t][k] = p
      BY <1>6, <1>9, <2>1, Numbers
    <3> QED
      BY <3>1 DEF IsLinked
  <2> QED
    BY <2>1 DEF LinksKept, IsLinked
<1>17. HandMove(w)
  <2>1. IsLinked(r.block, links')
    BY <1>3, <1>5, <1>6 DEF IsLinked
  <2> QED
    BY <1>1, <1>6, <1>8, <2>1 DEF HandMove
<1> QED
  BY <1>1, <1>2, <1>4, <1>6, <1>7, <1>10, <1>12, <1>13, <1>14, <1>15, <1>16, <1>17, StepFrame
    DEF Retains, Effects, Knows

\* The block is opened: for a WRITE the link is there.
LEMMA OpenBlockKeeps ==
    ASSUME Serving, NEW w \in Workers, OpenBlock(w), Moves(w)
    PROVE  Retains(w)
<1>1. PICK r, q : r = thread[w] /\ q = thread'[w]
  OBVIOUS
<1>2. Busy(w) /\ r.pc = "fopen"
  BY <1>1 DEF OpenBlock, Calls
<1>3. /\ Knows(w, r) /\ Matched(r) /\ r.t \in FileTags /\ r # Waiting
      /\ Consistent(r) /\ r \in ThreadRecords
  BY <1>1, <1>2, Requesting DEF Knows
<1>4. /\ r.op \in {"WRITE", "READ"} /\ r.i \in LogicalBlocks
      /\ UNCHANGED <<metadata, links, bitmap, content, hash_index>>
      /\ \/ links[r.t][r.i] = NoBlock /\ q = Waiting
         \/ /\ links[r.t][r.i] \in Blocks
            /\ Goes(q, r, "access", r.i)
            /\ q.c = r.c /\ q.blocks = r.blocks /\ q.block = links[r.t][r.i]
  BY <1>1, OpenBlockDone DEF Serving, disk
<1>5. r.op = "WRITE" => links[r.t][r.i] \in Blocks /\ OnlyLink(r.t, r.i)
  BY <1>1, <1>2, WritesOwn
<1>6. q # Waiting \/ r.op = "READ"
  BY <1>4, <1>5, Numbers, ThreadsAssumption DEF Goes
<1>7. SettledMove(w)
  BY <1>1, <1>2, SettledFrame
<1>8. HandMove(w)
  BY <1>1, <1>2, <1>4, NoHands DEF HandCalls, Goes
<1>9. Effects(w)
  BY <1>1, <1>2, <1>4, <1>6, <1>7, <1>8, StepFrame DEF Effects
<1>10. ASSUME q # Waiting PROVE Knows(w, q)'
  <2>1. /\ q.op = r.op /\ q.t = r.t /\ q.from = r.from /\ q.n = r.n /\ q.before = r.before
        /\ q.pc = "access" /\ q.i = r.i /\ q.blocks = r.blocks /\ q.block = links[r.t][r.i]
    BY <1>4, <1>10 DEF Goes
  <2>2. Copied(q)'
    BY <1>2, <1>3, <1>4, <2>1 DEF Matched, Copied, BlockCount
  <2>3. \A k : Expect(q, k) = Expect(r, k)
    BY <1>2, <1>4, <2>1 DEF Expect, Unlinked
  <2>4. Matched(q)'
    BY <1>3, <1>4, <2>1, <2>2, <2>3 DEF Matched
  <2>5. InHand(q)' /\ IndexKnown(q)'
    BY <1>4, <2>1 DEF InHand, IndexKnown, Holding, Dropping, Reserving, HoldsIndex
  <2>6. AccessKnown(w, q)'
    BY <1>4, <1>5, <2>1 DEF AccessKnown, OnlyLink
  <2>7. Remembers(q)'
    BY <1>3, <1>4, <2>1, StillRemembers DEF Knows
  <2> QED
    BY <2>4, <2>5, <2>6, <2>7 DEF Knows
<1> QED
  BY <1>1, <1>9, <1>10 DEF Retains, Busy

\* The block is written or read, and the request ends.
LEMMA AccessBlockKeeps ==
    ASSUME Serving, NEW w \in Workers, AccessBlock(w), Moves(w)
    PROVE  Retains(w)
<1>1. PICK r, q : r = thread[w] /\ q = thread'[w]
  OBVIOUS
<1>2. Busy(w) /\ r.pc = "access" /\ Calls(w, "access")
  BY <1>1 DEF AccessBlock, Calls
<1>3. /\ Knows(w, r) /\ Matched(r) /\ r.t \in FileTags /\ r # Waiting /\ Owned(w)
      /\ Consistent(r) /\ r \in ThreadRecords
  BY <1>1, <1>2, Requesting DEF Knows
<1>4. /\ q = Waiting /\ UNCHANGED <<metadata, links, bitmap, hash_index>>
      /\ \/ r.op = "WRITE" /\ content' = [content EXCEPT ![r.block] = r.c]
         \/ r.op = "READ" /\ UNCHANGED content
  BY <1>1, AccessBlockDone DEF Serving
<1>5. ContentMove(w)
  BY <1>1, <1>2, <1>4 DEF ContentMove
<1>6. EndMove(w)
  <2>1. CASE r.op = "READ"
    BY <1>1, <2>1 DEF EndMove, Modifies
  <2>2. CASE r.op = "WRITE"
    <3>1. Exists(r.t) /\ r.blocks = metadata[r.t].blocks
      BY <1>1, <1>2, <1>3, <2>2 DEF Owned, Matched, Copied
    <3>2. ASSUME NEW k \in LogicalBlocks PROVE links[r.t][k] = Named(r.t, k)
      <4>1. links[r.t][k] = IF k > Len(r.blocks) THEN NoBlock ELSE r.blocks[k]
        BY <1>2, <1>3, <2>2, LinkAsExpected DEF Expect, Unlinked
      <4>2. k \in Nat /\ Len(r.blocks) \in Nat
        BY <1>3, Numbers DEF ThreadRecords
      <4> QED
        BY <3>1, <4>1, <4>2 DEF Named, BlockCount
    <3>3. \A k \in LogicalBlocks : links'[r.t][k] = Named(r.t, k)'
      BY <1>4, <3>2 DEF Named, Exists, BlockCount
    <3> QED
      BY <1>1, <3>3 DEF EndMove, Modifies
  <2> QED
    BY <1>4, <2>1, <2>2
<1>7. SettledMove(w)
  BY <1>1, <1>2, SettledFrame
<1>8. HandMove(w)
  BY <1>1, <1>2, <1>4, NoHands DEF HandCalls
<1> QED
  BY <1>1, <1>2, <1>4, <1>5, <1>6, <1>7, <1>8, StepFrame DEF Retains, Effects, Busy

\* COMMIT loads the index, whose blocks stay.
LEMMA LoadIndexKeeps ==
    ASSUME Serving, NEW w \in Workers, LoadIndex(w), Moves(w)
    PROVE  Retains(w)
<1>1. PICK r, q : r = thread[w] /\ q = thread'[w]
  OBVIOUS
<1>2. Busy(w) /\ r.pc = "config_create"
  BY <1>1 DEF LoadIndex, Calls
<1>3. /\ Knows(w, r) /\ Matched(r) /\ r.t \in FileTags /\ r # Waiting /\ r \in ThreadRecords
  BY <1>1, <1>2, Requesting DEF Knows
<1>4. /\ r.op = "COMMIT" /\ UNCHANGED <<metadata, links, bitmap, content, hash_index>>
      /\ Goes(q, r, AfterLookUp(r, 1), 1) /\ q.blocks = r.blocks /\ q.index = hash_index
  BY <1>1, LoadIndexDone DEF Serving, disk
<1>5. /\ q.op = "COMMIT" /\ q.t = r.t /\ q.from = r.from /\ q.n = r.n /\ q.before = r.before
      /\ q.pc \in {"read_block_content", "config_save"} /\ q \in ThreadRecords /\ q # Waiting
  BY <1>4, ThreadsAssumption DEF Goes, AfterLookUp
<1>6. Matched(q)'
  <2>1. Copied(q)'
    BY <1>3, <1>4, <1>5 DEF Matched, Copied, BlockCount
  <2>2. \A k : Expect(q, k) = Expect(r, k)
    BY <1>2, <1>4, <1>5 DEF Expect, Unlinked
  <2> QED
    BY <1>3, <1>4, <1>5, <2>1, <2>2 DEF Matched
<1>7. SettledMove(w)
  BY <1>1, <1>2, SettledFrame
<1>8. IndexKnown(q)'
  <2>1. ASSUME NEW c \in Contents, q.index[c] # NoBlock
        PROVE  content'[q.index[c]] = c /\ SettledBlock(q.index[c])'
    <3>1. content[q.index[c]] = c /\ SettledBlock(q.index[c])
      BY <1>4, <2>1 DEF Serving, ThreadInv, IndexSettled
    <3>2. ContentMove(w)
      BY <1>4 DEF ContentMove
    <3>3. SettledBlock(q.index[c])'
      BY <1>7, <2>1, <3>1, <3>2, SettledKept
    <3> QED
      BY <1>4, <3>1, <3>3
  <2> QED
    BY <1>5, <2>1 DEF IndexKnown
<1>9. InHand(q)' /\ AccessKnown(w, q)'
  BY <1>5 DEF InHand, AccessKnown, Holding, Dropping, Reserving
<1>10. Remembers(q)'
  BY <1>3, <1>4, <1>5, StillRemembers DEF Knows
<1>11. HandMove(w)
  BY <1>1, <1>2, <1>4, <1>5, NoHands DEF HandCalls
<1> QED
  BY <1>1, <1>2, <1>4, <1>5, <1>6, <1>7, <1>8, <1>9, <1>10, <1>11, StepFrame
    DEF Retains, Effects, Knows

\* COMMIT looks up a block: it registers it, or finds another for its content.
LEMMA LookUpKeeps ==
    ASSUME Serving, NEW w \in Workers, LookUp(w), Moves(w)
    PROVE  Retains(w)
<1>1. PICK r, q : r = thread[w] /\ q = thread'[w]
  OBVIOUS
<1>2. Busy(w) /\ r.pc = "read_block_content"
  BY <1>1 DEF LookUp, Calls
<1>3. /\ Knows(w, r) /\ Matched(r) /\ r.t \in FileTags /\ r # Waiting /\ r \in ThreadRecords
      /\ Consistent(r) /\ r.i \in Nat
  BY <1>1, <1>2, Requesting, Numbers DEF Knows
<1>4. PICK c : c = read_block_content(r)
  OBVIOUS
<1>5. LookUpOutcome(w, r, q, c)
  BY <1>1, <1>4, LookUpDone DEF Serving
<1>6. /\ r.op = "COMMIT" /\ UNCHANGED <<metadata, links, bitmap, content, hash_index>>
      /\ \/ q = Waiting /\ links[r.t][r.i] = NoBlock
         \/ /\ c \in Contents /\ Goes(q, r, AfterTurn(r), r.i + 1)
            /\ q.blocks = r.blocks
            /\ \/ r.index[c] = NoBlock /\ q.index = [r.index EXCEPT ![c] = r.blocks[r.i]]
               \/ q.index = r.index
         \/ /\ Goes(q, r, "remove", r.i)
            /\ q.blocks = r.blocks /\ q.index = r.index
            /\ q.block = r.blocks[r.i] /\ q.c = c
  BY <1>5 DEF LookUpOutcome, disk
<1>7. r.i \in LogicalBlocks /\ r.i \in 1..Len(r.blocks) /\ r.blocks[r.i] \in Blocks
  BY <1>2, <1>3, BlockOf DEF PerBlock
<1>8. links[r.t][r.i] = r.blocks[r.i] /\ links[r.t][r.i] # NoBlock
  BY <1>2, <1>3, <1>6, <1>7, LinkAsExpected, Numbers DEF Expect, Unlinked
<1>9. c = content[r.blocks[r.i]] /\ c = r.before.data[r.i]
  BY <1>3, <1>4, <1>6, <1>7, <1>8 DEF Knows, Remembers, read_block_content
<1>10. /\ q.op = "COMMIT" /\ q.t = r.t /\ q.from = r.from /\ q.n = r.n /\ q.before = r.before
       /\ q \in ThreadRecords /\ q # Waiting /\ q.blocks = r.blocks
       /\ q.pc \in {"read_block_content", "config_save", "remove"}
  BY <1>6, <1>8, ThreadsAssumption DEF Goes, AfterTurn, AfterLookUp
<1>11. SettledMove(w)
  BY <1>1, <1>2, SettledFrame
<1>12. InHand(q)' /\ AccessKnown(w, q)'
  BY <1>10 DEF InHand, AccessKnown, Holding, Dropping, Reserving
<1>13. HandMove(w)
  BY <1>1, <1>2, <1>6, <1>10, NoHands DEF HandCalls
<1>14. HoldsIndex(r) /\ IndexKnown(r) /\ r.index \in [Contents -> Blocks \cup {NoBlock}]
  BY <1>2, <1>3, <1>6 DEF HoldsIndex, Knows, Consistent
<1>15. \A d \in Contents : r.index[d] # NoBlock =>
           /\ content'[r.index[d]] = d
           /\ \/ SettledBlock(r.index[d])'
              \/ \E k \in LogicalBlocks : k < r.i /\ links'[r.t][k] = r.index[d]
  BY <1>1, <1>2, <1>6, <1>11, <1>14, IndexedStays
<1>16. CASE Goes(q, r, AfterTurn(r), r.i + 1) /\ c \in Contents
  <2>1. q.i = r.i + 1 /\ q.pc \in {"read_block_content", "config_save"}
    BY <1>6, <1>16 DEF Goes, AfterTurn, AfterLookUp
  <2>2. Matched(q)'
    BY <1>2, <1>3, <1>6, <1>7, <1>10, <1>16, TurnMatched
  <2>3. Remembers(q)'
    BY <1>3, <1>6, <1>10, <2>1, StillRemembers DEF Knows
  <2>4. IndexKnown(q)'
    <3>1. ASSUME NEW d \in Contents, q.index[d] # NoBlock
          PROVE  /\ content'[q.index[d]] = d
                 /\ \/ SettledBlock(q.index[d])'
                    \/ \E k \in LogicalBlocks : k < q.i /\ links'[q.t][k] = q.index[d]
      <4>1. CASE q.index[d] = r.index[d]
        <5>1. CASE SettledBlock(r.index[d])'
          BY <1>15, <3>1, <4>1, <5>1
        <5>2. CASE \E k \in LogicalBlocks : k < r.i /\ links'[r.t][k] = r.index[d]
          <6>1. PICK k \in LogicalBlocks : k < r.i /\ links'[r.t][k] = r.index[d]
            BY <5>2
          <6>2. k < q.i
            BY <1>3, <2>1, <6>1, Numbers
          <6> QED
            BY <1>10, <1>15, <3>1, <4>1, <6>1, <6>2
        <5> QED
          BY <1>15, <3>1, <4>1, <5>1, <5>2
      <4>2. CASE q.index[d] # r.index[d]
        <5>1. d = c /\ q.index[d] = r.blocks[r.i]
          <6>1. q.index = r.index \/ q.index = [r.index EXCEPT ![c] = r.blocks[r.i]]
            BY <1>6, <1>10
          <6> QED
            BY <1>14, <1>16, <3>1, <4>2, <6>1
        <5>2. r.i < q.i
          BY <1>3, <2>1
        <5> QED
          BY <1>6, <1>7, <1>8, <1>9, <1>10, <5>1, <5>2
      <4> QED
        BY <4>1, <4>2
    <3> QED
      BY <1>10, <2>1, <3>1 DEF IndexKnown
  <2> QED
    BY <1>1, <1>2, <1>6, <1>10, <1>11, <1>12, <1>13, <2>2, <2>3, <2>4, StepFrame
      DEF Retains, Effects, Knows
<1>17. CASE /\ Goes(q, r, "remove", r.i) /\ q.index = r.index
            /\ q.block = r.blocks[r.i] /\ q.c = c
  <2>1. q.i = r.i /\ q.pc = "remove"
    BY <1>17 DEF Goes
  <2>2. Matched(q)'
    <3>1. Copied(q)'
      BY <1>3, <1>6, <1>10 DEF Matched, Copied, BlockCount
    <3>2. \A k : Expect(q, k) = Expect(r, k)
      BY <1>2, <1>6, <1>10, <2>1 DEF Expect, Unlinked
    <3> QED
      BY <1>3, <1>6, <1>10, <3>1, <3>2 DEF Matched
  <2>3. Remembers(q)'
    BY <1>3, <1>6, <1>9, <1>10, <1>17, <2>1 DEF Knows, Remembers
  <2>4. IndexKnown(q)'
    BY <1>10, <1>15, <1>17, <2>1 DEF IndexKnown
  <2> QED
    BY <1>1, <1>2, <1>6, <1>10, <1>11, <1>12, <1>13, <2>2, <2>3, <2>4, StepFrame
      DEF Retains, Effects, Knows
<1> QED
  BY <1>6, <1>8, <1>16, <1>17

\* COMMIT links its logical block to the block that is registered for its content.
LEMMA RelinkKeeps ==
    ASSUME Serving, NEW w \in Workers, update_logical_block_link(w), Moves(w)
    PROVE  Retains(w)
<1>1. PICK r, q : r = thread[w] /\ q = thread'[w]
  OBVIOUS
<1>2. Busy(w) /\ r.pc = "relink"
  BY <1>1 DEF update_logical_block_link, Calls
<1>3. /\ Knows(w, r) /\ Matched(r) /\ r.t \in FileTags /\ r # Waiting /\ r \in ThreadRecords
      /\ Consistent(r) /\ r.i \in Nat /\ Len(r.blocks) \in Nat /\ Owned(w)
  BY <1>1, <1>2, Requesting, Numbers DEF Knows
<1>4. PICK p : p = r.index[r.c]
  OBVIOUS
<1>5. RelinkOutcome(w, r, q)
  BY <1>1, RelinkDone DEF Serving
<1>6. /\ r.op = "COMMIT" /\ p \in Blocks /\ Linking(r.t, r.i, p) /\ Goes(q, r, "stat", r.i)
      /\ q.block = r.block /\ q.index = r.index
      /\ q.blocks = [r.blocks EXCEPT ![r.i] = p] /\ Len(q.blocks) = Len(r.blocks)
  BY <1>4, <1>5 DEF RelinkOutcome
<1>7. /\ r.i \in LogicalBlocks /\ r.i \in 1..Len(r.blocks) /\ r.blocks \in Seq(Blocks)
      /\ r.c \in Contents
  BY <1>2, <1>3, BlockOf DEF PerBlock, ThreadRecords
<1>8. /\ \A u \in FileTags \ {r.t} : links'[u] = links[u]
      /\ \A k \in LogicalBlocks : links'[r.t][k] = IF k = r.i THEN p ELSE links[r.t][k]
      /\ UNCHANGED <<metadata, bitmap, content, hash_index>>
  BY <1>3, <1>6, <1>7, OneLink DEF Serving, ThreadTypes
<1>9. /\ q.op = "COMMIT" /\ q.t = r.t /\ q.from = r.from /\ q.n = r.n /\ q.before = r.before
      /\ q.i = r.i /\ q \in ThreadRecords /\ q # Waiting /\ q.pc = "stat"
  BY <1>6, ThreadsAssumption DEF Goes
<1>10. HoldsIndex(r) /\ IndexKnown(r)
  BY <1>2, <1>3, <1>6 DEF HoldsIndex, Knows
<1>11. links[r.t][r.i] = NoBlock
  BY <1>2, <1>3, <1>6, <1>7, LinkAsExpected DEF Expect, Unlinked
<1>12. /\ content[p] = r.c
       /\ \/ SettledBlock(p)
          \/ \E k \in LogicalBlocks : k < r.i /\ links[r.t][k] = p
  BY <1>4, <1>6, <1>7, <1>10, Numbers DEF IndexKnown
<1>13. SettledMove(w)
  BY <1>1, <1>2, SettledFrame
<1>14. NewLinks(w)
  <2>1. owner[r.t] = w
    BY <1>1, <1>3, <1>6 DEF Owned
  <2>2. Accessible(w, p)
    BY <1>3, <1>12, <2>1 DEF Accessible, SettledBlock
  <2> QED
    BY <1>1, <1>8, <2>2 DEF NewLinks
<1>15. LinksKept(w)
  <2>1. ASSUME NEW x \in Blocks, NEW t \in FileTags, NEW k \in LogicalBlocks, links[t][k] = x
        PROVE  IsLinked(x, links')
    <3>1. links'[t][k] = x
      BY <1>8, <1>11, <2>1, Numbers
    <3> QED
      BY <3>1 DEF IsLinked
  <2> QED
    BY <2>1 DEF LinksKept, IsLinked
<1>16. /\ ~Reserving(r) /\ Holding(r) /\ ~Dropping(r)
       /\ ~Reserving(q) /\ Holding(q) /\ ~Dropping(q)
  BY <1>2, <1>3, <1>9 DEF Reserving, Holding, Dropping
<1>17. HandMove(w)
  BY <1>1, <1>6, <1>8, <1>16 DEF HandMove
<1>18. InHand(q)' /\ AccessKnown(w, q)'
  BY <1>3, <1>6, <1>8, <1>9, <1>16 DEF Knows, InHand, AccessKnown
<1>19. IndexKnown(q)'
  <2>1. ASSUME NEW k \in LogicalBlocks, k < r.i PROVE links'[r.t][k] = links[r.t][k]
    <3>1. k # r.i
      BY <1>3, <2>1, Numbers
    <3> QED
      BY <1>8, <3>1
  <2>2. \A c \in Contents : r.index[c] # NoBlock =>
            /\ content'[r.index[c]] = c
            /\ \/ SettledBlock(r.index[c])'
               \/ \E k \in LogicalBlocks : k < r.i /\ links'[r.t][k] = r.index[c]
    BY <1>1, <1>2, <1>8, <1>10, <1>13, <2>1, IndexedStays
  <2> QED
    BY <1>6, <1>9, <2>2 DEF IndexKnown
<1>20. Matched(q)'
  <2>1. Copied(q)'
    BY <1>3, <1>6, <1>8, <1>9 DEF Matched, Copied, BlockCount
  <2>2. ASSUME NEW k \in LogicalBlocks PROVE links'[q.t][k] = Expect(q, k)
    <3>1. k \in Nat /\ k >= 1 /\ links[r.t][k] = Expect(r, k)
      BY <1>3, <1>6, LinkAsExpected, Numbers DEF LogicalBlocks
    <3>2. Expect(q, k) = IF k > Len(r.blocks) THEN NoBlock ELSE q.blocks[k]
      BY <1>6, <1>9 DEF Expect, Unlinked
    <3>3. CASE k = r.i
      <4>1. q.blocks[k] = p /\ ~(k > Len(r.blocks))
        BY <1>3, <1>6, <1>7, <3>3
      <4> QED
        BY <1>8, <1>9, <3>2, <3>3, <4>1
    <3>4. CASE k # r.i
      <4>1. Expect(r, k) = IF k > Len(r.blocks) THEN NoBlock ELSE r.blocks[k]
        BY <1>6, <3>4 DEF Expect
      <4>2. ~(k > Len(r.blocks)) => q.blocks[k] = r.blocks[k]
        BY <1>3, <1>6, <1>7, <3>1, <3>4
      <4> QED
        BY <1>8, <1>9, <3>1, <3>2, <3>4, <4>1, <4>2
    <3> QED
      BY <3>3, <3>4
  <2> QED
    BY <2>1, <2>2 DEF Matched
<1>21. Remembers(q)'
  <2>1. r.c = r.before.data[r.i] /\ Len(r.before.data) = Len(r.blocks)
    BY <1>2, <1>3, <1>6 DEF Knows, Remembers
  <2>2. ASSUME NEW k \in 1..Len(r.blocks), links'[r.t][k] # NoBlock
        PROVE  content'[links'[r.t][k]] = r.before.data[k]
    <3>1. k \in LogicalBlocks
      BY <1>3, Numbers DEF LogicalBlocks, Consistent
    <3>2. CASE k = r.i
      BY <1>8, <1>12, <2>1, <3>1, <3>2
    <3>3. CASE k # r.i
      <4>1. links'[r.t][k] = links[r.t][k]
        BY <1>8, <3>1, <3>3
      <4> QED
        BY <1>3, <1>6, <1>8, <2>2, <4>1 DEF Knows, Remembers
    <3> QED
      BY <3>2, <3>3
  <2> QED
    BY <1>3, <1>6, <1>9, <2>1, <2>2 DEF Knows, Remembers
<1> QED
  BY <1>1, <1>2, <1>6, <1>8, <1>9, <1>13, <1>14, <1>15, <1>17, <1>18, <1>19, <1>20, <1>21,
    StepFrame DEF Retains, Effects, Knows

\* COMMIT saves the index; from now on its File:Tag is settled.
LEMMA SaveIndexKeeps ==
    ASSUME Serving, NEW w \in Workers, SaveIndex(w), Moves(w)
    PROVE  Retains(w)
<1>1. PICK r, q : r = thread[w] /\ q = thread'[w]
  OBVIOUS
<1>2. Busy(w) /\ r.pc = "config_save"
  BY <1>1 DEF SaveIndex, Calls
<1>3. /\ Knows(w, r) /\ Matched(r) /\ r.t \in FileTags /\ r # Waiting /\ r \in ThreadRecords
  BY <1>1, <1>2, Requesting DEF Knows
<1>4. /\ r.op = "COMMIT" /\ UNCHANGED <<metadata, links, bitmap, content>>
      /\ hash_index' = r.index
      /\ Goes(q, r, "save_file_metadata", r.i) /\ q.blocks = r.blocks
  BY <1>1, SaveIndexDone DEF Serving
<1>5. /\ q.op = "COMMIT" /\ q.t = r.t /\ q.from = r.from /\ q.n = r.n /\ q.before = r.before
      /\ q.i = r.i /\ q.pc = "save_file_metadata" /\ q \in ThreadRecords /\ q # Waiting
  BY <1>4, ThreadsAssumption DEF Goes
<1>6. Matched(q)'
  <2>1. Copied(q)'
    BY <1>3, <1>4, <1>5 DEF Matched, Copied, BlockCount
  <2>2. \A k : Expect(q, k) = Expect(r, k)
    BY <1>2, <1>4, <1>5 DEF Expect, Unlinked
  <2> QED
    BY <1>3, <1>4, <1>5, <2>1, <2>2 DEF Matched
<1>7. SettledMove(w)
  BY <1>1, <1>2, SettledFrame
<1>8. InHand(q)' /\ AccessKnown(w, q)' /\ IndexKnown(q)'
  BY <1>5 DEF InHand, AccessKnown, IndexKnown, HoldsIndex, Holding, Dropping, Reserving
<1>9. Remembers(q)'
  BY <1>3, <1>4, <1>5, StillRemembers DEF Knows
<1>10. HandMove(w)
  BY <1>1, <1>2, <1>4, <1>5, NoHands DEF HandCalls
<1>11. IndexMove(w)
  <2>1. HoldsIndex(r) /\ IndexKnown(r)
    BY <1>2, <1>3, <1>4 DEF HoldsIndex, Knows
  <2>2. Settled(r.t)'
    BY <1>1, <1>5 DEF Settled, Committing
  <2>3. ASSUME NEW c \in Contents, NEW p, p = r.index[c], p # NoBlock
        PROVE  content'[p] = c /\ SettledBlock(p)'
    <3>1. /\ content'[p] = c
          /\ \/ SettledBlock(p)'
             \/ \E k \in LogicalBlocks : k < r.i /\ links'[r.t][k] = p
      BY <1>1, <1>2, <1>4, <1>7, <2>1, <2>3, IndexedStays
    <3> QED
      BY <1>3, <2>2, <3>1 DEF SettledBlock
  <2> QED
    BY <1>4, <2>3 DEF IndexMove
<1> QED
  BY <1>1, <1>2, <1>4, <1>5, <1>6, <1>7, <1>8, <1>9, <1>10, <1>11, StepFrame
    DEF Retains, Effects, Knows

\* What is stored of a File:Tag.
LEMMA StoredIs ==
    ASSUME TypeOK, NEW t \in FileTags
    PROVE  /\ ~Exists(t) => Stored(t) = NoFile
           /\ Exists(t) => /\ Stored(t) # NoFile
                           /\ Stored(t).data = DataOf(t) /\ Stored(t).committed = Committed(t)
<1>1. CASE Exists(t)
  <2>1. DataOf(t) \in Seq(Contents \cup {NoBlock})
    BY <1>1, ShownType
  <2>2. Stored(t) = [data |-> DataOf(t), committed |-> Committed(t)] /\ Committed(t) \in BOOLEAN
    BY <1>1 DEF Stored, Committed
  <2>3. Stored(t) \in [data : Seq(Contents \cup {NoBlock}), committed : BOOLEAN]
    BY <2>1, <2>2
  <2> QED
    BY <1>1, <2>2, <2>3, StorageAssumption
<1>2. CASE ~Exists(t)
  BY <1>2 DEF Stored
<1> QED
  BY <1>1, <1>2

\* A request begins with the links its metadata names.
LEMMA BeginsMatched ==
    ASSUME Serving, NEW w \in Workers, ~Busy(w), UNCHANGED <<metadata, links>>,
           NEW s \in Requests, NEW q, Begins(q, s),
           q.op # "READ" => owner[q.t] = w /\ ~Closed(q.t),
           q.op # "TAG" => q.from = q.t,
           q.op \in {"CREATE", "TAG"} => ~Exists(q.t)
    PROVE  /\ Matched(q)' /\ q.op \in Operations /\ q.t \in FileTags /\ q.pc \notin HandCalls
           /\ q.pc \notin {"access", "read_block_content", "remove", "relink", "config_save"}
<1>1. /\ s.op # "TRUNCATE" => s.n = 0
      /\ s.op \in Operations /\ s.t \in FileTags /\ s.from \in FileTags /\ s.n \in 0..MaxBlocks
      /\ s.i \in LogicalBlocks
  BY RequestReceived DEF Received, Serving, ThreadTypes
<1>2. PICK count : count = Len(q.blocks)
  OBVIOUS
<1>3. /\ q \in ThreadRecords
      /\ q.op = s.op /\ q.t = s.t /\ q.from = s.from /\ q.n = s.n
      /\ q.op = "CREATE" => q.blocks = <<>>
      /\ q.op # "CREATE" => Exists(q.from) /\ q.blocks = metadata[q.from].blocks
      /\ count \in 0..MaxBlocks
      /\ q.op \in {"CREATE", "TAG"} => q.pc = "mkdir"
      /\ q.op = "DELETE" => q.i = 1 /\ q.pc = AfterDelete(q, 1)
      /\ q.op = "TRUNCATE" =>
            \/ q.n < count /\ q.i = q.n + 1 /\ q.pc = "delete_logical_block"
            \/ q.n = count /\ q.i = count + 1 /\ q.pc = "save_file_metadata"
            \/ q.n > count /\ q.i = count + 1 /\ q.pc = "link"
      /\ q.op = "COMMIT" => q.pc \in {"save_file_metadata", "config_create"}
      /\ q.op = "WRITE" => q.pc = "ph_block_links"
      /\ q.op = "READ" => q.pc = "fopen"
  BY <1>2 DEF Begins
<1>4. /\ q.n \in Nat /\ count \in Nat /\ count <= MaxBlocks
      /\ q.op \in Operations /\ q.t \in FileTags /\ q.from \in FileTags
      /\ q.op # "TRUNCATE" => q.n = 0
  BY <1>1, <1>3, Numbers
<1>5. q.op = "DELETE" => /\ q.i = 1
                         /\ \/ 1 <= count /\ q.pc = "delete_logical_block"
                            \/ count = 0 /\ q.pc = "delete_file_dir_structure"
  BY <1>2, <1>3, <1>4 DEF AfterDelete
<1>6. q.pc \in {"mkdir", "delete_logical_block", "delete_file_dir_structure",
                "save_file_metadata", "link", "config_create", "ph_block_links", "fopen"}
  BY <1>3, <1>4, <1>5 DEF Operations
<1>7. q.pc \notin Freeing /\ ~Unlinked(q) /\ q.pc \notin HandCalls
  BY <1>6 DEF Freeing, Unlinked, HandCalls
<1>8. Copied(q)
  <2>1. q.op \in {"COMMIT", "WRITE"} => Len(q.blocks) = BlockCount(q.t) /\ q.blocks = metadata[q.t].blocks
    BY <1>3 DEF BlockCount
  <2>2. q.op = "DELETE" => /\ q.n = 0
                           /\ q.pc \in Freeing \cup {"delete_logical_block"} => q.n < q.i
                           /\ q.pc # "link" /\ q.pc # "save_file_metadata"
                           /\ q.pc = "delete_file_dir_structure" => q.i = Len(q.blocks) + 1
    BY <1>2, <1>4, <1>5, <1>7
  <2>3. q.op = "TRUNCATE" =>
            /\ q.pc \in Freeing \cup {"delete_logical_block"} => q.n < q.i
            /\ q.pc = "link" => Len(q.blocks) < q.i
            /\ q.pc # "delete_file_dir_structure"
            /\ q.pc = "save_file_metadata" =>
                  q.i = 1 + IF q.n < Len(q.blocks) THEN Len(q.blocks) ELSE q.n
    BY <1>2, <1>3, <1>4, <1>7
  <2> QED
    BY <1>3, <2>1, <2>2, <2>3 DEF Copied
<1>9. ASSUME q.op # "READ", NEW k \in LogicalBlocks PROVE links[q.t][k] = Expect(q, k)
  <2>1. k \in Nat /\ k >= 1
    BY Numbers DEF LogicalBlocks
  <2>2. links[q.t][k] = Named(q.t, k)
    BY <1>4, <1>9, NamedLinks DEF Modifies
  <2>3. CASE q.op \in {"CREATE", "TAG"}
    <3>1. Expect(q, k) = NoBlock
      BY <1>3, <2>3, NoneExpected
    <3> QED
      BY <2>2, <2>3, <3>1 DEF Named
  <2>4. CASE q.op \notin {"CREATE", "TAG"}
    <3>1. Exists(q.t) /\ q.blocks = metadata[q.t].blocks
      BY <1>3, <2>4
    <3>2. Named(q.t, k) = IF k <= count THEN q.blocks[k] ELSE NoBlock
      BY <1>2, <3>1 DEF Named, BlockCount
    <3>3. CASE q.op \in {"DELETE", "TRUNCATE"}
      <4>1. Expect(q, k) = IF k > count THEN IF k < q.i THEN 0 ELSE NoBlock
                           ELSE IF k <= q.n \/ k > q.i \/ k = q.i THEN q.blocks[k] ELSE NoBlock
        BY <1>2, <1>7, <3>3 DEF Expect
      <4>2. q.i \in Nat /\ q.i <= count + 1 /\ q.i <= q.n + 1
        BY <1>3, <1>4, <1>5, <3>3
      <4> QED
        BY <1>4, <2>1, <2>2, <3>2, <4>1, <4>2
    <3>4. CASE q.op \notin {"DELETE", "TRUNCATE"}
      <4>1. Expect(q, k) = IF k > count THEN NoBlock ELSE q.blocks[k]
        BY <1>2, <1>7, <2>4, <3>4 DEF Expect
      <4> QED
        BY <1>4, <2>1, <2>2, <3>2, <4>1
    <3> QED
      BY <3>3, <3>4
  <2> QED
    BY <2>3, <2>4
<1>10. Matched(q)'
  BY <1>8, <1>9 DEF Matched, Copied, BlockCount
<1> QED
  BY <1>3, <1>4, <1>6, <1>7, <1>10

\* A request begins, with what the metadata and the links say, ...
LEMMA HandleKeeps ==
    ASSUME Serving, NEW w \in Workers, handle_client(w), Moves(w), Busy(w)' => Owned(w)',
           ~FreesRace, UNCHANGED owner
    PROVE  Retains(w)
<1>1. PICK q : q = thread'[w]
  OBVIOUS
<1>2. /\ thread[w] = Waiting /\ UNCHANGED <<metadata, links, bitmap, content, hash_index>>
      /\ \/ q = Waiting
         \/ \E s \in Requests : Allowed(w, s) /\ ~Rejected(s) /\ Begins(q, s)
  BY <1>1, HandleDone DEF Serving, disk
<1>3. ~Busy(w)
  BY <1>2 DEF Busy
<1>4. SettledMove(w)
  BY <1>3, SettledFrame
<1>5. NewLinks(w) /\ LinksKept(w) /\ BitmapMove(w) /\ ContentMove(w) /\ IndexMove(w) /\ EndMove(w)
  BY <1>2, <1>3 DEF NewLinks, LinksKept, BitmapMove, ContentMove, IndexMove, EndMove, Modifies
<1>6. CASE q = Waiting
  <2>1. HandMove(w)
    BY <1>1, <1>2, <1>6, NoHands
  <2>2. AloneMove(w)
    BY <1>1, <1>6 DEF AloneMove, Busy
  <2> QED
    BY <1>1, <1>4, <1>5, <1>6, <2>1, <2>2 DEF Retains, Effects, Busy
<1>7. CASE q # Waiting
  <2>1. PICK s \in Requests : Allowed(w, s) /\ Begins(q, s)
    BY <1>2, <1>7
  <2>2. Owned(w)'
    BY <1>1, <1>7 DEF Busy
  <2>3. \A t : (Closed(t)' <=> Closed(t)) /\ (Exists(t)' <=> Exists(t))
    BY <1>2 DEF Closed, Exists, Committed
  <2>4. /\ q.op # "READ" => owner[q.t] = w /\ ~Closed(q.t)
        /\ q.op # "TAG" => q.from = q.t
        /\ q.op \in {"CREATE", "TAG"} => ~Exists(q.t)
    BY <1>1, <2>2, <2>3 DEF Owned
  <2>5. /\ Matched(q)' /\ q.op \in Operations /\ q.t \in FileTags /\ q.pc \notin HandCalls
        /\ q.pc \notin {"access", "read_block_content", "remove", "relink", "config_save"}
    BY <1>2, <1>3, <2>1, <2>4, BeginsMatched
  <2>6. HandMove(w)
    BY <1>1, <1>2, <2>5, NoHands
  <2>7. /\ q \in ThreadRecords
        /\ q.op = s.op /\ q.t = s.t /\ q.from = s.from /\ q.n = s.n /\ q.before = Stored(q.t)
        /\ q.op # "CREATE" => Exists(q.from) /\ q.blocks = metadata[q.from].blocks
        /\ q.op = "WRITE" => q.pc = "ph_block_links"
    BY <2>1 DEF Begins
  <2>8. InHand(q)' /\ IndexKnown(q)' /\ AccessKnown(w, q)'
    BY <2>5, <2>7 DEF InHand, IndexKnown, AccessKnown, HandCalls, Holding, Dropping, Reserving,
      HoldsIndex
  <2>9. Remembers(q)'
    <3>1. q.op \in {"CREATE", "TAG"} => q.before = NoFile
      BY <2>4, <2>5, <2>7, StoredIs DEF Serving, ThreadTypes
    <3>2. ASSUME q.op \in {"DELETE", "TRUNCATE", "COMMIT", "WRITE"}
          PROVE  /\ q.before # NoFile /\ ~q.before.committed
                 /\ Len(q.before.data) = Len(q.blocks)
                 /\ \A k \in 1..Len(q.blocks) :
                       links[q.t][k] # NoBlock => content[links[q.t][k]] = q.before.data[k]
      <4>1. Exists(q.t) /\ q.blocks = metadata[q.t].blocks /\ ~Committed(q.t)
        BY <2>4, <2>7, <3>2 DEF Closed
      <4>2. /\ q.before # NoFile /\ q.before.data = DataOf(q.t) /\ ~q.before.committed
        BY <2>5, <2>7, <4>1, StoredIs DEF Serving, ThreadTypes
      <4>3. BlockCount(q.t) = Len(q.blocks) /\ Len(q.blocks) \in Nat
        BY <2>7, <4>1 DEF BlockCount, ThreadRecords
      <4> QED
        BY <4>2, <4>3 DEF DataOf
    <3> QED
      BY <1>2, <2>5, <3>1, <3>2 DEF Remembers
  <2>10. AloneMove(w)
    <3>1. ASSUME NEW v \in Workers, Busy(v) PROVE ~FreesBlocks(thread[v]) /\ ~FreesBlocks(q)
      <4>1. ~Frees(s) /\ ~Frees(thread[v])
        BY <2>1, <3>1 DEF Allowed
      <4>2. PICK x : x = thread[v]
        OBVIOUS
      <4>3. Knows(v, x) /\ Owned(v)
        BY <3>1, <4>2, Requesting
      <4>4. x.op = "TRUNCATE" => Exists(x.t) /\ x.blocks = metadata[x.t].blocks
        BY <4>2, <4>3 DEF Knows, Matched, Copied, Owned
      <4>5. ~FreesBlocks(x)
        BY <4>1, <4>2, <4>4 DEF FreesBlocks, Frees, BlockCount
      <4>6. q.op = "TRUNCATE" => Exists(q.t) /\ q.blocks = metadata[q.t].blocks
        BY <2>4, <2>7
      <4>7. ~FreesBlocks(q)
        BY <2>7, <4>1, <4>6 DEF FreesBlocks, Frees, BlockCount
      <4> QED
        BY <4>2, <4>5, <4>7
    <3> QED
      BY <1>1, <3>1 DEF AloneMove
  <2> QED
    BY <1>1, <1>4, <1>5, <2>5, <2>6, <2>8, <2>9, <2>10 DEF Retains, Effects, Knows
<1> QED
  BY <1>6, <1>7

\* ... and every step keeps it, unless it loses its block.
LEMMA StepRetains ==
    ASSUME Serving, NEW w \in Workers, handle_client(w) \/ Step(w), Moves(w),
           Busy(w)' => Owned(w)', ~LosesBlock(w), ~FreesRace, UNCHANGED owner
    PROVE  Retains(w)
BY HandleKeeps, MkdirKeeps, CopyLinksKeeps, CreateMetadataKeeps, LinkZeroKeeps,
  DeleteBlockKeeps, CheckUnusedKeeps, ModifyBitmapKeeps, FcloseKeeps, DeleteStructureKeeps,
  SaveMetadataKeeps, CheckSharedKeeps, RemoveLinkKeeps, BitmapLoadKeeps, BitmapPersistKeeps,
  HardlinkKeeps, OpenBlockKeeps, AccessBlockKeeps, LoadIndexKeeps, LookUpKeeps, RelinkKeeps,
  SaveIndexKeeps DEF Step

\* What is known stays known.
LEMMA ServingStep ==
    ASSUME Serving, NEW w \in Workers, handle_client(w) \/ Step(w), Moves(w),
           Busy(w)' => Owned(w)', ~LosesBlock(w), ~FreesRace, UNCHANGED owner
    PROVE  ThreadInv'
BY StepRetains, InvStep DEF Retains

-----------------------------------------------------------------------------
(* The invariant of the Storage with its threads, stops included.          *)

KeptInv ==
    /\ stops \in Nat
    /\ Ownership
    /\ SurvivorInv
    /\ Undisturbed => ThreadInv

\* The disk a Storage starts with, and no request.
LEMMA KeptStart ==
    ASSUME ThreadsInit
    PROVE  KeptInv
<1>1. /\ Init /\ tag_dirs = {Protected} /\ \A w \in Workers : ~Busy(w)
      /\ \A w \in Workers : thread[w] = Waiting
      /\ stops = 0 /\ survivors = {}
  BY DEF ThreadsInit, Busy
<1>2. \A t \in FileTags : metadata[t] = IF t = Protected
                          THEN [blocks |-> <<0>>, state |-> "COMMITTED"] ELSE NoFile
  BY <1>1 DEF Init
<1>3. \A t \in FileTags, k \in LogicalBlocks :
          links[t][k] = IF t = Protected /\ k = 1 THEN 0 ELSE NoBlock
  BY <1>1 DEF Init, NoLinks
<1>4. Protected \in FileTags /\ 1 \in LogicalBlocks /\ 0 \in Blocks /\ NoBlock # 0
  BY StorageAssumption, Numbers
<1>5. LinksMatchMetadata
  BY <1>1, DiskStart
<1>6. Ownership
  BY <1>1, <1>2 DEF Ownership, Exists
<1>7. SurvivorInv
  BY <1>1 DEF SurvivorInv, Lasting
<1>8. bitmap = {0} /\ content[0] = Zeros /\ \A c \in Contents : hash_index[c] = NoBlock
  BY <1>1, <1>4 DEF Init
<1>9. \A w \in Workers : ~Reserving(thread[w]) /\ ~Holding(thread[w])
  BY <1>1 DEF Reserving, Holding, Dropping
<1>10. BaseThere
  <2>1. metadata[Protected] = [blocks |-> <<0>>, state |-> "COMMITTED"]
    BY <1>2, <1>4
  <2>2. metadata[Protected] \in Files
    <3>1. <<0>> \in Seq(Blocks)
      BY <1>4
    <3> QED
      BY <2>1, <3>1 DEF Files
  <2>3. metadata[Protected] # NoFile
    BY <2>2, FilesExist
  <2>4. Closed(Protected)
    BY <2>1, <2>3 DEF Closed, Exists, Committed
  <2> QED
    BY <1>3, <1>4, <1>8, <2>4 DEF BaseThere
<1>11. LinksMarked /\ MarksUsed
  BY <1>3, <1>4, <1>8 DEF LinksMarked, MarksUsed, IsLinked
<1>12. RunsAlone /\ TakenOnce /\ IndexSettled
  BY <1>1, <1>8, <1>9 DEF RunsAlone, TakenOnce, IndexSettled
<1>13. SharedSettled
  BY <1>3, <1>4 DEF SharedSettled
<1>14. Settles
  BY <1>5 DEF LinksMatchMetadata, Settles, Named
<1> QED
  BY <1>1, <1>6, <1>7, <1>10, <1>11, <1>12, <1>13, <1>14 DEF KeptInv, ThreadInv

\* The Storage stops: what is committed has all its links, and their blocks are marked.
LEMMA KeptStop ==
    ASSUME ThreadTypes, KeptInv, Restart
    PROVE  KeptInv'
<1>1. /\ stops' = stops + 1 /\ \A w \in Workers : thread'[w] = Waiting
      /\ survivors' = IF Undisturbed THEN {t \in FileTags : Closed(t)} ELSE survivors
      /\ UNCHANGED <<metadata, links, bitmap, tag_dirs>>
  BY DEF Restart, disk
<1>2. stops' \in Nat /\ ~Undisturbed'
  BY <1>1 DEF KeptInv, Undisturbed
<1>3. \A w \in Workers : ~Busy(w)'
  BY <1>1 DEF Busy
<1>4. \A t : (Exists(t)' <=> Exists(t)) /\ (Closed(t)' <=> Closed(t)) /\ BlockCount(t)' = BlockCount(t)
  BY <1>1 DEF Exists, Closed, Committed, BlockCount
<1>5. Ownership'
  BY <1>1, <1>3, <1>4 DEF KeptInv, Ownership
<1>6. CASE ~Undisturbed
  <2>1. \A p : Lasting(p)' <=> Lasting(p)
    BY <1>1, <1>4, <1>6 DEF Lasting
  <2>2. SurvivorInv'
    BY <1>1, <1>3, <1>4, <1>6, <2>1 DEF KeptInv, SurvivorInv
  <2> QED
    BY <1>2, <1>5, <2>2 DEF KeptInv
<1>7. CASE Undisturbed
  <2>1. survivors' = {t \in FileTags : Closed(t)} /\ ThreadInv
    BY <1>1, <1>7 DEF KeptInv
  <2>2. ASSUME NEW t \in FileTags, Closed(t), NEW k \in LogicalBlocks, k <= BlockCount(t)
        PROVE  links[t][k] \in bitmap
    <3>1. \A w \in Workers : ~Modifies(w, t)
      BY <2>2 DEF KeptInv, Ownership, Owned, Modifies
    <3>2. links[t][k] = Named(t, k)
      BY <2>1, <3>1 DEF ThreadInv, Settles
    <3>3. Named(t, k) \in Blocks
      <4>1. Exists(t) /\ TypeOK /\ k \in Nat /\ k >= 1
        BY <2>2, Numbers DEF Closed, ThreadTypes, LogicalBlocks
      <4>2. BlockCount(t) \in Nat /\ \A i \in 1..BlockCount(t) : metadata[t].blocks[i] \in Blocks
        BY <4>1, FileType
      <4> QED
        BY <2>2, <4>1, <4>2 DEF Named
    <3> QED
      BY <2>1, <3>2, <3>3, Numbers DEF ThreadInv, LinksMarked
  <2>3. \A p : Lasting(p)' => p \in bitmap'
    BY <1>1, <1>4, <2>1, <2>2 DEF Lasting
  <2>4. SurvivorInv'
    BY <1>3, <1>4, <2>1, <2>3 DEF SurvivorInv
  <2> QED
    BY <1>2, <1>5, <2>4 DEF KeptInv
<1> QED
  BY <1>6, <1>7

\* A step with which no request has failed follows states in which none has.
LEMMA NoneFails ==
    ASSUME NEW w, lost' = (lost \/ LosesBlock(w)), UNCHANGED stops, Undisturbed'
    PROVE  Undisturbed /\ ~LosesBlock(w)
BY DEF Undisturbed

\* A request begins or makes a step.
LEMMA KeptStep ==
    ASSUME ThreadTypes, Mutexes, KeptInv, ~ChangeCommitted, ~FreesRace,
           NEW w \in Workers, handle_client(w) \/ Step(w),
           lost' = (lost \/ LosesBlock(w)), UNCHANGED <<owner, stops, survivors>>
    PROVE  KeptInv' /\ Moves(w) /\ (Undisturbed' => Serving /\ Retains(w))
<1>1. Moves(w)
  BY StepMoves
<1>2. OwnMove(w)
  BY <1>1, HandleOwn, StepOwn DEF KeptInv
<1>3. Ownership'
  BY <1>1, <1>2, OwnershipStep DEF KeptInv
<1>4. SurvivorInv'
  BY <1>1, SurvivorStep DEF KeptInv
<1>5. ASSUME Undisturbed' PROVE Serving /\ Retains(w) /\ ThreadInv'
  <2>1. Undisturbed /\ ~LosesBlock(w)
    BY <1>5, NoneFails
  <2>2. Serving
    BY <2>1 DEF Serving, KeptInv
  <2>3. Busy(w)' => Owned(w)'
    BY <1>2 DEF OwnMove
  <2> QED
    BY <1>1, <2>1, <2>2, <2>3, StepRetains, ServingStep
<1> QED
  BY <1>1, <1>3, <1>4, <1>5 DEF KeptInv

\* Invariant: requests keep to their own File:Tags, and until one fails halfway
\* each knows what is on the disk.
LEMMA KeptInvariant ==
    ASSUME ChangeCommitted = FALSE, FreesRace = FALSE
    PROVE  ThreadsSpec => []KeptInv
<1>1. ThreadsInit => KeptInv
  BY KeptStart
<1>2. ThreadTypes /\ Mutexes /\ KeptInv /\ [ThreadsNext]_all_vars => KeptInv'
  <2> SUFFICES ASSUME ThreadTypes, Mutexes, KeptInv, [ThreadsNext]_all_vars PROVE KeptInv'
    OBVIOUS
  <2>1. CASE Restart
    BY <2>1, KeptStop
  <2>2. ASSUME NEW w \in Workers, handle_client(w) \/ Step(w),
               lost' = (lost \/ LosesBlock(w)), UNCHANGED <<owner, stops, survivors>>
        PROVE  KeptInv'
    BY <2>2, KeptStep
  <2>3. CASE UNCHANGED all_vars
    <3>1. UNCHANGED <<metadata, links, bitmap, content, hash_index, owner, tag_dirs, thread,
                      bitmap_mutex, index_mutex, stops, lost, survivors>>
      BY <2>3 DEF all_vars, vars, disk
    <3>2. Ownership'
      BY <3>1 DEF KeptInv, Ownership, Owned, Exists, Closed, Committed, Busy
    <3>3. SurvivorInv'
      BY <3>1 DEF KeptInv, SurvivorInv, Lasting, Spares, Exists, Closed, Committed, Busy, BlockCount
    <3>4. Undisturbed' => ThreadInv'
      <4> SUFFICES ASSUME Undisturbed' PROVE ThreadInv'
        OBVIOUS
      <4>1. ThreadInv
        BY <3>1 DEF KeptInv, Undisturbed
      <4> QED
        BY <3>1, <4>1 DEF ThreadInv, Knows, Matched, Copied, InHand, IndexKnown, AccessKnown,
          Remembers, RunsAlone, BaseThere, LinksMarked, MarksUsed, TakenOnce, SharedSettled,
          IndexSettled, Settles, SettledBlock, Settled, OnlyLink, Modifies, Named, Exists, Closed,
          Committed, Busy, BlockCount
    <3> QED
      BY <3>1, <3>2, <3>3, <3>4 DEF KeptInv
  <2> QED
    BY <2>1, <2>2, <2>3 DEF ThreadsNext
<1> QED
  BY <1>1, <1>2, TypesInvariant, PTL DEF ThreadsSpec

\* Whatever requests run beside each other, a block in use is marked at every
\* moment and none is handed out twice; the blocks of what was committed before
\* the Storage stopped stay marked, however often it stops.  For Workers that
\* keep to their own File:Tags and do not free blocks beside each other.
THEOREM BlocksKeptCorrect ==
    ASSUME ChangeCommitted = FALSE, FreesRace = FALSE
    PROVE  ThreadsSpec => []BlocksKept
<1>1. ThreadTypes /\ Mutexes /\ KeptInv => BlocksKept
  <2> SUFFICES ASSUME ThreadTypes, Mutexes, KeptInv PROVE BlocksKept
    OBVIOUS
  <2>1. ASSUME NEW t \in survivors, NEW k \in 1..BlockCount(t) PROVE links[t][k] \in bitmap
    <3>1. t \in FileTags /\ Exists(t) /\ TypeOK
      BY DEF KeptInv, SurvivorInv, Closed, ThreadTypes
    <3>2. BlockCount(t) \in Nat /\ 1..BlockCount(t) \subseteq LogicalBlocks
      BY <3>1, FileType
    <3>3. k \in LogicalBlocks /\ k <= BlockCount(t)
      BY <3>2
    <3> QED
      BY <3>3 DEF KeptInv, SurvivorInv, Lasting
  <2>2. ASSUME Undisturbed
        PROVE  /\ Linked \subseteq bitmap
               /\ \A w \in Workers :
                     /\ Reserved(w) \subseteq bitmap \ Linked
                     /\ \A v \in Workers \ {w} : Reserved(v) \cap Reserved(w) = {}
    <3>1. ThreadInv
      BY <2>2 DEF KeptInv
    <3>2. Linked \subseteq bitmap
      BY <3>1 DEF ThreadInv, LinksMarked, Linked
    <3>3. ASSUME NEW w \in Workers, NEW p \in Reserved(w)
          PROVE  Reserving(thread[w]) /\ p = thread[w].block /\ Knows(w, thread[w])
      BY <3>1, <3>3 DEF Reserved, Reserving, Calls, Busy, ThreadInv
    <3>4. ASSUME NEW w \in Workers, NEW p \in Reserved(w) PROVE p \in bitmap \ Linked
      <4>1. p \in bitmap /\ ~IsLinked(p, links)
        BY <3>3, <3>4 DEF Knows, InHand
      <4> QED
        BY <4>1 DEF IsLinked, Linked
    <3>5. ASSUME NEW w \in Workers, NEW v \in Workers \ {w}, NEW p \in Reserved(v) \cap Reserved(w)
          PROVE  FALSE
      <4>1. /\ Reserving(thread[w]) /\ p = thread[w].block
            /\ Reserving(thread[v]) /\ p = thread[v].block
        BY <3>3, <3>5
      <4> QED
        BY <3>1, <4>1 DEF ThreadInv, TakenOnce
    <3> QED
      BY <3>2, <3>4, <3>5
  <2> QED
    BY <2>1, <2>2 DEF BlocksKept
<1> QED
  BY <1>1, TypesInvariant, KeptInvariant, PTL

\* Whatever requests ran beside each other, once none is running the bitmap
\* marks exactly the blocks in use and links and metadata agree, unless the
\* Storage was stopped or a WRITE found it full.
THEOREM QuietDiskExactCorrect ==
    ASSUME ChangeCommitted = FALSE, FreesRace = FALSE
    PROVE  ThreadsSpec => []QuietDiskExact
<1>1. ThreadTypes /\ KeptInv => QuietDiskExact
  <2> SUFFICES ASSUME ThreadTypes, KeptInv, Undisturbed, \A w \in Workers : ~Busy(w)
               PROVE  BitmapExact /\ LinksMatchMetadata
    BY DEF QuietDiskExact
  <2>1. ThreadInv
    BY DEF KeptInv
  <2>2. \A w \in Workers : ~Reserving(thread[w]) /\ ~Holding(thread[w])
    BY DEF Reserving, Holding, Dropping, Busy
  <2>3. LinksMatchMetadata
    BY <2>1 DEF ThreadInv, Settles, Modifies, Named, LinksMatchMetadata
  <2>4. ASSUME NEW p \in Blocks PROVE p \in bitmap <=> IsLinked(p, links)
    <3>1. p \in bitmap => IsLinked(p, links)
      BY <2>1, <2>2 DEF ThreadInv, MarksUsed
    <3>2. IsLinked(p, links) => p \in bitmap
      BY <2>1, Numbers DEF ThreadInv, LinksMarked, IsLinked
    <3> QED
      BY <3>1, <3>2
  <2>5. BitmapExact
    BY <2>4, MarksExact DEF Marks, ThreadTypes
  <2> QED
    BY <2>3, <2>5
<1> QED
  BY <1>1, TypesInvariant, KeptInvariant, PTL

\* A step leaves a committed File:Tag that is covered as it is.
LEMMA CommittedStep ==
    ASSUME ThreadTypes, Mutexes, KeptInv, ~ChangeCommitted, ~FreesRace,
           NEW w \in Workers, handle_client(w) \/ Step(w),
           lost' = (lost \/ LosesBlock(w)), UNCHANGED <<owner, stops, survivors>>,
           NEW t \in FileTags, Closed(t), Undisturbed' \/ t \in survivors
    PROVE  Exists(t)' /\ DataOf(t)' = DataOf(t)
<1>1. Moves(w) /\ (Undisturbed' => Serving /\ Retains(w))
  BY KeptStep
<1>2. FileKept(t) /\ Closed(t)' /\ ~Modifies(w, t)
  BY <1>1, ClosedFiles DEF Moves, KeptInv
<1>3. /\ BlockCount(t)' = BlockCount(t) /\ Exists(t)' /\ Exists(t) /\ links'[t] = links[t]
  BY <1>2 DEF FileKept, BlockCount, Closed, Exists
<1>4. \A k \in 1..BlockCount(t) : k \in LogicalBlocks /\ k <= BlockCount(t)
  <2>1. BlockCount(t) \in Nat /\ 1..BlockCount(t) \subseteq LogicalBlocks
    BY <1>3, FileType DEF ThreadTypes
  <2> QED
    BY <2>1
<1>5. ASSUME NEW k \in 1..BlockCount(t), links[t][k] # NoBlock
      PROVE  content'[links[t][k]] = content[links[t][k]]
  <2>1. CASE Undisturbed'
    <3>1. Serving /\ ContentMove(w)
      BY <1>1, <2>1 DEF Retains, Effects
    <3> QED
      BY <1>2, <1>4, <1>5, <3>1, OthersContent
  <2>2. CASE t \in survivors
    <3>1. Lasting(links[t][k]) /\ links[t][k] \in Blocks
      BY <1>4, <1>5, <2>2, LinkBlocks DEF Lasting, ThreadTypes
    <3>2. CASE content' = content
      BY <3>2
    <3>3. CASE /\ Calls(w, "access") /\ thread[w].op = "WRITE"
               /\ content' = [content EXCEPT ![thread[w].block] = thread[w].c]
      <4>1. ~Lasting(thread[w].block)
        BY <3>3 DEF KeptInv, SurvivorInv, Spares, Calls
      <4>2. content \in [Blocks -> Contents]
        BY DEF ThreadTypes, TypeOK
      <4> QED
        BY <3>1, <3>3, <4>1, <4>2
    <3> QED
      BY <1>1, <3>2, <3>3 DEF Moves
  <2> QED
    BY <2>1, <2>2
<1>6. DataOf(t)' = DataOf(t)
  BY <1>3, <1>5 DEF DataOf
<1> QED
  BY <1>3, <1>6

\* A committed File:Tag reads the same through all steps of all requests, and
\* so does what was committed before the Storage stopped in the middle of them,
\* for any number of Workers and stops.
THEOREM CommittedKeptCorrect ==
    ASSUME ChangeCommitted = FALSE, FreesRace = FALSE
    PROVE  ThreadsSpec => CommittedKept
<1> DEFINE Kept == \A t \in FileTags :
                       (Closed(t) /\ (Undisturbed' \/ t \in survivors')) =>
                           Exists(t)' /\ DataOf(t)' = DataOf(t)
<1>1. ThreadTypes /\ Mutexes /\ KeptInv /\ [ThreadsNext]_all_vars => [Kept]_all_vars
  <2> SUFFICES ASSUME ThreadTypes, Mutexes, KeptInv, ThreadsNext,
                      NEW t \in FileTags, Closed(t), Undisturbed' \/ t \in survivors'
               PROVE  Exists(t)' /\ DataOf(t)' = DataOf(t)
    OBVIOUS
  <2>1. CASE Restart
    BY <2>1 DEF Restart, disk, Exists, Closed, DataOf, BlockCount
  <2>2. ASSUME NEW w \in Workers, handle_client(w) \/ Step(w),
               lost' = (lost \/ LosesBlock(w)), UNCHANGED <<owner, stops, survivors>>
        PROVE  Exists(t)' /\ DataOf(t)' = DataOf(t)
    BY <2>2, CommittedStep
  <2> QED
    BY <2>1, <2>2 DEF ThreadsNext
<1> QED
  BY <1>1, TypesInvariant, KeptInvariant, PTL DEF ThreadsSpec, CommittedKept

-----------------------------------------------------------------------------
(* Requests show as one step of FileStore, when they are answered.         *)

\* The request changes t.
Changes(r, t) == r # Waiting /\ r.t = t /\ r.op # "READ"

\* What is shown of t, beside the requests th, if file is stored.
ShownIn(t, th, file) ==
    IF \E w \in Workers : Changes(th[w], t)
    THEN (CHOOSE r \in {th[w] : w \in Workers} : Changes(r, t)).before
    ELSE file

\* What is shown of t, as a function of the requests and of what t holds.
LEMMA ShownAs ==
    ASSUME NEW t
    PROVE  /\ Shown(t) = ShownIn(t, thread, Stored(t))
           /\ Shown(t)' = ShownIn(t, thread', Stored(t)')
<1>1. Shown(t) = ShownIn(t, thread, Stored(t))
  BY DEF Shown, ShownIn, Changes, Busy
<1>2. Shown(t)' = ShownIn(t, thread', Stored(t)')
  BY DEF Shown, ShownIn, Changes, Busy
<1> QED
  BY <1>1, <1>2

\* While one request changes t, what t held before is shown.
LEMMA OneChanging ==
    ASSUME NEW th, NEW t, NEW file, NEW w \in Workers, Changes(th[w], t),
           \A v \in Workers : Changes(th[v], t) => v = w
    PROVE  ShownIn(t, th, file) = th[w].before
<1>1. \E r \in {th[v] : v \in Workers} : Changes(r, t)
  OBVIOUS
<1>2. PICK x : x = CHOOSE r \in {th[v] : v \in Workers} : Changes(r, t)
  OBVIOUS
<1>3. x \in {th[v] : v \in Workers} /\ Changes(x, t)
  BY <1>1, <1>2
<1>4. x = th[w]
  BY <1>3
<1>5. ShownIn(t, th, file) = x.before
  BY <1>2 DEF ShownIn
<1> QED
  BY <1>4, <1>5

\* A File:Tag that no request changes is shown as it is stored.
LEMMA NoneChanging ==
    ASSUME NEW th, NEW t, NEW file, \A v \in Workers : ~Changes(th[v], t)
    PROVE  ShownIn(t, th, file) = file
BY DEF ShownIn

\* Only its owner's request changes t.
LEMMA ChangesOwn ==
    ASSUME NEW w \in Workers, NEW t, Ownership, Changes(thread[w], t)
    PROVE  owner[t] = w /\ Modifies(w, t)
BY DEF Changes, Ownership, Owned, Busy, Modifies

\* ... and after the step too.
LEMMA ChangesOwnThen ==
    ASSUME NEW w \in Workers, NEW t, Ownership', Changes(thread'[w], t)
    PROVE  owner'[t] = w
BY DEF Changes, Ownership, Owned, Busy

\* What a File:Tag holds stays, unless the request of w is about to change it.
LEMMA StoredStays ==
    ASSUME Serving, NEW w \in Workers, Moves(w), ContentMove(w), NEW t \in FileTags,
           ~Modifies(w, t)
    PROVE  Stored(t)' = Stored(t)
<1>1. FileKept(t)
  BY DEF Moves, OnlyOwn
<1>2. /\ Exists(t)' <=> Exists(t)
      /\ Exists(t) => BlockCount(t)' = BlockCount(t) /\ Committed(t)' = Committed(t)
  BY <1>1 DEF FileKept, Exists, BlockCount, Committed
<1>3. CASE ~Exists(t)
  BY <1>2, <1>3 DEF Stored
<1>4. CASE Exists(t)
  <2>1. \A k \in 1..BlockCount(t) : k \in LogicalBlocks
    BY <1>4, FileType DEF Serving, ThreadTypes
  <2>2. \A k \in 1..BlockCount(t) :
            links[t][k] # NoBlock => content'[links[t][k]] = content[links[t][k]]
    BY <2>1, OthersContent
  <2>3. DataOf(t)' = DataOf(t)
    BY <1>1, <1>2, <1>4, <2>2 DEF DataOf, FileKept
  <2> QED
    BY <1>2, <1>4, <2>3 DEF Stored
<1> QED
  BY <1>3, <1>4

\* A step that does not end a change shows nothing.
LEMMA ShownStays ==
    ASSUME Serving, Ownership', NEW w \in Workers, Moves(w), ContentMove(w), UNCHANGED owner,
           NEW t \in FileTags, Modifies(w, t) => Busy(w)'
    PROVE  Shown(t)' = Shown(t)
<1>1. PICK r, q : r = thread[w] /\ q = thread'[w]
  OBVIOUS
<1>2. /\ Shown(t) = ShownIn(t, thread, Stored(t))
      /\ Shown(t)' = ShownIn(t, thread', Stored(t)')
  BY ShownAs
<1>3. Ownership /\ \A v \in Workers \ {w} : thread'[v] = thread[v]
  BY DEF Serving, Moves, Others
<1>4. CASE \E v \in Workers : Changes(thread[v], t)
  <2>1. PICK v \in Workers : Changes(thread[v], t)
    BY <1>4
  <2>2. owner[t] = v /\ Modifies(v, t)
    BY <1>3, <2>1, ChangesOwn
  <2>3. \A x \in Workers : Changes(thread[x], t) => x = v
    BY <1>3, <2>2, ChangesOwn
  <2>4. \A x \in Workers : Changes(thread'[x], t) => x = v
    BY <2>2, ChangesOwnThen
  <2>5. Changes(thread'[v], t) /\ thread'[v].before = thread[v].before
    <3>1. CASE v # w
      BY <1>3, <2>1, <3>1
    <3>2. CASE v = w
      <4>1. q # Waiting /\ r # Waiting
        BY <1>1, <2>1, <2>2, <3>2 DEF Busy, Changes
      <4>2. q.op = r.op /\ q.t = r.t /\ q.before = r.before
        BY <1>1, <4>1 DEF Moves, Continues
      <4> QED
        BY <1>1, <2>1, <3>2, <4>1, <4>2 DEF Changes
    <3> QED
      BY <3>1, <3>2
  <2>6. Shown(t) = thread[v].before
    BY <1>2, <2>1, <2>3, OneChanging
  <2>7. Shown(t)' = thread'[v].before
    BY <1>2, <2>4, <2>5, OneChanging
  <2> QED
    BY <2>5, <2>6, <2>7
<1>5. CASE \A v \in Workers : ~Changes(thread[v], t)
  <2>1. Shown(t) = Stored(t)
    BY <1>2, <1>5, NoneChanging
  <2>2. ~Modifies(w, t)
    BY <1>5 DEF Changes, Modifies, Busy
  <2>3. Stored(t)' = Stored(t)
    BY <2>2, StoredStays
  <2>4. CASE ~Changes(q, t)
    <3>1. \A v \in Workers : ~Changes(thread'[v], t)
      BY <1>1, <1>3, <1>5, <2>4
    <3>2. Shown(t)' = Stored(t)'
      BY <1>2, <3>1, NoneChanging
    <3> QED
      BY <2>1, <2>3, <3>2
  <2>5. CASE Changes(q, t)
    <3>1. r = Waiting /\ \E s \in Requests : Begins(q, s)
      <4>1. ASSUME Continues(w) PROVE FALSE
        <5>1. r # Waiting /\ q.op = r.op /\ q.t = r.t
          BY <1>1, <2>5, <4>1 DEF Continues, Changes
        <5> QED
          BY <1>1, <1>5, <2>5, <5>1 DEF Changes
      <4> QED
        BY <1>1, <4>1 DEF Moves
    <3>2. q.before = Stored(t)
      BY <2>5, <3>1 DEF Begins, Changes
    <3>3. \A x \in Workers : Changes(thread'[x], t) => x = w
      BY <1>3, <1>5
    <3>4. Shown(t)' = q.before
      BY <1>1, <1>2, <2>5, <3>3, OneChanging
    <3> QED
      BY <2>1, <3>2, <3>4
  <2> QED
    BY <2>4, <2>5
<1> QED
  BY <1>4, <1>5

\* A request that is not answered, or that changes nothing, does not show.
LEMMA NotShown ==
    ASSUME Serving, Ownership', NEW w \in Workers, Moves(w), ContentMove(w), UNCHANGED owner,
           Busy(w) /\ thread[w].op # "READ" => Busy(w)'
    PROVE  ShownFiles' = ShownFiles
<1>1. \A t \in FileTags : Shown(t)' = Shown(t)
  BY ShownStays DEF Modifies
<1> QED
  BY <1>1 DEF ShownFiles

\* When a change is answered, what is stored shows.
LEMMA ShownThen ==
    ASSUME Serving, Ownership', NEW w \in Workers, Moves(w), ContentMove(w), UNCHANGED owner,
           NEW r, r = thread[w], Modifies(w, r.t), r.t \in FileTags, thread'[w] = Waiting
    PROVE  /\ ShownFiles[r.t] = r.before
           /\ ShownFiles' = [ShownFiles EXCEPT ![r.t] = Stored(r.t)']
<1>1. /\ Shown(r.t) = ShownIn(r.t, thread, Stored(r.t))
      /\ Shown(r.t)' = ShownIn(r.t, thread', Stored(r.t)')
  BY ShownAs
<1>2. Ownership /\ \A v \in Workers \ {w} : thread'[v] = thread[v]
  BY DEF Serving, Moves, Others
<1>3. Changes(r, r.t)
  BY DEF Modifies, Changes, Busy
<1>4. \A x \in Workers : Changes(thread[x], r.t) => x = w
  BY <1>2, <1>3, ChangesOwn
<1>5. Shown(r.t) = r.before
  BY <1>1, <1>3, <1>4, OneChanging
<1>6. \A x \in Workers : ~Changes(thread'[x], r.t)
  BY <1>2, <1>4 DEF Changes
<1>7. Shown(r.t)' = Stored(r.t)'
  BY <1>1, <1>6, NoneChanging
<1>8. \A t \in FileTags \ {r.t} : Shown(t)' = Shown(t)
  BY ShownStays DEF Modifies
<1> QED
  BY <1>5, <1>7, <1>8 DEF ShownFiles

\* A request that is not answered gets no answer.
LEMMA NoAnswerYet ==
    ASSUME ThreadTypes, NEW w \in Workers, handle_client(w) \/ Step(w), Busy(w)'
    PROVE  answer' = answer
<1> DEFINE Either == answer' = answer \/ thread'[w] = Waiting
<1>1. /\ \A s : GoesOn(w, s) => Either
      /\ \A d : Answers(w, d) => Either
      /\ Ends(w) => Either
  BY DEF ThreadTypes, GoesOn, Answers, Ends
<1> HIDE DEF Either
<1>2. handle_client(w) => Either
  BY <1>1 DEF handle_client
<1>3. mkdir(w) \/ CopyLinks(w) \/ create_metadata(w) => Either
  BY <1>1 DEF mkdir, CopyLinks, create_metadata
<1>4. LinkZero(w) \/ delete_logical_block(w) \/ CheckUnused(w) => Either
  BY <1>1 DEF LinkZero, delete_logical_block, CheckUnused
<1>5. modify_bitmap_bits(w) \/ fclose(w) \/ delete_file_dir_structure(w) => Either
  BY <1>1 DEF modify_bitmap_bits, fclose, delete_file_dir_structure
<1>6. save_file_metadata(w) \/ CheckShared(w) \/ RemoveLink(w) => Either
  BY <1>1 DEF save_file_metadata, CheckShared, RemoveLink
<1>7. bitmap_load(w) \/ bitmap_persist(w) \/ create_new_hardlink(w) => Either
  BY <1>1 DEF bitmap_load, bitmap_persist, create_new_hardlink, NoSpace
<1>8. OpenBlock(w) \/ AccessBlock(w) \/ LoadIndex(w) => Either
  BY <1>1 DEF OpenBlock, AccessBlock, LoadIndex
<1>9. LookUp(w) \/ update_logical_block_link(w) \/ SaveIndex(w) => Either
  BY <1>1 DEF LookUp, update_logical_block_link, SaveIndex
<1>10. Either
  BY <1>2, <1>3, <1>4, <1>5, <1>6, <1>7, <1>8, <1>9 DEF Step
<1> QED
  BY <1>10 DEF Either, Busy

\* The steps that answer a request.
AnswerStep(w) ==
    \/ mkdir(w) \/ CopyLinks(w) \/ create_metadata(w) \/ delete_file_dir_structure(w)
    \/ save_file_metadata(w) \/ OpenBlock(w) \/ AccessBlock(w)

\* The links that a request needs are there, so it goes on with all other steps.
LEMMA OthersGoOn ==
    ASSUME Serving, NEW w \in Workers, Step(w), ~LosesBlock(w), ~AnswerStep(w)
    PROVE  Busy(w)'
<1>1. PICK r, q : r = thread[w] /\ q = thread'[w]
  OBVIOUS
<1>2. Busy(w) /\ ThreadTypes
  BY StepBusy DEF Serving
<1>3. /\ Matched(r) /\ r.t \in FileTags /\ r \in ThreadRecords /\ Consistent(r)
      /\ r.i \in Nat /\ r.n \in Nat /\ Len(r.blocks) \in Nat
  BY <1>1, <1>2, Requesting, Numbers DEF Knows
<1>4. \A pc, i : Goes(q, r, pc, i) => q # Waiting
  BY ThreadsAssumption DEF Goes
<1>5. CASE LinkZero(w)
  <2>1. r.op = "TRUNCATE" /\ r.i \in LogicalBlocks /\ r.pc = "link"
    BY <1>1, <1>2, <1>5, LinkZeroDone DEF LinkZero, Calls
  <2>2. Len(r.blocks) < r.i
    BY <1>3, <2>1 DEF Matched, Copied
  <2>3. links[r.t][r.i] = Expect(r, r.i) /\ Expect(r, r.i) = NoBlock
    BY <1>3, <2>1, <2>2, LinkAsExpected DEF Expect
  <2> QED
    BY <1>1, <1>2, <1>4, <1>5, <2>3, LinkZeroDone DEF Busy
<1>6. CASE delete_logical_block(w)
  <2>1. r.op \in {"DELETE", "TRUNCATE"} /\ r.pc = "delete_logical_block"
    BY <1>1, <1>2, <1>6, DeleteBlockDone DEF delete_logical_block, Calls
  <2>2. r.i \in LogicalBlocks /\ r.i <= Len(r.blocks) /\ r.blocks[r.i] \in Blocks
    BY <1>3, <2>1, BlockOf DEF PerBlock
  <2>3. links[r.t][r.i] = Expect(r, r.i)
    BY <1>3, <2>1, <2>2, LinkAsExpected
  <2>4. Expect(r, r.i) = r.blocks[r.i]
    BY <1>3, <2>1, <2>2 DEF Expect, Freeing
  <2> QED
    BY <1>1, <1>2, <1>4, <1>6, <2>2, <2>3, <2>4, DeleteBlockDone, Numbers DEF Busy
<1>7. CASE CheckShared(w)
  <2>1. r.op = "WRITE" /\ r.pc = "ph_block_links"
    BY <1>1, <1>2, <1>7, CheckSharedDone DEF CheckShared, Calls
  <2>2. r.i \in LogicalBlocks /\ r.i \in 1..Len(r.blocks) /\ r.blocks[r.i] \in Blocks
    BY <1>3, <2>1, BlockOf DEF PerBlock
  <2>3. links[r.t][r.i] = r.blocks[r.i]
    BY <1>3, <2>1, <2>2, LinkAsExpected DEF Expect, Unlinked
  <2> QED
    BY <1>1, <1>2, <1>4, <1>7, <2>2, <2>3, CheckSharedDone, Numbers DEF Busy
<1>8. CASE LookUp(w)
  <2>1. r.pc = "read_block_content"
    BY <1>1, <1>8 DEF LookUp, Calls
  <2>2. PICK c : c = read_block_content(r)
    OBVIOUS
  <2>3. LookUpOutcome(w, r, q, c)
    BY <1>1, <1>2, <1>8, <2>2, LookUpDone
  <2>4. r.op = "COMMIT" /\ (q = Waiting => links[r.t][r.i] = NoBlock)
    BY <1>4, <2>3 DEF LookUpOutcome
  <2>5. r.i \in LogicalBlocks /\ r.i \in 1..Len(r.blocks) /\ r.blocks[r.i] \in Blocks
    BY <1>3, <2>1, BlockOf DEF PerBlock
  <2>6. links[r.t][r.i] = r.blocks[r.i]
    BY <1>3, <2>1, <2>4, <2>5, LinkAsExpected DEF Expect, Unlinked
  <2> QED
    BY <1>1, <2>4, <2>5, <2>6, Numbers DEF Busy
<1>9. CASE CheckUnused(w)
  BY <1>1, <1>2, <1>4, <1>9, CheckUnusedDone DEF Busy
<1>10. CASE modify_bitmap_bits(w) \/ fclose(w)
  BY <1>1, <1>2, <1>4, <1>10, ModifyBitmapDone, FcloseDone DEF Busy
<1>11. CASE RemoveLink(w) \/ bitmap_persist(w)
  BY <1>1, <1>2, <1>4, <1>11, RemoveLinkDone, BitmapPersistDone DEF Busy
<1>12. CASE bitmap_load(w) \/ create_new_hardlink(w)
  BY <1>12 DEF LosesBlock, bitmap_load, create_new_hardlink, Busy
<1>13. CASE LoadIndex(w) \/ SaveIndex(w)
  BY <1>1, <1>2, <1>4, <1>13, LoadIndexDone, SaveIndexDone DEF Busy
<1>14. CASE update_logical_block_link(w)
  BY <1>1, <1>2, <1>4, <1>14, RelinkDone DEF RelinkOutcome, Busy
<1> QED
  BY <1>5, <1>6, <1>7, <1>8, <1>9, <1>10, <1>11, <1>12, <1>13, <1>14 DEF Step, AnswerStep

\* The steps of FileStore, on what is shown.
LEMMA ServesRefusal ==
    ASSUME ShownFiles' = ShownFiles, answer' = <<>>
    PROVE  Served!Next
<1>1. Served!Refuse
  BY DEF Served!Refuse
<1> QED
  BY <1>1 DEF Served!Next

\* What is shown of t changes, and of no other File:Tag.
LEMMA ServesChange ==
    ASSUME NEW t, NEW file, ShownFiles' = [ShownFiles EXCEPT ![t] = file], answer' = <<>>
    PROVE  Served!Changed(t, file)
BY DEF Served!Changed

\* A CREATE that is answered is one of FileStore.
LEMMA ServesCreate ==
    ASSUME NEW t \in FileTags, ShownFiles[t] = NoFile, answer' = <<>>,
           ShownFiles' = [ShownFiles EXCEPT ![t] = [data |-> <<>>, committed |-> FALSE]]
    PROVE  Served!Next
<1>1. Served!Create(t)
  BY ServesChange DEF Served!Create, Served!Stored, Served!Exists
<1> QED
  BY <1>1 DEF Served!Next

\* A TAG that is answered is one of FileStore.
LEMMA ServesTag ==
    ASSUME NEW t \in FileTags, NEW dst \in FileTags, answer' = <<>>,
           ShownFiles[t] # NoFile, ShownFiles[dst] = NoFile,
           ShownFiles' = [ShownFiles EXCEPT ![dst] = [data |-> ShownFiles[t].data,
                                                      committed |-> FALSE]]
    PROVE  Served!Next
<1>1. Served!Tag(t, dst)
  BY ServesChange DEF Served!Tag, Served!Stored, Served!Exists
<1> QED
  BY <1>1 DEF Served!Next

\* A DELETE that is answered is one of FileStore.
LEMMA ServesDelete ==
    ASSUME NEW t \in FileTags, ShownFiles[t] # NoFile, t # Protected, answer' = <<>>,
           ShownFiles' = [ShownFiles EXCEPT ![t] = NoFile]
    PROVE  Served!Next
<1>1. Served!Delete(t)
  BY ServesChange DEF Served!Delete, Served!Exists
<1> QED
  BY <1>1 DEF Served!Next

\* A COMMIT that is answered is one of FileStore.
LEMMA ServesCommit ==
    ASSUME NEW t \in FileTags, NEW b, ShownFiles[t] = b, b # NoFile, ~b.committed,
           answer' = <<>>,
           ShownFiles' = [ShownFiles EXCEPT ![t] = [data |-> b.data, committed |-> TRUE]]
    PROVE  Served!Next
<1>1. Served!Commit(t)
  BY ServesChange DEF Served!Commit, Served!Open, Served!Stored, Served!Exists
<1> QED
  BY <1>1 DEF Served!Next

\* A TRUNCATE that is answered is one of FileStore: it keeps the blocks it does
\* not cut off, and the new ones hold zeros.
LEMMA ServesTruncate ==
    ASSUME NEW t \in FileTags, NEW b, ShownFiles[t] = b, b # NoFile, ~b.committed,
           NEW n \in 0..MaxBlocks, NEW d, d = [i \in 1..n |-> d[i]],
           \A i \in 1..n : d[i] = IF i <= Len(b.data) THEN b.data[i] ELSE Zeros,
           answer' = <<>>,
           ShownFiles' = [ShownFiles EXCEPT ![t] = [data |-> d, committed |-> FALSE]]
    PROVE  Served!Next
<1>0. d = [i \in 1..n |-> IF i <= Len(b.data) THEN b.data[i] ELSE Zeros]
  OBVIOUS
<1>1. Served!Truncate(t, n)
  BY <1>0, ServesChange DEF Served!Truncate, Served!Open, Served!Stored, Served!Exists
<1> QED
  BY <1>1 DEF Served!Next

\* A WRITE that is answered is one of FileStore.
LEMMA ServesWrite ==
    ASSUME NEW t \in FileTags, NEW b, ShownFiles[t] = b, b # NoFile, ~b.committed,
           NEW i \in 1..MaxBlocks, i \in DOMAIN b.data, NEW c \in Contents, NEW d,
           d = [b.data EXCEPT ![i] = c], answer' = <<>>,
           ShownFiles' = [ShownFiles EXCEPT ![t] = [data |-> d, committed |-> FALSE]]
    PROVE  Served!Next
<1>1. Served!Write(t, i, c)
  BY ServesChange DEF Served!Write, Served!Open, Served!Stored, Served!Exists
<1> QED
  BY <1>1 DEF Served!Next

\* A READ answers with what FileStore holds at that moment.
LEMMA ServesRead ==
    ASSUME NEW t \in FileTags, ShownFiles[t] # NoFile, NEW i \in 1..MaxBlocks,
           i \in DOMAIN ShownFiles[t].data, answer' = <<ShownFiles[t].data[i]>>,
           ShownFiles' = ShownFiles
    PROVE  Served!Next
<1>1. Served!Read(t, i)
  BY DEF Served!Read, Served!Exists
<1> QED
  BY <1>1 DEF Served!Next

-----------------------------------------------------------------------------

\* What a step that answers a request starts from.
Answering(w) ==
    Serving /\ TypeOK' /\ Ownership' /\ Moves(w) /\ ContentMove(w) /\ UNCHANGED owner

\* A File:Tag that does not exist before and after the answer of its CREATE or TAG.
LEMMA NothingMade ==
    ASSUME NEW w \in Workers, Answering(w), Busy(w), thread[w].op \in {"CREATE", "TAG"},
           metadata' = metadata, thread'[w] = Waiting
    PROVE  ShownFiles' = ShownFiles
<1>1. PICK r : r = thread[w]
  OBVIOUS
<1>2. Knows(w, r) /\ Owned(w) /\ r.t \in FileTags
  BY <1>1, Requesting DEF Answering
<1>3. Modifies(w, r.t)
  BY <1>1 DEF Modifies
<1>4. /\ ShownFiles[r.t] = r.before
      /\ ShownFiles' = [ShownFiles EXCEPT ![r.t] = Stored(r.t)']
  BY <1>1, <1>2, <1>3, ShownThen DEF Answering
<1>5. r.before = NoFile
  BY <1>1, <1>2 DEF Knows, Remembers
<1>6. ~Exists(r.t)'
  BY <1>1, <1>2 DEF Owned, Exists
<1>7. Stored(r.t)' = NoFile
  BY <1>6 DEF Stored
<1> QED
  BY <1>2, <1>4, <1>5, <1>7 DEF ShownFiles

\* A request that ends in mkdir, in cp -rl or in fopen gets a status.
LEMMA StatusOnly ==
    ASSUME ThreadTypes, NEW w \in Workers, mkdir(w) \/ CopyLinks(w) \/ OpenBlock(w),
           thread'[w] = Waiting
    PROVE  answer' = <<>>
<1>1. PICK r, q : r = thread[w] /\ q = thread'[w]
  OBVIOUS
<1>2. \A pc, i : ~Goes(q, r, pc, i)
  BY <1>1, ThreadsAssumption DEF Goes
<1>3. Ends(w) => answer' = <<>>
  BY DEF Ends, Answers
<1>4. CASE mkdir(w)
  <2>1. PICK pc : pc = IF r.op = "TAG" THEN "cp -rl" ELSE "create_metadata"
    OBVIOUS
  <2>2. pc \in CallNames /\ r \in ThreadRecords
    BY <1>1, <1>4, <2>1, CallOf DEF CallNames, mkdir
  <2>3. ~GoesOn(w, At(r, pc))
    BY <1>1, <1>2, <2>2, AtDone
  <2>4. Ends(w)
    BY <1>1, <1>4, <2>1, <2>3 DEF mkdir
  <2> QED
    BY <1>3, <2>4
<1>5. CASE CopyLinks(w)
  <2>1. \E i \in LogicalBlocks :
            NoBlock # links[r.from][i] /\ links[r.t][i] \notin {NoBlock, links[r.from][i]}
    BY <1>1, <1>2, <1>5, CopyLinksDone
  <2>2. Ends(w)
    BY <1>1, <1>5, <2>1 DEF CopyLinks
  <2> QED
    BY <1>3, <2>2
<1>6. CASE OpenBlock(w)
  <2>1. links[r.t][r.i] = NoBlock
    BY <1>1, <1>2, <1>6, OpenBlockDone
  <2>2. Ends(w)
    BY <1>1, <1>6, <2>1 DEF OpenBlock
  <2> QED
    BY <1>3, <2>2
<1> QED
  BY <1>4, <1>5, <1>6

\* CREATE or TAG ends before there is metadata.
LEMMA RefusedAtomic ==
    ASSUME NEW w \in Workers, Answering(w), mkdir(w) \/ CopyLinks(w), thread'[w] = Waiting
    PROVE  Served!Next
<1>1. PICK r, q : r = thread[w] /\ q = thread'[w]
  OBVIOUS
<1>2. ThreadTypes
  BY DEF Answering, Serving
<1>3. Busy(w) /\ r.op \in {"CREATE", "TAG"} /\ metadata' = metadata
  BY <1>1, <1>2, MkdirDone, CopyLinksDone DEF mkdir, CopyLinks, Calls
<1>4. ShownFiles' = ShownFiles
  BY <1>1, <1>3, NothingMade
<1>5. answer' = <<>>
  BY <1>2, StatusOnly
<1> QED
  BY <1>4, <1>5, ServesRefusal

\* A READ that finds no link ends; a WRITE finds its link.
LEMMA OpenBlockAtomic ==
    ASSUME NEW w \in Workers, Answering(w), OpenBlock(w), thread'[w] = Waiting
    PROVE  Served!Next
<1>1. PICK r, q : r = thread[w] /\ q = thread'[w]
  OBVIOUS
<1>2. ThreadTypes /\ Serving /\ Busy(w) /\ r.pc = "fopen"
  BY <1>1 DEF Answering, Serving, OpenBlock, Calls
<1>3. r.op \in {"WRITE", "READ"} /\ links[r.t][r.i] = NoBlock
  BY <1>1, <1>2, OpenBlockDone, ThreadsAssumption DEF Goes
<1>4. r.op # "WRITE"
  BY <1>1, <1>2, <1>3, WritesOwn, Numbers
<1>5. ShownFiles' = ShownFiles
  BY <1>1, <1>3, <1>4, NotShown DEF Answering
<1>6. answer' = <<>>
  BY <1>2, StatusOnly
<1> QED
  BY <1>5, <1>6, ServesRefusal

\* A File:Tag that is the Worker's own, or committed, shows what is stored.
LEMMA SourceShown ==
    ASSUME Serving, NEW w \in Workers, NEW t \in FileTags, owner[t] = w \/ Closed(t),
           ~Modifies(w, t)
    PROVE  ShownFiles[t] = Stored(t)
<1>1. ASSUME NEW v \in Workers, Changes(thread[v], t) PROVE FALSE
  <2>1. owner[t] = v /\ Modifies(v, t)
    BY <1>1, ChangesOwn DEF Serving
  <2>2. ~Closed(t)
    BY <2>1 DEF Serving, Ownership, Owned, Modifies
  <2> QED
    BY <2>1, <2>2
<1>2. Shown(t) = Stored(t)
  BY <1>1, ShownAs, NoneChanging
<1> QED
  BY <1>2 DEF ShownFiles

\* DELETE removes the metadata, and the File:Tag is gone.
LEMMA DeleteStructureAtomic ==
    ASSUME NEW w \in Workers, Answering(w), delete_file_dir_structure(w), thread'[w] = Waiting
    PROVE  Served!Next
<1>1. PICK r : r = thread[w]
  OBVIOUS
<1>2. Serving /\ TypeOK /\ Busy(w) /\ answer' = <<>>
  BY DEF Answering, Serving, ThreadTypes, delete_file_dir_structure, Calls, Ends, Answers
<1>3. Knows(w, r) /\ Owned(w) /\ r.t \in FileTags
  BY <1>1, <1>2, Requesting
<1>4. r.op = "DELETE" /\ metadata' = [metadata EXCEPT ![r.t] = NoFile]
  BY <1>1, <1>2, DeleteStructureDone DEF Serving
<1>5. Modifies(w, r.t)
  BY <1>1, <1>2, <1>4 DEF Modifies
<1>6. /\ ShownFiles[r.t] = r.before
      /\ ShownFiles' = [ShownFiles EXCEPT ![r.t] = Stored(r.t)']
  BY <1>1, <1>3, <1>5, ShownThen DEF Answering
<1>7. r.before # NoFile
  BY <1>3, <1>4 DEF Knows, Remembers
<1>8. r.t # Protected
  BY <1>1, <1>2, <1>3, <1>4 DEF Serving, ThreadInv, BaseThere, Owned
<1>9. Stored(r.t)' = NoFile
  BY <1>2, <1>3, <1>4, OneFileChanges DEF Stored, Exists
<1> QED
  BY <1>2, <1>3, <1>6, <1>7, <1>8, <1>9, ServesDelete

\* What t held before its request.
LEMMA BeforeData ==
    ASSUME NEW r \in ThreadRecords, r.before # NoFile, NEW d, d = r.before.data
    PROVE  /\ Len(d) \in Nat /\ DOMAIN d = 1..Len(d)
           /\ d = [k \in 1..Len(d) |-> d[k]]
<1>1. d \in Seq(Contents \cup {NoBlock})
  BY DEF ThreadRecords
<1> QED
  BY <1>1

\* What t holds after its request.
LEMMA StoredThen ==
    ASSUME NEW t, Exists(t)', NEW n \in Nat, BlockCount(t)' = n, NEW d, DOMAIN d = 1..n,
           d = [k \in 1..n |-> d[k]],
           \A k \in 1..n : links'[t][k] # NoBlock /\ content'[links'[t][k]] = d[k]
    PROVE  /\ Committed(t)' => Stored(t)' = [data |-> d, committed |-> TRUE]
           /\ ~Committed(t)' => Stored(t)' = [data |-> d, committed |-> FALSE]
<1>1. DataOf(t)' = [k \in 1..n |-> d[k]]
  BY DEF DataOf
<1>2. Stored(t)' = [data |-> d, committed |-> Committed(t)']
  BY <1>1 DEF Stored
<1> QED
  BY <1>2 DEF Committed

\* CREATE and TAG write the metadata, and the File:Tag is there: TAG's with the
\* data of its source.
LEMMA CreateMetadataAtomic ==
    ASSUME NEW w \in Workers, Answering(w), create_metadata(w), thread'[w] = Waiting
    PROVE  Served!Next
<1>1. PICK r : r = thread[w]
  OBVIOUS
<1>2. Serving /\ TypeOK /\ Busy(w) /\ r.pc = "create_metadata" /\ answer' = <<>>
  BY <1>1 DEF Answering, Serving, ThreadTypes, create_metadata, Calls, Ends, Answers
<1>3. /\ Knows(w, r) /\ Owned(w) /\ r.t \in FileTags /\ r.from \in FileTags
      /\ r.blocks \in Seq(Blocks) /\ Len(r.blocks) \in 0..MaxBlocks
  BY <1>1, <1>2, Requesting
<1>4. /\ r.op \in {"CREATE", "TAG"} /\ UNCHANGED <<links, content>>
      /\ metadata' = [metadata EXCEPT ![r.t] = [blocks |-> r.blocks,
                                                state |-> "WORK_IN_PROGRESS"]]
  BY <1>1, <1>2, CreateMetadataDone DEF Serving
<1>5. Modifies(w, r.t)
  BY <1>1, <1>2, <1>4 DEF Modifies
<1>6. /\ ShownFiles[r.t] = r.before
      /\ ShownFiles' = [ShownFiles EXCEPT ![r.t] = Stored(r.t)']
  BY <1>1, <1>3, <1>5, ShownThen DEF Answering
<1>7. r.before = NoFile
  BY <1>3, <1>4 DEF Knows, Remembers
<1>8. PICK n : n = Len(r.blocks)
  OBVIOUS
<1>9. n \in Nat /\ 1..n \subseteq LogicalBlocks
  BY <1>3, <1>8, Numbers DEF LogicalBlocks
<1>10. metadata'[r.t] = [blocks |-> r.blocks, state |-> "WORK_IN_PROGRESS"]
  BY <1>2, <1>3, <1>4, OneFileChanges
<1>11. Exists(r.t)' /\ BlockCount(r.t)' = n /\ ~Committed(r.t)'
  BY <1>3, <1>8, <1>10, FilesExist DEF Exists, BlockCount, Committed, Files
<1>12. CASE r.op = "CREATE"
  <2>1. n = 0
    BY <1>3, <1>8, <1>12 DEF Knows, Matched, Copied
  <2>2. DOMAIN <<>> = 1..n /\ <<>> = [k \in 1..n |-> <<>>[k]]
    BY <2>1
  <2>3. \A k \in 1..n : links'[r.t][k] # NoBlock /\ content'[links'[r.t][k]] = <<>>[k]
    BY <2>1
  <2>4. Stored(r.t)' = [data |-> <<>>, committed |-> FALSE]
    BY <1>9, <1>11, <2>2, <2>3, StoredThen
  <2> QED
    BY <1>2, <1>3, <1>6, <1>7, <2>4, ServesCreate
<1>13. CASE r.op = "TAG"
  <2>1. /\ owner[r.from] = w \/ Closed(r.from)
        /\ Exists(r.from) /\ ~Exists(r.t)
    BY <1>1, <1>3, <1>13 DEF Owned
  <2>2. ~Modifies(w, r.from)
    BY <1>1, <2>1 DEF Modifies
  <2>3. ShownFiles[r.from] = Stored(r.from)
    BY <1>2, <1>3, <2>1, <2>2, SourceShown
  <2>4. r.blocks = metadata[r.from].blocks /\ BlockCount(r.from) = n
    BY <1>3, <1>8, <1>13 DEF Knows, Matched, Copied, BlockCount
  <2>5. PICK d : d = DataOf(r.from)
    OBVIOUS
  <2>6. Stored(r.from) # NoFile /\ Stored(r.from).data = d
    BY <1>2, <1>3, <2>1, <2>5, StoredIs
  <2>7. DOMAIN d = 1..n /\ d = [k \in 1..n |-> d[k]]
    BY <2>4, <2>5 DEF DataOf
  <2>8. ASSUME NEW k \in 1..n
        PROVE  links'[r.t][k] # NoBlock /\ content'[links'[r.t][k]] = d[k]
    <3>1. k \in LogicalBlocks /\ k \in Nat /\ k <= n
      BY <1>9
    <3>2. links[r.from][k] = Named(r.from, k)
      BY <1>2, <1>3, <2>1, <2>2, <3>1, NamedLinks
    <3>3. links[r.from][k] = r.blocks[k]
      BY <2>1, <2>4, <3>1, <3>2 DEF Named
    <3>4. links[r.t][k] = Expect(r, k)
      BY <1>3, <1>13, <3>1, LinkAsExpected DEF Knows
    <3>5. Expect(r, k) = r.blocks[k]
      BY <1>2, <1>8, <1>9, <1>13, <3>1 DEF Expect, Unlinked
    <3>6. r.blocks[k] \in Blocks
      BY <1>3, <1>8
    <3>7. d[k] = content[links[r.from][k]]
      BY <2>4, <2>5, <3>3, <3>6, Numbers DEF DataOf
    <3> QED
      BY <1>4, <3>3, <3>4, <3>5, <3>6, <3>7, Numbers
  <2>9. Stored(r.t)' = [data |-> d, committed |-> FALSE]
    BY <1>9, <1>11, <2>7, <2>8, StoredThen
  <2> QED
    BY <1>2, <1>3, <1>6, <1>7, <2>3, <2>6, <2>9, ServesTag
<1> QED
  BY <1>4, <1>12, <1>13

\* TRUNCATE and COMMIT write the metadata: with the new number of blocks, the
\* new ones zero, or as committed.
LEMMA SaveMetadataAtomic ==
    ASSUME NEW w \in Workers, Answering(w), save_file_metadata(w), thread'[w] = Waiting
    PROVE  Served!Next
<1>1. PICK r, q : r = thread[w] /\ q = thread'[w]
  OBVIOUS
<1>2. Serving /\ ThreadTypes /\ TypeOK /\ Busy(w) /\ r.pc = "save_file_metadata"
  BY <1>1 DEF Answering, Serving, ThreadTypes, save_file_metadata, Calls
<1>3. /\ Knows(w, r) /\ Matched(r) /\ Owned(w) /\ r.t \in FileTags /\ r \in ThreadRecords
      /\ Consistent(r) /\ r.n \in 0..MaxBlocks /\ Len(r.blocks) \in 0..MaxBlocks
      /\ r.blocks \in Seq(Blocks)
  BY <1>1, <1>2, Requesting DEF Knows
<1>4. /\ r.op \in {"TRUNCATE", "COMMIT"} /\ UNCHANGED <<links, content>>
      /\ metadata' = [metadata EXCEPT ![r.t] = SavedFile(r)]
  BY <1>1, <1>2, SaveMetadataDone, ThreadsAssumption DEF Goes
<1>5. answer' = <<>>
  BY <1>1, <1>4 DEF save_file_metadata, Ends, Answers
<1>6. Modifies(w, r.t)
  BY <1>1, <1>2, <1>4 DEF Modifies
<1>7. /\ ShownFiles[r.t] = r.before
      /\ ShownFiles' = [ShownFiles EXCEPT ![r.t] = Stored(r.t)']
  BY <1>1, <1>3, <1>6, ShownThen DEF Answering
<1>8. PICK d, count : d = r.before.data /\ count = Len(r.blocks)
  OBVIOUS
<1>9. /\ r.before # NoFile /\ ~r.before.committed /\ Len(d) = count
      /\ \A k \in 1..count :
            links[r.t][k] # NoBlock => content[links[r.t][k]] = d[k]
  BY <1>3, <1>4, <1>8 DEF Knows, Remembers
<1>10. DOMAIN d = 1..count /\ d = [k \in 1..count |-> d[k]]
  BY <1>3, <1>8, <1>9, BeforeData
<1>11. metadata'[r.t] = SavedFile(r) /\ Exists(r.t)'
  <2>1. metadata'[r.t] = SavedFile(r)
    BY <1>2, <1>3, <1>4, OneFileChanges
  <2>2. SavedFile(r) \in Files
    BY <1>3, <1>4, SavedFileType
  <2> QED
    BY <2>1, <2>2, FilesExist DEF Exists
<1>12. r.n \in Nat /\ count \in Nat /\ r.n <= MaxBlocks /\ count <= MaxBlocks /\ MaxBlocks \in Nat
  BY <1>3, <1>8, Numbers
<1>13. CASE r.op = "COMMIT"
  <2>1. BlockCount(r.t)' = count /\ Committed(r.t)' /\ SavedFile(r).blocks = r.blocks
    BY <1>8, <1>11, <1>13 DEF BlockCount, Committed, SavedFile
  <2>2. ASSUME NEW k \in 1..count
        PROVE  links'[r.t][k] # NoBlock /\ content'[links'[r.t][k]] = d[k]
    <3>1. k \in LogicalBlocks /\ k \in Nat /\ k <= count
      BY <1>12 DEF LogicalBlocks
    <3>2. links[r.t][k] = r.blocks[k]
      BY <1>2, <1>3, <1>4, <1>8, <1>12, <2>1, <3>1, SavedNamed
    <3>3. r.blocks[k] \in Blocks
      BY <1>3, <1>8
    <3> QED
      BY <1>4, <1>9, <3>2, <3>3, Numbers
  <2>3. Stored(r.t)' = [data |-> d, committed |-> TRUE]
    BY <1>10, <1>11, <1>12, <2>1, <2>2, StoredThen
  <2> QED
    BY <1>3, <1>5, <1>7, <1>8, <1>9, <2>3, ServesCommit
<1>14. CASE r.op = "TRUNCATE"
  <2>1. PICK n : n = r.n
    OBVIOUS
  <2>2. n \in Nat /\ n \in 0..MaxBlocks
    BY <1>12, <2>1
  <2>3. PICK e : e = [k \in 1..n |-> IF k <= Len(d) THEN d[k] ELSE Zeros]
    OBVIOUS
  <2>4. /\ BlockCount(r.t)' = n
        /\ SavedFile(r).blocks = [k \in 1..n |-> IF k <= count THEN r.blocks[k] ELSE 0]
    <3>1. SavedFile(r).blocks = [k \in 1..n |-> IF k <= count THEN r.blocks[k] ELSE 0]
      BY <1>8, <1>14, <2>1 DEF SavedFile
    <3>2. Len(SavedFile(r).blocks) = n
      BY <2>2, <3>1
    <3> QED
      BY <1>11, <3>1, <3>2 DEF BlockCount
  <2>5. ~Committed(r.t)'
    <3>1. r.state = "WORK_IN_PROGRESS"
      BY <1>1, <1>3, <1>14 DEF Owned
    <3> QED
      BY <1>11, <1>14, <3>1 DEF Committed, SavedFile
  <2>6. ASSUME NEW k \in 1..n
        PROVE  links'[r.t][k] # NoBlock /\ content'[links'[r.t][k]] = e[k]
    <3>1. k \in LogicalBlocks /\ k \in Nat /\ k <= n
      BY <1>12, <2>1 DEF LogicalBlocks
    <3>2. links[r.t][k] = SavedFile(r).blocks[k]
      <4>1. /\ Len(SavedFile(r).blocks) = n
            /\ links[r.t][k] = IF k <= Len(SavedFile(r).blocks) THEN SavedFile(r).blocks[k]
                               ELSE NoBlock
        BY <1>2, <1>3, <1>4, <1>8, <1>12, <1>14, <2>1, <3>1, SavedNamed
      <4> QED
        BY <3>1, <4>1
    <3>3. links[r.t][k] = IF k <= count THEN r.blocks[k] ELSE 0
      BY <2>4, <3>2
    <3>4. CASE k <= count
      <4>1. k \in 1..count /\ r.blocks[k] \in Blocks
        BY <1>3, <1>8, <1>12, <3>1, <3>4
      <4>2. e[k] = d[k]
        BY <1>9, <2>3, <3>4
      <4> QED
        BY <1>4, <1>9, <3>3, <3>4, <4>1, <4>2, Numbers
    <3>5. CASE ~(k <= count)
      <4>1. e[k] = Zeros
        BY <1>9, <2>3, <3>5
      <4>2. content[0] = Zeros
        BY <1>2 DEF Serving, ThreadInv, BaseThere
      <4> QED
        BY <1>4, <3>3, <3>5, <4>1, <4>2, Numbers
    <3> QED
      BY <3>4, <3>5
  <2>7. DOMAIN e = 1..n /\ e = [k \in 1..n |-> e[k]]
    BY <2>3
  <2>8. Stored(r.t)' = [data |-> e, committed |-> FALSE]
    BY <1>11, <2>2, <2>4, <2>5, <2>6, <2>7, StoredThen
  <2>9. PICK t, b : t = r.t /\ b = r.before
    OBVIOUS
  <2>10. /\ t \in FileTags /\ ShownFiles[t] = b /\ b # NoFile /\ ~b.committed
         /\ e = [k \in 1..n |-> e[k]]
         /\ \A k \in 1..n : e[k] = IF k <= Len(b.data) THEN b.data[k] ELSE Zeros
         /\ ShownFiles' = [ShownFiles EXCEPT ![t] = [data |-> e, committed |-> FALSE]]
    BY <1>3, <1>7, <1>8, <1>9, <2>3, <2>7, <2>8, <2>9
  <2> QED
    BY <1>5, <2>2, <2>10, ServesTruncate
<1> QED
  BY <1>4, <1>13, <1>14

\* WRITE changes its block and no other; READ answers with what is shown.
LEMMA AccessBlockAtomic ==
    ASSUME NEW w \in Workers, Answering(w), AccessBlock(w), thread'[w] = Waiting
    PROVE  Served!Next
<1>1. PICK r : r = thread[w]
  OBVIOUS
<1>2. Serving /\ ThreadTypes /\ TypeOK /\ Busy(w) /\ r.pc = "access"
  BY <1>1 DEF Answering, Serving, ThreadTypes, AccessBlock, Calls
<1>3. /\ Knows(w, r) /\ Matched(r) /\ Owned(w) /\ r.t \in FileTags /\ r \in ThreadRecords
      /\ Consistent(r) /\ Len(r.blocks) \in 0..MaxBlocks /\ r.blocks \in Seq(Blocks)
      /\ r.from \in FileTags
  BY <1>1, <1>2, Requesting DEF Knows
<1>4. UNCHANGED <<metadata, links>> /\ r.op \in {"WRITE", "READ"}
  BY <1>1, <1>2, AccessBlockDone
<1>5. r.i \in LogicalBlocks /\ r.i \in 1..Len(r.blocks)
  BY <1>2, <1>3, <1>4, BlockOf DEF PerBlock
<1>6. PICK count : count = Len(r.blocks)
  OBVIOUS
<1>7. /\ count \in Nat /\ count <= MaxBlocks /\ MaxBlocks \in Nat
      /\ r.i \in 1..count /\ r.i \in 1..MaxBlocks /\ 1..count \subseteq LogicalBlocks
  BY <1>3, <1>5, <1>6, Numbers DEF LogicalBlocks
<1>8. CASE r.op = "WRITE"
  <2>1. content' = [content EXCEPT ![r.block] = r.c] /\ answer' = <<>>
    BY <1>1, <1>8 DEF AccessBlock, Ends, Answers
  <2>2. Modifies(w, r.t)
    BY <1>1, <1>2, <1>8 DEF Modifies
  <2>3. /\ ShownFiles[r.t] = r.before
        /\ ShownFiles' = [ShownFiles EXCEPT ![r.t] = Stored(r.t)']
    BY <1>1, <1>3, <2>2, ShownThen DEF Answering
  <2>4. PICK d : d = r.before.data
    OBVIOUS
  <2>5. /\ r.before # NoFile /\ ~r.before.committed /\ Len(d) = count
        /\ \A k \in 1..count :
              links[r.t][k] # NoBlock /\ k # r.i => content[links[r.t][k]] = d[k]
    BY <1>3, <1>6, <1>8, <2>4 DEF Knows, Remembers
  <2>6. DOMAIN d = 1..count /\ d = [k \in 1..count |-> d[k]]
    BY <1>3, <2>4, <2>5, BeforeData
  <2>7. PICK e : e = [d EXCEPT ![r.i] = r.c]
    OBVIOUS
  <2>8. /\ DOMAIN e = 1..count /\ e = [k \in 1..count |-> e[k]]
        /\ \A k \in 1..count : e[k] = IF k = r.i THEN r.c ELSE d[k]
    BY <2>6, <2>7
  <2>9. /\ links[r.t][r.i] \in Blocks /\ OnlyLink(r.t, r.i) /\ r.block = links[r.t][r.i]
    BY <1>1, <1>2, <1>8, WritesOwn
  <2>10. /\ Exists(r.t) /\ ~Closed(r.t) /\ BlockCount(r.t) = count
         /\ r.blocks = metadata[r.t].blocks
    BY <1>1, <1>2, <1>3, <1>6, <1>8 DEF Owned, Matched, Copied
  <2>11. Exists(r.t)' /\ ~Committed(r.t)' /\ BlockCount(r.t)' = count
    BY <1>4, <2>10 DEF Exists, Closed, Committed, BlockCount
  <2>12. ASSUME NEW k \in 1..count
         PROVE  links'[r.t][k] # NoBlock /\ content'[links'[r.t][k]] = e[k]
    <3>1. k \in LogicalBlocks /\ k \in Nat /\ k <= count
      BY <1>7
    <3>2. links[r.t][k] = r.blocks[k]
      <4>1. links[r.t][k] = Expect(r, k)
        BY <1>3, <1>8, <3>1, LinkAsExpected
      <4> QED
        BY <1>2, <1>6, <1>7, <1>8, <3>1, <4>1 DEF Expect, Unlinked
    <3>3. links[r.t][k] \in Blocks /\ links[r.t][k] # NoBlock
      BY <1>3, <1>6, <3>2, Numbers
    <3>4. content \in [Blocks -> Contents]
      BY <1>2 DEF TypeOK
    <3>5. CASE k = r.i
      BY <1>4, <2>1, <2>8, <2>9, <3>3, <3>4, <3>5
    <3>6. CASE k # r.i
      <4>1. links[r.t][k] # r.block
        BY <1>3, <2>9, <3>1, <3>6 DEF OnlyLink
      <4> QED
        BY <1>4, <2>1, <2>5, <2>8, <3>3, <3>4, <3>6, <4>1
    <3> QED
      BY <3>5, <3>6
  <2>13. Stored(r.t)' = [data |-> e, committed |-> FALSE]
    <3>1. count \in Nat /\ DOMAIN e = 1..count /\ e = [k \in 1..count |-> e[k]]
      BY <1>7, <2>8
    <3>2. \A k \in 1..count : links'[r.t][k] # NoBlock /\ content'[links'[r.t][k]] = e[k]
      BY <2>12
    <3> QED
      BY <2>11, <3>1, <3>2, StoredThen
  <2>14. r.c \in Contents /\ r.i \in DOMAIN d
    BY <1>3, <1>7, <2>6 DEF ThreadRecords
  <2>15. PICK t, b, i, c : t = r.t /\ b = r.before /\ i = r.i /\ c = r.c
    OBVIOUS
  <2>16. /\ t \in FileTags /\ ShownFiles[t] = b /\ b # NoFile /\ ~b.committed
         /\ i \in 1..MaxBlocks /\ i \in DOMAIN b.data /\ c \in Contents
         /\ e = [b.data EXCEPT ![i] = c]
         /\ ShownFiles' = [ShownFiles EXCEPT ![t] = [data |-> e, committed |-> FALSE]]
    BY <1>3, <1>7, <2>3, <2>4, <2>5, <2>7, <2>13, <2>14, <2>15
  <2> QED
    BY <2>1, <2>16, ServesWrite
<1>9. CASE r.op = "READ"
  <2>1. answer' = <<content[r.block]>>
    BY <1>1, <1>9 DEF AccessBlock, Answers
  <2>2. ShownFiles' = ShownFiles
    BY <1>1, <1>9, NotShown DEF Answering
  <2>3. /\ owner[r.t] = w \/ Closed(r.t)
        /\ Exists(r.t) /\ r.from = r.t /\ r.blocks = metadata[r.t].blocks
    BY <1>1, <1>3, <1>9 DEF Owned, Matched, Copied
  <2>4. ~Modifies(w, r.t)
    BY <1>1, <1>9 DEF Modifies
  <2>5. ShownFiles[r.t] = Stored(r.t)
    BY <1>2, <1>3, <2>3, <2>4, SourceShown
  <2>6. Stored(r.t) # NoFile /\ Stored(r.t).data = DataOf(r.t)
    BY <1>2, <1>3, <2>3, StoredIs
  <2>7. links[r.t][r.i] = r.blocks[r.i] /\ BlockCount(r.t) = count
    <3>1. links[r.t][r.i] = Named(r.t, r.i)
      BY <1>2, <1>3, <1>5, <2>3, <2>4, NamedLinks
    <3>2. BlockCount(r.t) = count
      BY <1>6, <2>3 DEF BlockCount
    <3> QED
      BY <1>7, <2>3, <3>1, <3>2 DEF Named
  <2>8. r.block = links[r.t][r.i] /\ links[r.t][r.i] # NoBlock
    <3>1. r.blocks[r.i] \in Blocks
      BY <1>3, <1>6, <1>7
    <3> QED
      BY <1>2, <1>3, <2>7, <3>1, Numbers DEF Knows, AccessKnown
  <2>9. r.i \in DOMAIN DataOf(r.t) /\ DataOf(r.t)[r.i] = content[r.block]
    BY <1>7, <2>7, <2>8 DEF DataOf
  <2> QED
    BY <1>3, <1>7, <2>1, <2>2, <2>5, <2>6, <2>9, ServesRead
<1> QED
  BY <1>4, <1>8, <1>9

\* A step that is not an answer does not show, and an answer shows as the step
\* its request asks for.
LEMMA AtomicStep ==
    ASSUME NEW w \in Workers, Answering(w), handle_client(w) \/ Step(w), ~LosesBlock(w)
    PROVE  Served!Next \/ UNCHANGED <<ShownFiles, answer>>
<1>1. Serving /\ ThreadTypes
  BY DEF Answering, Serving
<1>2. CASE Busy(w)'
  <2>1. answer' = answer
    BY <1>1, <1>2, NoAnswerYet
  <2>2. ShownFiles' = ShownFiles
    BY <1>2, NotShown DEF Answering
  <2> QED
    BY <2>1, <2>2
<1>3. CASE ~Busy(w)' /\ handle_client(w)
  <2>1. ~Busy(w) /\ thread'[w] = Waiting
    BY <1>3 DEF handle_client, Busy
  <2>2. ShownFiles' = ShownFiles
    BY <2>1, NotShown DEF Answering
  <2>3. answer' = <<>> \/ answer' = answer
    BY <1>3 DEF handle_client, Ends, Answers, GoesOn
  <2> QED
    BY <2>2, <2>3, ServesRefusal
<1>4. CASE ~Busy(w)' /\ Step(w)
  <2>1. thread'[w] = Waiting
    BY <1>4 DEF Busy
  <2>2. AnswerStep(w)
    BY <1>1, <1>4, OthersGoOn
  <2> QED
    BY <2>1, <2>2, RefusedAtomic, CreateMetadataAtomic, DeleteStructureAtomic,
      SaveMetadataAtomic, OpenBlockAtomic, AccessBlockAtomic DEF AnswerStep
<1> QED
  BY <1>2, <1>3, <1>4

\* The requests of Workers that keep to their own File:Tags and do not free
\* blocks beside each other are atomic, for any number of Workers: until one
\* fails halfway, every answer is the step of FileStore its request asks for, and
\* no step before the answer, nor any step of another Worker, shows.
THEOREM RequestsAtomicCorrect ==
    ASSUME ChangeCommitted = FALSE, FreesRace = FALSE
    PROVE  ThreadsSpec => RequestsAtomic
<1> DEFINE Atomic == Undisturbed' => Served!Next \/ UNCHANGED <<ShownFiles, answer>>
<1>1. ThreadTypes /\ Mutexes /\ KeptInv /\ [ThreadsNext]_all_vars => [Atomic]_all_vars
  <2> SUFFICES ASSUME ThreadTypes, Mutexes, KeptInv, ThreadsNext, Undisturbed'
               PROVE  Served!Next \/ UNCHANGED <<ShownFiles, answer>>
    OBVIOUS
  <2>1. CASE Restart
    BY <2>1 DEF Restart, KeptInv, Undisturbed
  <2>2. ASSUME NEW w \in Workers, handle_client(w) \/ Step(w),
               lost' = (lost \/ LosesBlock(w)), UNCHANGED <<owner, stops, survivors>>
        PROVE  Served!Next \/ UNCHANGED <<ShownFiles, answer>>
    <3>1. KeptInv' /\ Moves(w) /\ Serving /\ Retains(w)
      BY <2>2, KeptStep
    <3>2. TypeOK'
      BY <2>2, ThreadStepTypes DEF StepTypes
    <3>3. Answering(w)
      BY <2>2, <3>1, <3>2 DEF Answering, KeptInv, Retains, Effects
    <3>4. ~LosesBlock(w)
      BY <2>2, NoneFails
    <3> QED
      BY <2>2, <3>3, <3>4, AtomicStep
  <2> QED
    BY <2>1, <2>2 DEF ThreadsNext
<1> QED
  BY <1>1, TypesInvariant, KeptInvariant, PTL DEF ThreadsSpec, RequestsAtomic

=============================================================================
