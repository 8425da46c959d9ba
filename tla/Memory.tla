------------------------------- MODULE Memory -------------------------------
(***************************************************************************)
(* The internal memory of a Worker and the instructions that use it: one   *)
(* page table per File:Tag, frames, the replacement of pages by LRU or     *)
(* CLOCK-M, and the Storage behind it, of which only what FileStore        *)
(* promises is known.                                                      *)
(*                                                                         *)
(* The executor runs one instruction at a time.  A step makes at most one  *)
(* request to the Storage; an access to several pages, a write-back of     *)
(* several pages and a sweep of CLOCK-M are several steps.  A page is a    *)
(* block of PageSize bytes.  Pages are numbered from 1 here, frames and    *)
(* addresses from 0.                                                       *)
(***************************************************************************)
EXTENDS Integers, Sequences, FiniteSets, SequencesExt

CONSTANTS
    FileTags,    \* <<file, tag>> pairs a query may name
    Protected,   \* <<"initial_file", "BASE">>
    Bytes,       \* what a byte can be
    Zero,        \* the byte that was never written
    PageSize,    \* BLOCK_SIZE, learned from the Storage
    MaxBlocks,   \* most blocks a query truncates a File:Tag to
    FrameCount,  \* TAM_MEMORIA / BLOCK_SIZE
    Policies,    \* ALGORITMO_REEMPLAZO: LRU, CLOCK_M or either
    StorageFull, \* the Storage may lack the block a WRITE_BLOCK needs, see BlockRefused
    Bases,       \* addresses at which a READ or WRITE starts
    MaxAccess,   \* most bytes of a READ or WRITE
    Careless,    \* what queries do although it breaks the contract, see Next
    NoFile, NoFrame, Idle

ASSUME MemoryAssumption ==
    /\ Protected \in FileTags
    /\ Zero \in Bytes
    /\ PageSize \in Nat \ {0}
    /\ MaxBlocks \in Nat \ {0}
    /\ FrameCount \in Nat \ {0}
    /\ Bases \subseteq 0..MaxBlocks * PageSize - 1
    /\ MaxAccess \in Nat
    /\ Policies \subseteq {"LRU", "CLOCK_M"}
    /\ StorageFull \in BOOLEAN
    /\ Careless \subseteq {"WRITE COMMITTED", "TRUNCATE TO 0", "TAG UNFLUSHED"}
    /\ NoFrame \notin 0..FrameCount - 1

VARIABLES
    files,           \* the Storage's File:Tags, as FileStore has them
    policy,          \* of replacement, from the configuration
    entries,         \* the File:Tags that have a page table, in order
    page_table,      \* the pages of each: <<>> for no table
    recency,         \* the present pages by last_access_time, oldest first
    used,            \* the frames in use
    physical_memory, \* what each frame holds
    clock_pointer,
    instr            \* the instruction being executed, or Idle

tables == <<entries, page_table, recency, used, physical_memory>>
vars == <<files, policy, tables, clock_pointer, instr>>

Frames == 0..FrameCount - 1
Offsets == 0..PageSize - 1
Pages == 1..MaxBlocks
Contents == [Offsets -> Bytes]
Zeros == [o \in Offsets |-> Zero]

\* That a File:Tag does not exist is nothing that one can be.
ASSUME NoFileAssumption == NoFile \notin [data : Seq(Contents), committed : BOOLEAN]

Disk == INSTANCE FileStore WITH answer <- <<>>

pt_entry_t == [frame : Frames \cup {NoFrame}, dirty : BOOLEAN, use_bit : BOOLEAN]

\* An access to the bytes base, ..., base + size - 1, of which `left` are to
\* be done, the next at `offset` of `page`.
Accesses ==
    [op : {"READ", "WRITE"}, t : FileTags, base : Bases, size : Nat,
     byte : Bytes, page : Nat, offset : Offsets, left : Nat]

\* A write-back of the pages of one File:Tag, or of all.
Flushes == [op : {"FLUSH", "COMMIT"}, t : FileTags] \cup [op : {"FLUSH ALL"}]

\* To execute nothing is not to execute something.
ASSUME IdleAssumption == Idle \notin Accesses \cup Flushes

\* Tables, frames and the instruction are what the code's types let them be.
TypeOK ==
    /\ policy \in Policies
    /\ entries \in Seq(FileTags)
    /\ page_table \in [FileTags -> Seq(pt_entry_t)]
    /\ recency \in Seq(FileTags \X Pages)
    /\ used \subseteq Frames
    /\ physical_memory \in [Frames -> Contents]
    /\ clock_pointer \in Frames
    /\ instr = Idle \/ instr \in Accesses \/ instr \in Flushes

\* mm_create; what malloc returns is taken to be zero, no page shows it.
Init ==
    /\ Disk!Init
    /\ policy \in Policies
    /\ entries = <<>>
    /\ page_table = [t \in FileTags |-> <<>>]
    /\ recency = <<>>
    /\ used = {}
    /\ physical_memory = [f \in Frames |-> Zeros]
    /\ clock_pointer = 0
    /\ instr = Idle

-----------------------------------------------------------------------------
(* Page tables.                                                            *)

NewPage == [frame |-> NoFrame, dirty |-> FALSE, use_bit |-> FALSE]
PageCount(t) == Len(page_table[t])
Present(t, i) == i \in 1..PageCount(t) /\ page_table[t][i].frame # NoFrame
PresentPages == {p \in FileTags \X Pages : Present(p[1], p[2])}
PageAt(p) == page_table[p[1]][p[2]]
FrameOf(t, i) == page_table[t][i].frame
Dirty(p) == p \in PresentPages /\ PageAt(p).dirty

mm_has_page_table(t) == page_table[t] # <<>>

\* Mutant: a table never shrinks.
pt_resize_grows(pages, n) ==
    [i \in 1..Len(pages) \cup 1..n |-> IF i <= Len(pages) THEN pages[i] ELSE NewPage]

\* pt_resize to n > 0 pages: the last ones go, whatever they hold, or absent
\* ones are added.
pt_resize(pages, n) ==
    [i \in 1..n |-> IF i <= Len(pages) THEN pages[i] ELSE NewPage]

\* The tables when t has a table, created if need be by mm_create_page_table,
\* that reaches page i.
TablesWith(t, i) ==
    LET pages == IF mm_has_page_table(t) THEN page_table[t] ELSE <<NewPage>>
    IN  [page_table EXCEPT ![t] = IF i > Len(pages) THEN pt_resize(pages, i) ELSE pages]

EntriesWith(t) == IF mm_has_page_table(t) THEN entries ELSE Append(entries, t)

\* The last entry takes the place of the removed one.
EntriesWithout(t) ==
    LET last == entries[Len(entries)]
    IN  [i \in 1..Len(entries) - 1 |-> IF entries[i] = t THEN last ELSE entries[i]]

\* The pages of `order` that are not in `gone`, in the same order.
Without(order, gone) ==
    LET kept == {i \in DOMAIN order : order[i] \notin gone}
        Nth(k) == CHOOSE i \in kept : Cardinality({j \in kept : j <= i}) = k
    IN  [k \in 1..Cardinality(kept) |-> order[Nth(k)]]

\* mm_update_page_access under LRU.
Touched(order, p) == IF policy = "LRU" THEN Append(Without(order, {p}), p) ELSE order

Forgotten(order, gone) == Without(order, gone)

-----------------------------------------------------------------------------
(* Replacement.                                                            *)

\* write_block_to_storage of a present page: the Storage writes the block or
\* refuses.  One that lacks the space has removed the link of the block by then:
\* a later READ_BLOCK, WRITE_BLOCK, COMMIT or DELETE that meets the missing link is
\* refused too.  Which ones is left open here: with StorageFull any of them may be.
BlockWritable(p) == Disk!Open(p[1]) /\ p[2] \in DOMAIN files[p[1]].data
BlockWritten(p) ==
    Disk!Write(p[1], p[2], physical_memory[PageAt(p).frame])
BlockRefused(p) == (StorageFull \/ ~BlockWritable(p)) /\ Disk!Refuse

\* pt_unmap in the table `pages`, and the frame is free.
Unmapped(p, pages) ==
    /\ page_table' = [pages EXCEPT ![p[1]][p[2]].frame = NoFrame,
                                   ![p[1]][p[2]].dirty = FALSE]
    /\ recency' = Forgotten(recency, {p})
    /\ used' = used \ {PageAt(p).frame}

\* An instruction that fails ends its query, and the executor writes every
\* page back before it tells the Master.
Fails == instr' = [op |-> "FLUSH ALL"]

\* The victim p is unmapped and the hand moves on.
Taken(p, pages, hand) ==
    /\ Unmapped(p, pages)
    /\ clock_pointer' = hand
    /\ UNCHANGED <<entries, physical_memory, instr>>

EvictClean(p, pages, hand) == ~Dirty(p) /\ Taken(p, pages, hand) /\ UNCHANGED files

\* Mutant: a dirty victim is taken without being written back.
EvictUnwritten(p, pages, hand) == Dirty(p) /\ Taken(p, pages, hand) /\ UNCHANGED files

\* A dirty victim is written back first.  If the Storage refuses, the page
\* stays and the instruction fails.
EvictDirty(p, pages, hand) ==
    /\ Dirty(p)
    /\ \/ BlockWritten(p) /\ Taken(p, pages, hand)
       \/ /\ BlockRefused(p)
          /\ page_table' = pages
          /\ Fails
          /\ UNCHANGED <<entries, recency, used, physical_memory, clock_pointer>>

\* The present page that was not accessed for the longest time.
mm_find_lru_victim ==
    \/ /\ recency = <<>>
       /\ Fails
       /\ UNCHANGED <<files, tables, clock_pointer>>
    \/ /\ recency # <<>>
       /\ \/ EvictClean(Head(recency), page_table, clock_pointer)
          \/ EvictDirty(Head(recency), page_table, clock_pointer)

\* How far the hand goes from clock_pointer to meet p.  Frames whose page
\* table is gone belong to no page and are passed over.
Turns(p) == (PageAt(p).frame + FrameCount - clock_pointer) % FrameCount
FirstMet(pages) == CHOOSE p \in pages : \A q \in pages : Turns(p) <= Turns(q)

NotUsed(modified) ==
    {p \in PresentPages : ~PageAt(p).use_bit /\ PageAt(p).dirty = modified}

\* Mutant: the second pass leaves the use bits set.
UseBitsKept == page_table

\* After the second pass every present page has its use bit clear.
UseBitsCleared ==
    [t \in FileTags |->
        [i \in 1..PageCount(t) |->
            [page_table[t][i] EXCEPT !.use_bit = @ /\ ~Present(t, i)]]]

\* Mutant: the hand runs past the last frame.
BehindPastEnd(p) == PageAt(p).frame + 1

\* Where the hand stops when it takes p.
Behind(p) == (PageAt(p).frame + 1) % FrameCount

\* One turn of mm_find_clockm_victim: a page neither used nor modified is
\* taken at once.  Otherwise the second pass clears the use bits, and the
\* first page it found modified and not used is written back and taken; if
\* there was none the hand goes round again.  A full pass leaves the hand
\* where it was.
mm_find_clockm_victim ==
    LET clean == NotUsed(FALSE)
        dirty == NotUsed(TRUE)
    IN  \/ /\ clean # {}
           /\ EvictClean(FirstMet(clean), page_table, Behind(FirstMet(clean)))
        \/ /\ clean = {}
           /\ dirty # {}
           /\ EvictDirty(FirstMet(dirty), UseBitsCleared, Behind(FirstMet(dirty)))
        \/ /\ clean = {}
           /\ dirty = {}
           /\ page_table' = UseBitsCleared
           /\ UNCHANGED <<files, entries, recency, used, physical_memory,
                          clock_pointer, instr>>

-----------------------------------------------------------------------------
(* Access to memory: mm_access_memory.                                     *)

Accessing == instr # Idle /\ instr.op \in {"READ", "WRITE"}
Missing == Accessing /\ ~Present(instr.t, instr.page)

\* No frame is free for the page: a victim is looked for.
mm_allocate_frame ==
    /\ Missing
    /\ used = Frames
    /\ \/ policy = "LRU" /\ mm_find_lru_victim
       \/ policy = "CLOCK_M" /\ mm_find_clockm_victim
    /\ UNCHANGED policy

\* Mutant: the page is mapped without reading its block.
FrameFilledWithZeros(f, t, i) == [physical_memory EXCEPT ![f] = Zeros]

\* The frame holds the block read.
FrameFilled(f, t, i) == [physical_memory EXCEPT ![f] = files[t].data[i]]

\* The page is in frame f, clean, and just accessed.
pt_map(t, i, f) ==
    [page_table EXCEPT ![t][i] = [frame |-> f, dirty |-> FALSE,
                                  use_bit |-> @.use_bit \/ policy = "CLOCK_M"]]

\* Mutant: a frame is taken without asking whether it is in use.
AnyFrame == 0

FirstFree == CHOOSE g \in Frames \ used : \A h \in Frames \ used : g <= h

\* The page gets the first free frame and the block read into it, clean.  If
\* the Storage refuses, the frame is free again and the instruction fails.
mm_handle_page_fault ==
    LET t == instr.t
        i == instr.page
        f == FirstFree
    IN  /\ Missing
        /\ used # Frames
        /\ \/ /\ Disk!Exists(t) /\ i \in DOMAIN files[t].data
              /\ page_table' = pt_map(t, i, f)
              /\ used' = used \cup {f}
              /\ physical_memory' = FrameFilled(f, t, i)
              /\ recency' = Touched(recency, <<t, i>>)
              /\ UNCHANGED instr
           \/ /\ StorageFull \/ ~(Disk!Exists(t) /\ i \in DOMAIN files[t].data)
              /\ Fails
              /\ UNCHANGED <<page_table, used, physical_memory, recency>>
        /\ UNCHANGED <<files, policy, entries, clock_pointer>>

\* Bytes of the current page the access takes.
bytes_to_copy == IF PageSize - instr.offset > instr.left THEN instr.left
                                                         ELSE PageSize - instr.offset

Advanced(n) == [instr EXCEPT !.page = @ + 1, !.offset = 0, !.left = @ - n]

\* The bytes are copied from or to the present page, which is then the last
\* accessed, and dirty if written.  If there are more, the table is grown to
\* the next page.
CopyBytes ==
    LET t == instr.t
        i == instr.page
        f == FrameOf(t, i)
        n == bytes_to_copy
        write == instr.op = "WRITE"
        pages == IF n = instr.left THEN page_table ELSE TablesWith(t, i + 1)
    IN  /\ Accessing
        /\ Present(t, i)
        /\ physical_memory' = [physical_memory EXCEPT ![f] =
              [o \in Offsets |->
                  IF write /\ o \in instr.offset..instr.offset + n - 1
                  THEN instr.byte ELSE @[o]]]
        /\ page_table' = [pages EXCEPT
              ![t][i].dirty = @ \/ write,
              ![t][i].use_bit = @ \/ policy = "CLOCK_M"]
        /\ recency' = Touched(recency, <<t, i>>)
        /\ instr' = IF n = instr.left THEN Idle ELSE Advanced(n)
        /\ UNCHANGED <<files, policy, entries, used, clock_pointer>>
-----------------------------------------------------------------------------
(* Write-back: mm_flush_query and mm_flush_all_dirty.                      *)

Flushing == instr # Idle /\ instr.op \in {"FLUSH", "COMMIT", "FLUSH ALL"}

\* The dirty pages still to be written, and the next of them: entry by entry,
\* page by page.
DirtyPages ==
    {p \in PresentPages : /\ Dirty(p)
                          /\ p[1] \in ToSet(entries)
                          /\ instr.op = "FLUSH ALL" \/ p[1] = instr.t}

Place(p) == MaxBlocks * (CHOOSE k \in DOMAIN entries : entries[k] = p[1]) + p[2]
NextDirty == CHOOSE p \in DirtyPages : \A q \in DirtyPages : Place(p) <= Place(q)

\* The first one refused ends the write-back: an instruction fails, and the
\* result of mm_flush_all_dirty is not looked at.
FlushPage ==
    /\ Flushing
    /\ DirtyPages # {}
    /\ LET p == NextDirty
       IN  \/ /\ BlockWritten(p)
              /\ page_table' = [page_table EXCEPT ![p[1]][p[2]].dirty = FALSE]
              /\ UNCHANGED instr
           \/ /\ BlockRefused(p)
              /\ instr' = IF instr.op = "FLUSH ALL" THEN Idle ELSE [op |-> "FLUSH ALL"]
              /\ UNCHANGED page_table
    /\ UNCHANGED <<policy, entries, recency, used, physical_memory, clock_pointer>>

commit_file_in_storage(t) ==
    \/ Disk!Commit(t) /\ instr' = Idle
    \/ (StorageFull \/ ~Disk!Open(t)) /\ Disk!Refuse /\ Fails

\* Nothing is left to write: COMMIT goes on to the Storage.
FlushDone ==
    /\ Flushing
    /\ DirtyPages = {}
    /\ \/ instr.op # "COMMIT" /\ instr' = Idle /\ UNCHANGED files
       \/ instr.op = "COMMIT" /\ commit_file_in_storage(instr.t)
    /\ UNCHANGED <<policy, tables, clock_pointer>>

-----------------------------------------------------------------------------
(* Instructions: execute_instruction.                                      *)

create_file_in_storage(t) ==
    /\ \/ Disk!Create(t) /\ UNCHANGED instr
       \/ Disk!Exists(t) /\ Disk!Refuse /\ Fails
    /\ UNCHANGED <<policy, tables, clock_pointer>>

\* The size must be a number of pages.  A table is cut or grown to the new
\* size, unless that is 0: pt_resize refuses, and the table stays.  Frames of
\* pages that are cut off remain in use.
TRUNCATE(t, size) ==
    LET n == size \div PageSize
        Cut == {p \in PresentPages : p[1] = t /\ p[2] > n}
    IN  /\ \/ size % PageSize # 0 /\ Fails /\ UNCHANGED <<files, page_table, recency>>
           \/ /\ size % PageSize = 0
              /\ \/ /\ Disk!Truncate(t, n)
                    /\ \/ /\ mm_has_page_table(t) /\ n > 0
                          /\ page_table' = [page_table EXCEPT ![t] = pt_resize(@, n)]
                          /\ recency' = Forgotten(recency, Cut)
                       \/ /\ ~mm_has_page_table(t) \/ n = 0
                          /\ UNCHANGED <<page_table, recency>>
                    /\ UNCHANGED instr
                 \/ /\ ~Disk!Open(t)
                    /\ Disk!Refuse
                    /\ Fails
                    /\ UNCHANGED <<page_table, recency>>
        /\ UNCHANGED <<policy, entries, used, physical_memory, clock_pointer>>

\* The Storage copies its own blocks; pages of src are not written back.  It
\* also refuses if the File of dst has no directory.
fork_file_in_storage(src, dst) ==
    /\ \/ Disk!Tag(src, dst) /\ UNCHANGED instr
       \/ Disk!Refuse /\ Fails
    /\ UNCHANGED <<policy, tables, clock_pointer>>

delete_file_in_storage(t) ==
    \/ Disk!Delete(t) /\ UNCHANGED instr
    \/ (StorageFull \/ ~Disk!Exists(t) \/ t = Protected) /\ Disk!Refuse /\ Fails

\* The table goes first, dirty pages and all, and its frames remain in use;
\* then the Storage is asked.
DELETE(t) ==
    /\ page_table' = [page_table EXCEPT ![t] = <<>>]
    /\ entries' = IF mm_has_page_table(t) THEN EntriesWithout(t) ELSE entries
    /\ recency' = Forgotten(recency, {p \in PresentPages : p[1] = t})
    /\ delete_file_in_storage(t)
    /\ UNCHANGED <<policy, used, physical_memory, clock_pointer>>

\* READ and WRITE: the table is created, and grown to the first page.
Access(op, t, base, size, byte) ==
    LET first == base \div PageSize + 1
    IN  /\ entries' = EntriesWith(t)
        /\ \/ size = 0 /\ page_table' = TablesWith(t, 1) /\ Fails
           \/ /\ size > 0
              /\ page_table' = TablesWith(t, first)
              /\ instr' = [op |-> op, t |-> t, base |-> base, size |-> size,
                           byte |-> byte, page |-> first,
                           offset |-> base % PageSize, left |-> size]
        /\ UNCHANGED <<files, policy, recency, used, physical_memory,
                       clock_pointer>>

\* Mutant: COMMIT goes straight to the Storage.
StartCommitUnflushed(t) ==
    /\ commit_file_in_storage(t)
    /\ UNCHANGED <<policy, tables, clock_pointer>>

StartCommit(t) ==
    /\ instr' = [op |-> "COMMIT", t |-> t]
    /\ UNCHANGED <<files, policy, tables, clock_pointer>>

StartFlush(t) ==
    /\ instr' = [op |-> "FLUSH", t |-> t]
    /\ UNCHANGED <<files, policy, tables, clock_pointer>>

\* The query is evicted after an instruction.
StartEviction ==
    /\ instr = Idle
    /\ instr' = [op |-> "FLUSH ALL"]
    /\ UNCHANGED <<files, policy, tables, clock_pointer>>

Closed(t) == Disk!Exists(t) /\ files[t].committed
Unflushed(t) == \E i \in Pages : Dirty(<<t, i>>)

\* Any instruction; the data of a WRITE is a C string, without zeros.  No
\* condition on t, dst or size is in the code: they are the contract of the
\* queries.  FileStore says nothing of a TRUNCATE of a committed File:Tag, so none
\* is executed; those that the memory does not survive are if Careless says so.
execute_instruction ==
    /\ instr = Idle
    /\ \E t \in FileTags :
          \/ create_file_in_storage(t)
          \/ \E size \in 0..MaxBlocks * PageSize :
                /\ ~Closed(t)
                /\ \/ size > 0
                   \/ ~mm_has_page_table(t)
                   \/ "TRUNCATE TO 0" \in Careless
                /\ TRUNCATE(t, size)
          \/ \E dst \in FileTags :
                /\ ~Unflushed(t) \/ "TAG UNFLUSHED" \in Careless
                /\ fork_file_in_storage(t, dst)
          \/ DELETE(t)
          \/ \E base \in Bases, size \in 0..MaxAccess :
                \/ Access("READ", t, base, size, Zero)
                \/ /\ ~Closed(t) \/ "WRITE COMMITTED" \in Careless
                   /\ \E byte \in Bytes \ {Zero} :
                         Access("WRITE", t, base, size, byte)
          \/ StartFlush(t)
          \/ StartCommit(t)

\* What the executor does of itself to end the instruction.
Continue ==
    mm_allocate_frame \/ mm_handle_page_fault \/ CopyBytes \/ FlushPage \/ FlushDone

Next == execute_instruction \/ StartEviction \/ Continue

Spec == Init /\ [][Next]_vars

FairSpec == Spec /\ WF_vars(Continue)

-----------------------------------------------------------------------------
(* Properties.                                                             *)

\* Two pages are never in the same frame, a page's frame is in use, and LRU
\* knows exactly the present pages, whatever was evicted, cut off or deleted.
FramesExclusive ==
    /\ \A p, q \in PresentPages : PageAt(p).frame = PageAt(q).frame => p = q
    /\ \A p \in PresentPages : PageAt(p).frame \in used
    /\ policy = "LRU" => /\ ToSet(recency) = PresentPages
                         /\ IsInjective(recency)

\* A page that is not dirty is what the Storage has for it: it may be dropped
\* without being written back.
CleanMatches ==
    \A p \in PresentPages :
        ~Dirty(p) => /\ Disk!Exists(p[1])
                     /\ p[2] \in DOMAIN files[p[1]].data
                     /\ physical_memory[PageAt(p).frame] = files[p[1]].data[p[2]]

\* What is committed is what was written: no page of a committed File:Tag is
\* still to be written back.
CommittedFlushed == \A t \in FileTags : Closed(t) => ~Unflushed(t)

\* A File:Tag as the queries of this Worker see it: memory over Storage.
Seen(t) ==
    IF ~Disk!Exists(t) THEN NoFile
    ELSE [data |-> [i \in DOMAIN files[t].data |->
                      IF Present(t, i) THEN physical_memory[FrameOf(t, i)]
                                       ELSE files[t].data[i]],
          committed |-> files[t].committed]

view == [t \in FileTags |-> Seen(t)]

View == INSTANCE FileStore WITH files <- view, answer <- <<>>

\* A DELETE fails on a missing link when the pages of t are gone already: what
\* was not written back of t is lost.
Undone ==
    /\ StorageFull
    /\ instr = Idle /\ instr' = [op |-> "FLUSH ALL"]
    /\ \E t \in FileTags : view' = [view EXCEPT ![t] = files[t]]

\* The memory is invisible: a query sees the File:Tags change as FileStore
\* says, whichever of their pages are present, cut off, deleted or of an
\* earlier File:Tag of the same name.
ImplementsFileStore == View!Init /\ [][View!Next \/ Undone]_view

ByteAt(t, a) == Seen(t).data[a \div PageSize + 1][a % PageSize]
Written == instr.base..instr.base + instr.size - 1

\* A WRITE changes the bytes it names, all of them if it succeeds, and no
\* others, whatever pages they are in and however often these are evicted
\* meanwhile; a page fault, an eviction, a READ, a write-back, a COMMIT and a
\* refusal of the Storage change no byte that a query can see.
WritesExact ==
    [][instr # Idle =>
          /\ \A t \in FileTags : Disk!Exists(t) =>
                \A a \in 0..Len(files[t].data) * PageSize - 1 :
                    \/ ByteAt(t, a)' = ByteAt(t, a)
                    \/ /\ instr.op = "WRITE" /\ t = instr.t /\ a \in Written
                       /\ ByteAt(t, a)' = instr.byte
          /\ (instr.op = "WRITE" /\ instr' = Idle) =>
                \A t \in {instr.t}, a \in Written : ByteAt(t, a)' = instr.byte]_vars

\* No frame is free, and none belongs to a page: TRUNCATE and DELETE leave
\* frames in use.
FramesLost == used = Frames /\ PresentPages = {}

\* Every instruction ends, so that there is none again and again: the search
\* for a victim finds one, unless all frames are lost.
InstructionEnds == []<>(instr = Idle \/ FramesLost)
=============================================================================
