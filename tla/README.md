# A TLA+ model of the Master of Files system

The repository is a distributed query system in C: a **Master** that schedules
queries, **Workers** that execute them, a **Storage** that keeps blocks of files,
and **Query Controls** through which users submit queries. This directory holds
TLA+ modules translated from that code, the TLC configurations that check them
on small instances, and TLAPS proofs of what holds for every instance.

## The system

| Component | State | Operations | Hard behaviours |
|---|---|---|---|
| Master, tables and dispatch (`scheduler.c`, `query_control_manager.c`, `worker_manager.c`, `main.c`) | `query_list`, `ready_queue`, `running_list`, `worker_list`, `idle_list`, `busy_list` and the control blocks, under two mutexes | one `handle_client` thread per connection, each package a handler followed by `try_dispatch` | handlers of different connections interleave; a dispatch fails half way; late packages |
| Master, aging (`aging.c`) | priorities and their timestamps, `preemption_pending` | a thread that ages the ready queue and then looks for a query to evict | two critical sections; an eviction is answered later, or never |
| Master, disconnections (`disconnection_handler.c`) | the same tables | end of a Query Control, end of a Worker, error reported by the Storage | peers vanish at any point; mutex order |
| Query Control | none beyond its connection | submit one query, print what it reads, leave at the end or when killed | leaves while its query runs |
| Worker, threads (`worker_listener.c`, `query_executor.c`) | `worker_state_t` under `mux`; the executor's own `ctx` | assign, eject, fetch, execute, evict, end | the listener acts between any two critical sections of the executor |
| Worker, memory manager and instructions (`memory_manager.c`, `page_table.c`, `query_interpreter.c`) | page tables, `frame_table`, `physical_memory`, the clock's hand | page faults, LRU, CLOCK-M, write-back; CREATE, TRUNCATE, WRITE, READ, TAG, COMMIT, FLUSH, DELETE | write-backs refused half way; frames of no page; pages older than their File:Tag |
| Storage | `metadata.config`, hard links, `bitmap.bin`, `blocks_hash_index.config`, physical blocks | CREATE, TRUNCATE, TAG, DELETE, WRITE, READ, COMMIT | sharing of blocks; a full disk; requests of several Workers step by step; a stop in the middle of one |
| Packages (`utils`) | sockets | `package_send`, `package_receive` | closed peers |

The Master talks to the others by packages over TCP; the Workers call the
Storage and wait for each answer. `PROJECT.json` lists every component with what
is modelled of it, and under `hazards` what in this code is hard to test.

What makes it correct: a query is on the lists its state says; it is executed by
one Worker at a time, each instruction once and in order, over all evictions;
queries wait in the order of the algorithm; the end of each is reported once and
comes at last; idle Workers are used; the threads do not deadlock; the Storage
behaves as if every File:Tag had blocks of its own and every request were one
step; and a Worker's memory is invisible to its queries.

## Modules

| Module | What it is |
|---|---|
| `Wire` | the connections of the Master: a FIFO of packages each way and whether the peer has closed its end |
| `QueryControl`, `WorkerLink` | the Query Control; the handshake and the end of a Worker's connection |
| `Master` | the Master. One step is one critical section; the `try_dispatch` after a handler is a step of its own, because both mutexes are released in between. `queryThread` and `workerThread` say where a `handle_client` thread is |
| `Peers` | the Master with abstract Workers, which say of a query anything the real ones may: an assignment or a request to eject may be lost without a word, and the program counter of one query may be written to another the Worker holds. For safety only: no fairness is stated of them |
| `Worker` | the two threads of a Worker; one step is one critical section of `mux` with the local work and packages up to the next |
| `Cluster` | the Master with the Workers of `Worker` |
| `MasterLocks` | the mutexes each critical section of the Master takes, one at a time |
| `FileStore` | what the Storage promises: File:Tags with data of their own |
| `Storage` | the Storage's filesystem, one step per request, with a refinement mapping to `FileStore` |
| `StorageThreads` | the same disk with the requests of several Workers as the steps they are made of: a file read or written, a link made or removed, a mutex taken; the Storage may stop between any two. It extends `Storage` for the disk and its helpers |
| `Memory` | a Worker's memory manager and the instructions that use it, over `FileStore` |
| `MCPeers`, `MCCluster`, `MCMasterLocks`, `MCStorage`, `MCStorageThreads`, `MCMemory` | instances for TLC: model values, symmetry sets; `MCStorage` also remembers that a WRITE_BLOCK has lost its block for want of a free one (`full`) and that a COMMIT has failed halfway because of that (`torn`) |
| `ListLemmas`, `MasterProofs`, `PeersProofs`, `ClusterProofs`, `LockProofs`, `StorageProofs`, `RequestProofs`, `MemoryProofs` | theorems and proofs |

Definitions keep the names of the C functions they translate; `PROJECT.json`
(`map`) gives the lines of each. Definitions whose comment starts with *Mutant*
are plausible bugs: each property is checked to fail when the mutant replaces
the definition it follows.

### Abstractions

- A query is identified with the Query Control that submits it, and its id with
  itself: ids are taken to be unique, though `generate_query_id` increments its
  counter without the mutex. A freed control block is state `"NONE"`.
- Time appears only as the number of aging intervals a pass finds elapsed, any
  number up to `MaxIntervals` for each query.
- `package_send` to a peer that has closed its end may succeed or fail; what is
  sent to it is never received. Packages of one connection keep their order.
- An instruction is abstracted to what the Master can see: nothing, a READ, an
  END, or a failure with or without an ERROR of the Storage. A program has
  `ProgramLength` instructions and an END. `mm_flush_all_dirty` stops at the
  first refused page: at most one ERROR.
- In `Memory` a step makes at most one request to the Storage. Which of the
  Storage's answers comes is left to `FileStore`. A Storage without room refuses a
  WRITE_BLOCK after it has removed the link of the block, and later requests that
  need that link are refused too; with `StorageFull` any WRITE_BLOCK, READ_BLOCK,
  COMMIT or DELETE may be, which allows that and more. The order of last accesses stands for the
  timestamps of LRU. A WRITE is of one byte value, never zero (its data is a C
  string), repeated; where the bytes READ copies go has no state. A search for a
  victim, a pass of CLOCK-M and each page written back are steps of their own.
  Only one thread is in the memory at a time: `eject_query` of the listener
  writes back only while the executor waits for a query, and it is the
  listener that would bring the next one.
- In `StorageThreads` the receipt of a request and its reading of the metadata
  are one step, as are `cp -rl`, `rm -rf`, the saves of a `metadata.config` and
  of the hash index, and the write of a block: a stop does not leave half of
  one. What `modify_bitmap_bits` writes is on the disk only after its `fclose`:
  `fwrite` keeps it in the buffer of the `FILE`, which is larger than the bitmap
  (512 bytes with the shipped configuration).
- The logical blocks of `Storage` hold members of a small set of contents; a
  content stands for its hash (no MD5 collisions). Calls of the operating system
  succeed wherever the code's own state lets them.

## Runs

Passing runs. Deadlock is checked in `lock_order`, `memory_paging` and the Storage
runs; the others stop when every query has ended, so there it is not.

| Run | Instance | Shows |
|---|---|---|
| `master_eviction` | 2 queries, 2 Workers, the instructions of one may fail, PRIORITY, no disconnections | order of the ready queue, one eviction request at a time, one Worker per query, program counters preserved; the end of a failed query, of which an ERROR and an END may tell, is reported once |
| `master_disconnect` | 2 queries, 2 Workers; Query Controls and Workers come and leave at any moment | the tables agree; each end is reported exactly once; no query runs on a Worker that is gone, none on two |
| `cluster_priority` | 2 queries, 2 Workers with both threads, one of which may crash, PRIORITY | instructions executed once and in order over all evictions |
| `cluster_fifo` | 2 queries, 1 Worker whose instructions may fail, FIFO, fair | no assignment is lost between the threads; order of arrival; no idle Worker beside a ready query; every query ends |
| `lock_order` | 2 + 2 + 1 threads | no circular wait, no deadlock |
| `storage_sharing` | 3 File:Tags of up to 2 blocks, 4 physical blocks and 5 bits | refinement of `FileStore` and agreement of links and metadata until the blocks run out; an exact bitmap, a current index and committed data unchanged until a COMMIT fails halfway |
| `storage_threads` | 3 File:Tags of 1 block, 3 physical blocks and 4 bits; two Workers, or one and a stop | no block is handed out twice or freed in use; mutexes are released; when no request runs the disk is exact; each request is one step of `FileStore`; what was committed reads the same, through a stop too |
| `memory_paging` | 2 File:Tags of up to 2 pages of 2 bytes, 2 frames, either policy, refused requests, fair | no frame shared, clean pages match the Storage, COMMIT misses no page; the queries see `FileStore`; a WRITE changes its bytes and nothing else does; every instruction ends |

Why the bounds suffice: an eviction needs a running and a better ready query,
which two queries and one aging interval give; a late package about one query
meets another on the same Worker, or the same one on another Worker, and a Worker
is reused, with two of each; on one Worker two queries compete for it. Priorities
0 and 1 tell better from worse; aging stops at 0. Three File:Tags with two
blocks let a block be shared by TAG, by TRUNCATE (block 0) and by COMMIT; with
five physical blocks there is always room, so four run out. In
`storage_threads` block 0 and one block for each open File:Tag are just enough,
a stop that loses one makes the next WRITE fail, and the fourth bit is one of no
block; with 2 blocks and 3 bits, where a WRITE fails without a stop too, the same
properties pass. Three pages can be wanted for two frames, an access may start in the middle
of a page and reach the next, and frames are lost to TRUNCATE and DELETE.

### Where code and documentation disagree

Four runs check a statement of the repository and end in a counterexample;
`PROJECT.json` (`findings`) quotes the statement.

| Run | Statement | What the code does |
|---|---|---|
| `lock_inversion` | first workers, then queries | cancelling a running query takes the mutexes in the other order |
| `lost_assignment` | an assignment is never erased; all queries complete (`docs/test_prioridades.md:89`) | it is, after an eviction, and its query never runs |
| `stale_index` | duplicates are relinked | after a committed File:Tag is deleted or truncated, the index may name a block with other data |
| `lost_block` | concurrent access; bits next to each other are modified | DELETE and TRUNCATE write back all the bits as they were before the unlock: a block another Worker took meanwhile is free again |

A fifth disagreement touches no property: `storage/tests/test_commit_tag.c:292`
expects a second COMMIT of a File:Tag to succeed, and `commit_tag.c:127` answers
`FILE_ALREADY_COMMITTED`. The modules follow the code.

### Boundaries of the passing runs

The constants of the passing runs also keep out other behaviours of the code in
which their properties do not hold. A reader can see each by changing the
constants named:

| Property | Does not hold with | Because |
|---|---|---|
| `ReadyByArrival` | FIFO and `Crashers` | a failed dispatch appends the query behind younger ones (`scheduler.c:115`) |
| `RunningHasWorker` | `Crashers` and `Fallible` together | the END of an older query clears `current_query_id` of a Worker that has a newer one (`worker_manager.c:367`) |
| `WorkConserving` | PRIORITY, 2 Workers | `try_dispatch` assigns one query per call and none while an eviction is pending (`scheduler.c:59`): a Worker that registers or is freed meanwhile shares the one call that follows the eviction |
| `ExecutesInOrder` | `Fallible`, with PRIORITY, or with FIFO, 3 queries and one Worker | a refused instruction and a refused write-back are two ERRORs of one query. By the second, `handle_error_from_storage` (`disconnection_handler.c:442`) ends the query its Worker has next and sends a third; the executor, still at the second, writes its program counter to `state->current_query` (`query_executor.c:38`), and the third starts in its middle, against `worker/docs/requerimientos.md:21` |
| `PcPreserved` | `Fallible`, PRIORITY, 4 queries and one Worker | the third query of the row above, evicted for a fourth, waits with the program counter of the second. Four queries are too many for TLC to search through; its simulation of `Cluster` finds it. The two of `master_eviction` do not come so far, and the theorems ask for `Fallible` to be empty |
| `EveryQueryEnds` | `Crashers` and 2 Workers | a query whose dispatch to a lost Worker failed waits for ever: `handle_worker_disconnection` calls no `try_dispatch`, and that of the aging thread (`aging.c:24`) is commented out |
| `EveryQueryEnds` | PRIORITY, against `docs/test_prioridades.md:89` ("Todas las queries completan su ejecución") | an eviction request that arrives while the executor loads the query is wiped out (`query_executor.c:27`), and assignments are lost as above |
| `CommittedUnchanged`, `ImplementsFileStore` of the Storage | `ChangeCommitted` | TRUNCATE does not look at the state of the File:Tag |
| `LinksExact`, `ImplementsFileStore` without `full` | fewer blocks than needed | a write refused for lack of space has removed the link before (`write_block.c:265`) |
| `BlocksAccounted`, `IndexExact` without `torn` | `MaxBlocks` = 3 and few blocks | a File:Tag has lost the link of a later block to a refused write; COMMIT has freed and registered blocks when it comes to that one, fails (`commit_tag.c:362`) and saves neither index nor metadata, so that the metadata names blocks that are free. Too large for TLC as a run; the proofs cover any `MaxBlocks` |
| `BlocksKept`, `QuietDiskExact`, `RequestsAtomic` without `lost` | 2 `PhysicalBlocks` | the same refused write, in the middle of other requests |
| `BitmapExact` of all the bits, not only those of blocks | `BitmapBits` above `PhysicalBlocks` | a write takes a bit for a block that does not exist, and fails with the bit set (`fresh_start.c:61`) |
| `BlocksKept` | `FreesRace` | see `lost_block` |
| `CommittedKept` without `survivors` | a File:Tag committed after a stop | a stop between the link of a copy and the save of its metadata, or between the saves of index and metadata, leaves them in disagreement; a later COMMIT may register, or trust, the wrong block |
| `CleanMatches`, `ImplementsFileStore`, `CommittedFlushed` of the memory (one per option, in this order) | `Careless` | `"TRUNCATE TO 0"`: `pt_resize` refuses 0 pages and the old ones stay (`page_table.c:48`). `"TAG UNFLUSHED"`: TAG copies the Storage's blocks, not the pages of the source. `"WRITE COMMITTED"`: pages of a committed File:Tag may be written and never written back, and as victims they fail other instructions |
| `ImplementsFileStore` of the memory without `Undone` | `StorageFull` | DELETE drops the pages of a File:Tag, dirty ones too, and then asks the Storage, which may refuse for a missing link (`delete_tag.c:34`): what was not written back is lost |
| `InstructionEnds` without `FramesLost` | CLOCK-M | TRUNCATE and DELETE leave frames in use that belong to no page; when all are, the clock turns for ever |

Two more limits are of the modules themselves. `Allowed` of `StorageThreads`:
a File:Tag is changed by the queries of one Worker, and others read or tag it when
it is committed; the code has nothing that keeps two Workers apart on the same
open File:Tag. And `Memory` is one
Worker: a page that another changed in the Storage stays present and clean, and
pages that an eviction could not write back (`mm_flush_all_dirty` stops at the
first refusal, and its result is not looked at) are not where the query goes on.
Its queries do not TRUNCATE a committed File:Tag, though the code lets them:
`FileStore` says nothing of that (see `stale_index` for what the Storage makes of it).

`StopsBeside` is a bound of the runs of `StorageThreads` and not of the theorems:
with FALSE the Storage stops only where one Worker changes File:Tags. With TRUE the
same properties pass on the same instance (5 million states), which takes longer than
a run should.

### Fairness

`FairSpec` in `Cluster` assumes weak fairness of each thread of the
Master and the Workers (the scheduler of the operating system runs every thread,
the mutexes are not held for ever, TCP delivers), of starting the Workers, and of
a Query Control leaving once told of the end. Nothing is assumed of crashes,
kills or failures, nor that users submit. All mutexes here are released within
the step that takes them, so weak fairness of a thread's step is what a
thread that competes for them needs. `FairSpec` in `Memory` assumes weak fairness
of `Continue`: the executor goes on with the instruction it is in, and the Storage
answers; nothing is assumed of which instructions there are. `ImplementsFileStore`,
`RequestsAtomic` and the other properties of the Storage are safety and need none.

### Refinement

`FileStore` is the promise, three times shown to be kept: by `Storage`
(`ImplementsFileStore` of `MCStorage`: a File:Tag's data are the contents of the
blocks it links to), by `StorageThreads` (`RequestsAtomic`: a File:Tag shows
as it was before the request that is changing it, until that is answered) and, one level up, by
`Memory` (`ImplementsFileStore`: the pages present, over the blocks of a
`FileStore` below), which uses of the Storage no more than the same module says.

## Proofs

For every number of queries, Workers, priorities, threads, instructions,
File:Tags, blocks, contents, frames and pages:

**The Master and its peers** (`Peers`).

`MasterProofs` is about the Master alone, with any Workers that speak its
protocol. What the proofs need of the Workers is a record `k`: the queries each
holds, those it has ended and not yet let go of (`late`), those it is asked to
give up (`eject`), where it is in each, and how much of each query anybody has
executed. `SystemInv(k, F)`, with `F` the Workers that may fail, is kept by every
step of the Master, and by every step of a Worker that receives a START or a
PREEMPT, executes an instruction, or sends what it owes and lets the query go.
`PeersProofs` and `ClusterProofs` define `Known`, the `k` of their Workers, and
show that these take such steps only.

- `PeersProofs!TypeCorrect`: `Spec => []TypeOK`. `TypeOK` is inductive with the
  assumptions on the constants alone; there is a lemma per shared part of the
  handlers and one case per action.
- `QueryTablesCorrect` and `EndReportedCorrect`: each query is once
  on exactly the lists of its state; its end is reported exactly once, last, and
  no query leaves the tables unreported. `QueryInv`, a conjunct of `SystemInv`, adds
  to these two what they need: `SubmittedOnce` (a query is submitted once, is
  known to the tables only after that, and is CANCELED only when its Query Control
  has left) and `Reported` (`EndReported` with the half of it that survives the
  Query Control).
- `ReadyByPriorityCorrect`: the ready queue is sorted at every moment.
  `ReadySorted` is inductive beside `QueryInv`; the work is in what an insertion
  behind the last element that is not worse, a removal and an aging pass followed
  by a sort do to a sorted list.
- `SingleExecutionCorrect`, `PreemptOnceCorrect` and, if no instruction fails
  (`Fallible` is empty), `PcPreservedCorrect` rest on
  `Assigned(k)`, which says for each query and
  Worker where the one token that lets the Worker execute the query is: in a START
  on the way, in the Worker's hands, in an END, ERROR or EVICTED on the way back,
  or nowhere; and that a query is READY only when no package about it is left
  anywhere. None of the three properties is inductive without it: each speaks of
  the tables, and what breaks it are packages still on the way. The parts of it
  about program counters are claimed for an empty `Fallible` only (`Agree`): then a
  Worker holds one query at a time, and the program counter it writes can only be of
  that one.
- `WorkerTablesCorrect` (`TablesInv`, `WorkerInv`) and
  `RunningHasWorkerCorrect` (`RetainInv`), the latter for Workers that do not
  both crash and fail (`Fallible` and `Crashers` are disjoint), because with both
  it is false, see above.

**The Master and Workers of two threads** (`Cluster`).

- `ClusterProofs!ClusterTypeCorrect`, without conditions. `TypeOK` is not inductive
  here: that the executor loads a query and not `NoQuery`, and counts no
  further than the place after the END, depends on what the listener may do between
  its critical sections. `ThreadsFit` says it: `is_executing` is up exactly while the
  executor is past `fetch_next_query`, `has_query` is up while it loads, and what it
  has executed is an instruction of the program or its END.
- `ExecutesInOrderCorrect`, `ExecutesOnceCorrect` and `ClusterPcPreservedCorrect`,
  if no instruction fails (`Fallible` is empty), whoever crashes or leaves; with
  failures the first is false, see the boundaries. The invariant `ClusterInv`
  is `SystemInv` for what the two threads know together, `Counted` (the number of
  instructions executed is where the query's Worker is in it) and `Steady`: while
  the executor is at work on a query, `current_query` is that query and the
  listener has not replaced it, so that the program counter goes where it belongs.
  The difficult moments are those in which the executor has sent the END or the
  eviction response and has not come to the end of its loop: the Master may have
  assigned the next query, or the Worker is asked to give up what it has just
  ended (`late`) and answers a second time.
  That an assignment may be erased there (`lost_assignment`) costs its query
  progress, and none of the three properties.

**The Master's mutexes** (`MasterLocks`).

- `LockProofs!LockTypeCorrect`, and `NoCircularWaitCorrect`: without cancellation
  of running queries no two threads wait for each other's mutex. `LockInv`: every
  section is ordered and a thread holds a prefix of it.

**The Storage, a request at a time** (`Storage`, `MCStorage`).

- `StorageProofs!StorageTypeCorrect`, whatever the requests.
- If committed File:Tags are neither truncated nor deleted (`ChangeCommitted` is
  FALSE; otherwise see `stale_index`): `BlocksAccountedCorrect`,
  `LinksExactCorrect`, `IndexExactCorrect`, `CommittedUnchangedCorrect`, and the
  refinement `StorageImplementsFileStore`: initial states map to initial states
  and every step, until the Storage is full, to a step of `FileStore`. The
  inductive invariant `StorageInv`: until a COMMIT fails halfway, every link is to
  the block the metadata names, the bitmap marks exactly the linked blocks, and a
  block in the index holds its content and is linked by a committed File:Tag, so
  that nobody writes it. That last conjunct (`Frozen`) is what makes deduplication
  safe: a registered block has at least two links the moment an open File:Tag has
  one to it. `deduplicate_blocks` is a fold; `LoopInv` is the invariant of its
  turns, and a turn of it is shown to keep it for any disk.

**The Storage, a step at a time** (`StorageThreads`).

- `StorageProofs!MutexesReleasedCorrect`, without conditions: a mutex is held only
  by a request that is on its way to the unlock, for any number of Workers,
  requests and stops. The invariant `ThreadTypes` and `Mutexes` says what each
  request has when it makes a call, and that a mutex is held exactly between the
  load and the persist of what it protects; one lemma per call states its outcomes
  (`...Done`), one that it keeps the invariant (`...Types`).
- `RequestProofs!BlocksKeptCorrect`, `QuietDiskExactCorrect`,
  `CommittedKeptCorrect` and `RequestsAtomicCorrect`, if committed File:Tags are
  neither truncated nor deleted and no request frees blocks beside another
  (`ChangeCommitted` and `FreesRace` are FALSE; otherwise see `stale_index` and
  `lost_block`). The invariant `KeptInv` has a part that holds always, stops
  included: `Ownership` (a request changes only a File:Tag of its own Worker that
  is open, and reads only such a one or a committed one) and `SurvivorInv` (the
  blocks of what was committed before a stop stay marked, linked and unwritten).
  The rest, `ThreadInv`, holds until a stop or a request that fails halfway, and is
  what makes the other two provable. `Knows` says of each request, at each call:
  the links its File:Tag has at that point of its loop, the block it has in hand,
  that its copy of the bitmap or index is current, and what is left of the data it
  found. Of all requests together: who frees blocks is alone (`RunsAlone`),
  every linked block is marked (`LinksMarked`), every marked block is linked or in
  one request's hand (`MarksUsed`, `TakenOnce`), blocks shared between Workers or
  named by the index are ones nobody writes (`SharedSettled`, `IndexSettled`), and
  a File:Tag nobody changes has the links its metadata names (`Settles`).
  Each call is first shown to have the `Effects` the other requests can see; that
  these keep what the others know is shown once, for all calls (`Others...`).
  Atomicity follows: what is shown of the File:Tags changes only in the step that
  answers, and that step is the one of `FileStore` (`...Atomic`).

**A Worker's memory** (`Memory`), with LRU and with CLOCK-M.

- `MemoryProofs!MemoryTypeCorrect` and `FramesExclusiveCorrect`, whatever the
  queries do. The invariant `MemoryInv` adds to the two that files stay within
  their bound, that the access in progress is to a page of its table, and
  `EntriesExact`: the list of page tables names each File:Tag that has one, once. Every
  action is first shown to have one of a few effects (`Quiet`, `Evicted`,
  `Flushed`, `Copied`, `Loaded`, `Committed`, `Executed`, `NotDeleted`); the
  proofs of this and of the next results go by effect. Which page a policy
  chooses matters only in that it is a present one.
- If queries keep to the contract (`Careless` is empty; otherwise see the
  boundaries): `CleanMatchesCorrect` and `CommittedFlushedCorrect`. The invariant
  `CarefulInv` has `PagesGood` (each present page has a block, a clean one holds
  the block's content, and the File:Tag of a dirty one is not committed),
  `WriteOpen` (a WRITE in progress is to a File:Tag that is not committed) and
  that `initial_file:BASE` is committed.
- Under the same condition, the refinement `MemoryImplementsFileStore` (page
  faults, evictions and write-backs are stutters of what the queries see, the copy
  of a piece of a WRITE is a write of its one block, and only a refused DELETE is
  `Undone`) and `WritesExactCorrect`,
  which needs `WriteSoFar`: the bytes a WRITE has passed over are the ones it
  was given, and its page and offset are the address it has come to.

`ListLemmas` has what `RemoveFirst`, `InsertAt` and a permutation do to the
elements of a list, to its order and to its freedom from duplicates.

The assumptions are the named ones of the modules (`WireAssumption`,
`MasterAssumption`, `StorageAssumption`, ...): markers such as `NoQuery` are no
members of the sets they complete (`NoFileAssumption`, `IdleAssumption` in
`Memory`), and bounds are naturals.

Only model-checked: liveness (temporal reasoning under fairness);
`AssignmentKept`, `ReadyByArrival` and `WorkConserving`, which hold in the
instances of their runs and not in general (see the boundaries and
`lost_assignment`).

## Not modelled

Configuration, logging, the byte layout of packages and the parsing of
instructions (plain I/O or data with no later effect); descriptors (a double
`close` in `handle_client`); the unlocked increment of `next_query_id`;
`end_query` and `should_stop` of the Worker, which no package of the Master
triggers; `handle_eviction_response`, `mm_mark_all_clean`, `lock_file` and
`unlock_file`, which nothing calls; `last_victim_*` of the memory manager, which
only feeds the log; the handshake with the Storage and its count of Workers;
failures of memory allocation and of the operating system.

## Plan

1. A composition of two `Memory`s over one `FileStore`: what a query reads after
   it moves between Workers.
2. Descriptors: reuse after the double `close` of `handle_client`; ids of queries
   created at the same time.
3. `Cluster` with instructions that fail: which part of `ExecutesOnce` and
   `PcPreserved` is left, and the runs and theorems for it.
