---------------------------- MODULE MasterProofs ----------------------------
(***************************************************************************)
(* Proofs about the Master, for any number of queries and workers, either  *)
(* algorithm and any peers that speak to it in packages: the types, the    *)
(* query table whenever its mutex is free, what a Query Control hears of   *)
(* the end of its query, and the order of the ready queue.  None of it     *)
(* depends on what the Workers say or when: the proofs use of a package    *)
(* only that it names a query.  The modules that add the Workers conclude  *)
(* from these lemmas about their own specifications.                       *)
(***************************************************************************)
EXTENDS Master, QueryControl, WorkerLink, ListLemmas

\* The Master and its connections are typed.
Typed == WireTypeOK /\ MasterTypeOK

-----------------------------------------------------------------------------
(* The list operations of the Master.                                      *)

\* insert_query_by_priority adds the query once, wherever it goes.
LEMMA InsertByPriority ==
    ASSUME NEW queue \in Seq(Queries), NEW q \in Queries, NEW priorityOf
    PROVE  LET t == insert_query_by_priority(queue, q, priorityOf)
           IN  /\ t \in Seq(Queries)
               /\ ToSet(t) = ToSet(queue) \cup {q}
               /\ IsInjective(queue) /\ q \notin ToSet(queue) => IsInjective(t)
<1> DEFINE Worse == {i \in 1..Len(queue) : priorityOf[q] < priorityOf[queue[i]]}
           k == Min(Worse \cup {Len(queue) + 1})
<1>1. Len(queue) \in Nat
  BY LenProperties
<1>2. k \in Worse \cup {Len(queue) + 1}
  BY <1>1, MinOfNaturals
<1>3. k \in 1..Len(queue) + 1
  BY <1>1, <1>2
<1>4. insert_query_by_priority(queue, q, priorityOf) = InsertAt(queue, k, q)
  BY DEF insert_query_by_priority
<1> HIDE DEF k
<1> QED
  BY <1>3, <1>4, InsertLists

\* Whatever the algorithm, enqueueing adds the query once.
LEMMA EnqueuedLists ==
    ASSUME NEW queue \in Seq(Queries), NEW q \in Queries, NEW priorityOf
    PROVE  LET t == Enqueued(queue, q, priorityOf)
           IN  /\ t \in Seq(Queries)
               /\ ToSet(t) = ToSet(queue) \cup {q}
               /\ IsInjective(queue) /\ q \notin ToSet(queue) => IsInjective(t)
<1>1. CASE Algorithm = "PRIORITY"
  BY <1>1, InsertByPriority DEF Enqueued
<1>2. CASE Algorithm # "PRIORITY"
  BY <1>2, AppendLists DEF Enqueued
<1> QED
  BY <1>1, <1>2

\* Sorting loses and duplicates no query.
LEMMA SortLists ==
    ASSUME NEW queue \in Seq(Queries), NEW priorityOf,
           NEW sorted \in list_sort(queue, priorityOf)
    PROVE  /\ sorted \in Seq(Queries)
           /\ ToSet(sorted) = ToSet(queue)
           /\ IsInjective(queue) => IsInjective(sorted)
<1>1. PICK p \in Bijection(DOMAIN queue, DOMAIN queue) :
              sorted = [i \in DOMAIN queue |-> queue[p[i]]]
  BY DEF list_sort
<1> QED
  BY <1>1, RearrangeLists

-----------------------------------------------------------------------------
(* Types.                                                                  *)

\* A package the Master sends keeps the channel typed.
LEMMA SentTyped ==
    ASSUME WireTypeOK, NEW w \in Workers, NEW m \in MasterPackages
    PROVE  SentToWorker(w, m) \in [Workers -> Seq(MasterPackages)]
<1>1. Append(toWorker[w], m) \in Seq(MasterPackages)
  BY AppendProperties DEF WireTypeOK
<1> QED
  BY <1>1 DEF SentToWorker, WireTypeOK

\* So does a notice to a Query Control.
LEMMA NotifiedTyped ==
    ASSUME WireTypeOK, NEW q \in Queries, NEW n \in Notices
    PROVE  Notified(q, n) \in [Queries -> Seq(Notices)]
<1>1. Append(toQC[q], n) \in Seq(Notices)
  BY AppendProperties DEF WireTypeOK
<1> QED
  BY <1>1 DEF Notified, WireTypeOK

\* The fields a received package carries.
LEMMA PackageFields ==
    /\ \A m \in WorkerPackages :
          /\ m.op \in {"READ", "END", "ERROR", "EVICTED"} => m.q \in Queries
          /\ m.op = "EVICTED" => m.pc \in ProgramCounters
    /\ \A m \in MasterPackages :
          /\ m.op \in {"START", "PREEMPT"} => m.q \in Queries
          /\ m.op = "START" => m.pc \in ProgramCounters
    /\ \A m \in QCPackages : m.priority \in Priorities
BY DEF WorkerPackages, MasterPackages, QCPackages

\* The packages there are.
LEMMA PackageKinds ==
    ASSUME NEW q \in Queries, NEW pc \in ProgramCounters
    PROVE  /\ [op |-> "ACK"] \in MasterPackages
           /\ [op |-> "START", q |-> q, pc |-> pc] \in MasterPackages
           /\ [op |-> "PREEMPT", q |-> q] \in MasterPackages
           /\ [op |-> "HANDSHAKE"] \in WorkerPackages
           /\ [op |-> "READ", q |-> q] \in WorkerPackages
           /\ [op |-> "END", q |-> q] \in WorkerPackages
           /\ [op |-> "ERROR", q |-> q] \in WorkerPackages
           /\ [op |-> "EVICTED", q |-> q, pc |-> pc] \in WorkerPackages
BY DEF WorkerPackages, MasterPackages

\* The block of a query that is not in the tables.
LEMMA CleanupTyped ==
    ASSUME QueryTableTypeOK, NEW q \in Queries, cleanup_query_resources(q)
    PROVE  QueryTableTypeOK'
<1>1. query_list' \in Seq(Queries) /\ ready_queue' \in Seq(Queries)
  BY RemoveLists
     DEF QueryTableTypeOK, cleanup_query_resources, list_remove_element
<1>2. FreedBlock \in QueryBlocks
  BY WireAssumption DEF FreedBlock, QueryBlocks, QueryStates, Priorities, ProgramCounters
<1>3. qcb' \in [Queries -> QueryBlocks]
  BY <1>2 DEF QueryTableTypeOK, cleanup_query_resources
<1> QED
  BY <1>1, <1>3 DEF QueryTableTypeOK, cleanup_query_resources

\* The end of a query with an error keeps the types.
LEMMA FinalizeTyped ==
    ASSUME WireTypeOK, QueryTableTypeOK, NEW q \in Queries, FinalizeWithError(q)
    PROVE  QueryTableTypeOK' /\ toQC' \in [Queries -> Seq(Notices)]
BY CleanupTyped, NotifiedTyped DEF FinalizeWithError, Notices

\* A worker that goes back to idle_list keeps the types.
LEMMA FreeWorkerTyped ==
    ASSUME WorkerTableTypeOK, NEW w \in Workers, FreeWorker(w),
           UNCHANGED worker_list
    PROVE  WorkerTableTypeOK'
<1>1. idle_list' \in Seq(Workers)
  BY AppendProperties DEF WorkerTableTypeOK, FreeWorker
<1>2. wcb' \in [Workers -> WorkerBlocks]
  BY DEF WorkerTableTypeOK, FreeWorker, WorkerBlocks
<1> QED
  BY <1>1, <1>2 DEF WorkerTableTypeOK, FreeWorker

\* try_dispatch keeps the types of both tables, whether or not it sends.
LEMMA DispatchTyped ==
    ASSUME WireTypeOK, QueryTableTypeOK, WorkerTableTypeOK, try_dispatch
    PROVE  /\ QueryTableTypeOK' /\ WorkerTableTypeOK'
           /\ toWorker' \in [Workers -> Seq(MasterPackages)]
<1> DEFINE q == Head(ready_queue)
           w == Head(idle_list)
<1>1. CASE NothingToDispatch
  <2>1. UNCHANGED <<qcb, ready_queue, running_list, wcb, idle_list, busy_list,
                    toWorker, query_list, worker_list>>
    BY <1>1 DEF try_dispatch
  <2> QED
    BY <2>1 DEF QueryTableTypeOK, WorkerTableTypeOK, WireTypeOK
<1>2. CASE ~NothingToDispatch
  <2>1. UNCHANGED <<query_list, worker_list>>
    BY DEF try_dispatch
  <2>2. /\ q \in Queries /\ Tail(ready_queue) \in Seq(Queries)
        /\ w \in Workers /\ Tail(idle_list) \in Seq(Workers)
    BY <1>2, TailLists
       DEF NothingToDispatch, QueryTableTypeOK, WorkerTableTypeOK
  <2> HIDE DEF q, w
  <2>3. CASE DispatchSent(q, w)
    <3>1. [op |-> "START", q |-> q, pc |-> qcb[q].pc] \in MasterPackages
      BY <2>2, PackageKinds DEF QueryTableTypeOK, QueryBlocks
    <3>2. toWorker' \in [Workers -> Seq(MasterPackages)]
      BY <2>2, <2>3, <3>1, SentTyped DEF DispatchSent
    <3>3. qcb' \in [Queries -> QueryBlocks]
      BY <2>2, <2>3 DEF DispatchSent, QueryTableTypeOK, QueryBlocks, QueryStates
    <3>4. wcb' \in [Workers -> WorkerBlocks]
      BY <2>2, <2>3 DEF DispatchSent, WorkerTableTypeOK, WorkerBlocks
    <3> QED
      BY <2>1, <2>2, <2>3, <3>2, <3>3, <3>4
         DEF DispatchSent, QueryTableTypeOK, WorkerTableTypeOK
  <2>4. CASE DispatchReverted(q, w)
    <3>1. ready_queue' \in Seq(Queries)
      BY <2>2, <2>4, EnqueuedLists DEF DispatchReverted
    <3>2. idle_list' \in Seq(Workers)
      BY <2>2, <2>4, AppendProperties DEF DispatchReverted
    <3>3. qcb' \in [Queries -> QueryBlocks]
      BY <2>2, <2>4 DEF DispatchReverted, QueryTableTypeOK, QueryBlocks
    <3>4. wcb' \in [Workers -> WorkerBlocks]
      BY <2>2, <2>4 DEF DispatchReverted, WorkerTableTypeOK, WorkerBlocks
    <3> QED
      BY <2>1, <2>4, <3>1, <3>2, <3>3, <3>4
         DEF DispatchReverted, QueryTableTypeOK, WorkerTableTypeOK, WireTypeOK
  <2> QED
    BY <1>2, <2>3, <2>4 DEF try_dispatch, q, w
<1> QED
  BY <1>1, <1>2

\* preempt_query_in_exec keeps the types, in each of its outcomes.
LEMMA PreemptTyped ==
    ASSUME WireTypeOK, QueryTableTypeOK, NEW q \in Queries,
           NEW newBlock \in QueryBlocks, worker_list \in SUBSET Workers,
           preempt_query_in_exec(q, newBlock)
    PROVE  /\ QueryTableTypeOK'
           /\ toWorker' \in [Workers -> Seq(MasterPackages)]
           /\ toQC' \in [Queries -> Seq(Notices)]
<1> DEFINE Block(pending) ==
              [qcb EXCEPT ![q] = [newBlock EXCEPT !.pending = pending]]
<1>1. \A pending \in BOOLEAN : Block(pending) \in [Queries -> QueryBlocks]
  BY DEF QueryTableTypeOK, QueryBlocks
<1>2. ASSUME qcb' = Block(TRUE) \/ qcb' = Block(FALSE),
             UNCHANGED <<query_list, ready_queue, running_list, toQC>>
      PROVE  QueryTableTypeOK' /\ toQC' \in [Queries -> Seq(Notices)]
  BY <1>1, <1>2 DEF QueryTableTypeOK, WireTypeOK
<1> HIDE DEF Block
<1>3. CASE EvictionPending(newBlock)
  BY <1>2, <1>3 DEF preempt_query_in_exec, Block, WireTypeOK
<1>4. CASE ~EvictionPending(newBlock) /\ newBlock.worker \notin worker_list
  BY <1>4, FinalizeTyped DEF preempt_query_in_exec, WireTypeOK
<1>5. CASE ~EvictionPending(newBlock) /\ newBlock.worker \in worker_list
  <2>1. SentToWorker(newBlock.worker, [op |-> "PREEMPT", q |-> q])
           \in [Workers -> Seq(MasterPackages)]
    <3>1. [op |-> "PREEMPT", q |-> q] \in MasterPackages
      BY DEF MasterPackages
    <3> QED
      BY <1>5, <3>1, SentTyped
  <2> QED
    BY <1>2, <1>5, <2>1 DEF preempt_query_in_exec, Block, WireTypeOK
<1> QED
  BY <1>3, <1>4, <1>5

\* Each critical section of a Query Control's thread.
LEMMA QueryThreadTyped ==
    ASSUME Typed, NEW q \in Queries, QueryThread(q)
    PROVE  WireTypeOK' /\ MasterTypeOK'
<1> USE DEF Typed, MasterTypeOK
<1>1. CASE manage_query_file_path(q)
  <2> DEFINE priority == Head(fromQC[q]).priority
             newPriorityOf == [PriorityOf EXCEPT ![q] = priority]
  <2>1. Head(fromQC[q]) \in QCPackages /\ Tail(fromQC[q]) \in Seq(QCPackages)
    BY <1>1, HeadTailProperties DEF manage_query_file_path, WireTypeOK
  <2>2. priority \in Priorities
    BY <2>1, PackageFields
  <2>3. [state |-> "READY", priority |-> priority, worker |-> NoWorker,
         pc |-> 0, pending |-> FALSE] \in QueryBlocks
    BY <2>2, WireAssumption DEF QueryBlocks, QueryStates, ProgramCounters
  <2>4. qcb' \in [Queries -> QueryBlocks]
    BY <1>1, <2>3 DEF manage_query_file_path, QueryTableTypeOK
  <2>5. /\ query_list' = Append(query_list, q)
        /\ ready_queue' = Enqueued(ready_queue, q, newPriorityOf)
        /\ UNCHANGED running_list
    BY <1>1 DEF manage_query_file_path
  <2>6. QueryTableTypeOK'
    BY <2>4, <2>5, AppendProperties, EnqueuedLists DEF QueryTableTypeOK
  <2>7. UNCHANGED workerTable /\ QueryThreadAt(q, "recv", "dispatch")
    BY <1>1 DEF manage_query_file_path
  <2>8. WorkerTableTypeOK' /\ ThreadsTypeOK'
    BY <2>7 DEF WorkerTableTypeOK, ThreadsTypeOK, workerTable, QueryThreadAt
  <2>9. toQC' \in [Queries -> Seq(Notices)]
    BY <1>1, NotifiedTyped DEF manage_query_file_path, Notices
  <2>10. WireTypeOK'
    BY <1>1, <2>1, <2>9 DEF manage_query_file_path, WireTypeOK
  <2> QED
    BY <2>6, <2>8, <2>10
<1>2. CASE QueryThreadDispatch(q)
  <2>1. /\ QueryTableTypeOK' /\ WorkerTableTypeOK'
        /\ toWorker' \in [Workers -> Seq(MasterPackages)]
    BY <1>2, DispatchTyped DEF QueryThreadDispatch
  <2>2. ThreadsTypeOK'
    BY <1>2 DEF QueryThreadDispatch, QueryThreadAt, ThreadsTypeOK
  <2>3. WireTypeOK'
    BY <1>2, <2>1 DEF QueryThreadDispatch, WireTypeOK
  <2> QED
    BY <2>1, <2>2, <2>3
<1>3. CASE handle_query_control_disconnection(q)
  <2>1. /\ QueryTableTypeOK'
        /\ toWorker' \in [Workers -> Seq(MasterPackages)]
        /\ toQC' \in [Queries -> Seq(Notices)]
    <3>1. CASE qcb[q].state = "NONE" /\ UNCHANGED <<queryTable, toWorker, toQC>>
      BY <3>1 DEF queryTable, QueryTableTypeOK, WireTypeOK
    <3>2. CASE FinalizeWithError(q) /\ UNCHANGED toWorker
      BY <3>2, FinalizeTyped DEF WireTypeOK
    <3>3. CASE preempt_query_in_exec(q, [qcb[q] EXCEPT !.state = "CANCELED"])
      <4>1. [qcb[q] EXCEPT !.state = "CANCELED"] \in QueryBlocks
        BY DEF QueryTableTypeOK, QueryBlocks, QueryStates
      <4> QED
        BY <3>3, <4>1, PreemptTyped DEF WorkerTableTypeOK
    <3> QED
      BY <1>3, <3>1, <3>2, <3>3 DEF handle_query_control_disconnection
  <2>2. WorkerTableTypeOK' /\ ThreadsTypeOK'
    BY <1>3 DEF handle_query_control_disconnection, QueryThreadAt,
                WorkerTableTypeOK, ThreadsTypeOK, workerTable
  <2>3. WireTypeOK'
    BY <1>3, <2>1 DEF handle_query_control_disconnection, WireTypeOK
  <2> QED
    BY <2>1, <2>2, <2>3
<1> QED
  BY <1>1, <1>2, <1>3 DEF QueryThread

\* What a Worker's thread receives is a package of a known kind.
LEMMA ReceiveTyped ==
    ASSUME WireTypeOK, NEW w \in Workers, NEW op, Receive(w, op)
    PROVE  /\ Head(fromWorker[w]) \in WorkerPackages
           /\ op \in {"READ", "END", "ERROR", "EVICTED"}
              => Head(fromWorker[w]).q \in Queries
           /\ op = "EVICTED" => Head(fromWorker[w]).pc \in ProgramCounters
           /\ fromWorker' \in [Workers -> Seq(WorkerPackages)]
           /\ workerClosed' \in [Workers -> BOOLEAN]
           /\ fromQC' \in [Queries -> Seq(QCPackages)]
           /\ qcClosed' \in [Queries -> BOOLEAN]
<1>1. /\ Head(fromWorker[w]) \in WorkerPackages
      /\ Tail(fromWorker[w]) \in Seq(WorkerPackages)
  BY HeadTailProperties DEF Receive, WireTypeOK
<1>2. /\ op \in {"READ", "END", "ERROR", "EVICTED"}
         => Head(fromWorker[w]).q \in Queries
      /\ op = "EVICTED" => Head(fromWorker[w]).pc \in ProgramCounters
  BY <1>1, PackageFields DEF Receive
<1> QED
  BY <1>1, <1>2 DEF Receive, WireTypeOK

\* Each critical section of a Worker's thread.
LEMMA WorkerThreadTyped ==
    ASSUME Typed, NEW w \in Workers, WorkerThread(w)
    PROVE  WireTypeOK' /\ MasterTypeOK'
<1> USE DEF Typed, MasterTypeOK
<1> DEFINE Idle == [query |-> NoQuery, state |-> "IDLE"]
<1>0. Idle \in WorkerBlocks /\ [Idle EXCEPT !.state = "DISCONNECTED"] \in WorkerBlocks
  BY DEF WorkerBlocks
<1>1. CASE create_worker(w)
  <2>1. idle_list' \in Seq(Workers)
    BY <1>1, AppendProperties DEF create_worker, WorkerTableTypeOK
  <2>2. WorkerTableTypeOK'
    BY <1>0, <1>1, <2>1 DEF create_worker, WorkerTableTypeOK
  <2>3. QueryTableTypeOK' /\ ThreadsTypeOK'
    BY <1>1 DEF create_worker, WorkerThreadAt, QueryTableTypeOK, queryTable,
                ThreadsTypeOK
  <2>4. WireTypeOK'
    BY <1>1, ReceiveTyped DEF create_worker, WireTypeOK
  <2> QED
    BY <2>2, <2>3, <2>4
<1>2. CASE SendAck(w)
  <2>1. [op |-> "ACK"] \in MasterPackages
    BY DEF MasterPackages
  <2>2. toWorker' \in [Workers -> Seq(MasterPackages)]
    BY <1>2, <2>1, SentTyped DEF SendAck, WireTypeOK
  <2>3. ThreadsTypeOK'
    BY <1>2 DEF SendAck, WorkerThreadAt, ThreadsTypeOK
  <2>4. QueryTableTypeOK' /\ WorkerTableTypeOK'
    BY <1>2 DEF SendAck, QueryTableTypeOK, WorkerTableTypeOK, queryTable, workerTable
  <2>5. WireTypeOK'
    BY <1>2, <2>2 DEF SendAck, WireTypeOK
  <2> QED
    BY <2>3, <2>4, <2>5
<1>3. CASE WorkerThreadDispatch(w)
  <2>1. /\ QueryTableTypeOK' /\ WorkerTableTypeOK'
        /\ toWorker' \in [Workers -> Seq(MasterPackages)]
    BY <1>3, DispatchTyped DEF WorkerThreadDispatch
  <2>2. ThreadsTypeOK'
    BY <1>3 DEF WorkerThreadDispatch, WorkerThreadAt, ThreadsTypeOK
  <2>3. WireTypeOK'
    BY <1>3, <2>1 DEF WorkerThreadDispatch, WireTypeOK
  <2> QED
    BY <2>1, <2>2, <2>3
<1>4. CASE manage_read_message_from_worker(w)
  <2>1. Receive(w, "READ")
    BY <1>4 DEF manage_read_message_from_worker
  <2>2. Head(fromWorker[w]).q \in Queries
    BY <2>1, ReceiveTyped
  <2>3. toQC' \in [Queries -> Seq(Notices)]
    BY <1>4, <2>2, NotifiedTyped DEF manage_read_message_from_worker, Notices, WireTypeOK
  <2>4. ThreadsTypeOK'
    BY <1>4 DEF manage_read_message_from_worker, WorkerThreadAt, ThreadsTypeOK
  <2>5. QueryTableTypeOK' /\ WorkerTableTypeOK'
    BY <1>4 DEF manage_read_message_from_worker, QueryTableTypeOK,
                WorkerTableTypeOK, queryTable, workerTable
  <2>6. WireTypeOK'
    BY <1>4, <2>1, <2>3, ReceiveTyped DEF manage_read_message_from_worker, WireTypeOK
  <2> QED
    BY <2>4, <2>5, <2>6
<1>5. CASE manage_worker_evict_response(w)
  <2> DEFINE q == Head(fromWorker[w]).q
             pc == Head(fromWorker[w]).pc
  <2>1. Receive(w, "EVICTED")
    BY <1>5 DEF manage_worker_evict_response
  <2>2. q \in Queries /\ pc \in ProgramCounters
    BY <2>1, ReceiveTyped
  <2> HIDE DEF q, pc
  <2>3. QueryTableTypeOK'
    <3>1. CASE UNCHANGED queryTable
      BY <3>1 DEF queryTable, QueryTableTypeOK
    <3>2. CASE cleanup_query_resources(q)
      BY <2>2, <3>2, CleanupTyped
    <3>3. CASE /\ qcb' = [qcb EXCEPT ![q] = RequeuedBlock(@, pc)]
               /\ running_list' = running_list \ {q}
               /\ ready_queue' = insert_query_by_priority(ready_queue, q, PriorityOf)
               /\ UNCHANGED query_list
      <4>1. qcb' \in [Queries -> QueryBlocks]
        BY <2>2, <3>3 DEF RequeuedBlock, QueryTableTypeOK, QueryBlocks, QueryStates
      <4>2. ready_queue' \in Seq(Queries)
        BY <2>2, <3>3, InsertByPriority DEF QueryTableTypeOK
      <4> QED
        BY <3>3, <4>1, <4>2 DEF QueryTableTypeOK
    <3> QED
      BY <1>5, <3>1, <3>2, <3>3 DEF manage_worker_evict_response, q, pc
  <2>4. WorkerTableTypeOK'
    BY <1>0, <1>5, FreeWorkerTyped
       DEF manage_worker_evict_response, WorkerTableTypeOK
  <2>5. ThreadsTypeOK'
    BY <1>5 DEF manage_worker_evict_response, WorkerThreadAt, ThreadsTypeOK
  <2>6. WireTypeOK'
    BY <1>5, <2>1, ReceiveTyped DEF manage_worker_evict_response, WireTypeOK
  <2> QED
    BY <2>3, <2>4, <2>5, <2>6
<1>6. CASE manage_worker_end_query(w)
  <2> DEFINE q == Head(fromWorker[w]).q
  <2>1. Receive(w, "END")
    BY <1>6 DEF manage_worker_end_query
  <2>2. q \in Queries
    BY <2>1, ReceiveTyped
  <2> HIDE DEF q
  <2>3. QueryTableTypeOK' /\ toQC' \in [Queries -> Seq(Notices)]
    <3>1. CASE UNCHANGED <<queryTable, toQC>>
      BY <3>1 DEF queryTable, QueryTableTypeOK, WireTypeOK
    <3>2. CASE toQC' = Notified(q, "END_QUERY") /\ cleanup_query_resources(q)
      BY <2>2, <3>2, CleanupTyped, NotifiedTyped DEF Notices
    <3> QED
      BY <1>6, <3>1, <3>2 DEF manage_worker_end_query, q
  <2>4. WorkerTableTypeOK'
    BY <1>0, <1>6, FreeWorkerTyped DEF manage_worker_end_query, WorkerTableTypeOK
  <2>5. ThreadsTypeOK'
    BY <1>6 DEF manage_worker_end_query, WorkerThreadAt, ThreadsTypeOK
  <2>6. WireTypeOK'
    BY <1>6, <2>1, <2>3, ReceiveTyped DEF manage_worker_end_query, WireTypeOK
  <2> QED
    BY <2>3, <2>4, <2>5, <2>6
<1>7. CASE handle_error_from_storage(w)
  <2>1. QueryTableTypeOK' /\ toQC' \in [Queries -> Seq(Notices)]
    <3>1. CASE UNCHANGED <<queryTable, toQC>>
      BY <3>1 DEF queryTable, QueryTableTypeOK, WireTypeOK
    <3>2. CASE wcb[w].query \in running_list /\ FinalizeWithError(wcb[w].query)
      BY <3>2, FinalizeTyped DEF QueryTableTypeOK
    <3> QED
      BY <1>7, <3>1, <3>2 DEF handle_error_from_storage
  <2>2. WorkerTableTypeOK'
    BY <1>7, FreeWorkerTyped DEF handle_error_from_storage, WorkerTableTypeOK
  <2>3. ThreadsTypeOK'
    BY <1>7 DEF handle_error_from_storage, WorkerThreadAt, ThreadsTypeOK
  <2>4. WireTypeOK'
    BY <1>7, <2>1, ReceiveTyped DEF handle_error_from_storage, WireTypeOK
  <2> QED
    BY <2>1, <2>2, <2>3, <2>4
<1>8. CASE handle_worker_disconnection(w)
  <2>1. QueryTableTypeOK' /\ toQC' \in [Queries -> Seq(Notices)]
    <3>1. CASE UNCHANGED <<queryTable, toQC>>
      BY <3>1 DEF queryTable, QueryTableTypeOK, WireTypeOK
    <3>2. CASE /\ wcb[w].query \in ToSet(query_list)
               /\ FinalizeWithError(wcb[w].query)
      <4>1. wcb[w].query \in Queries
        BY <3>2, ListRange DEF QueryTableTypeOK
      <4> QED
        BY <3>2, <4>1, FinalizeTyped
    <3> QED
      BY <1>8, <3>1, <3>2 DEF handle_worker_disconnection, EndQueryOf
  <2>2. WorkerTableTypeOK'
    <3>1. CASE UNCHANGED workerTable
      BY <3>1 DEF workerTable, WorkerTableTypeOK
    <3>2. CASE cleanup_worker_resources(w)
      <4>1. idle_list' \in Seq(Workers)
        BY <3>2, RemoveLists
           DEF cleanup_worker_resources, list_remove_element, WorkerTableTypeOK
      <4>2. wcb' \in [Workers -> WorkerBlocks]
        BY <3>2 DEF cleanup_worker_resources, WorkerTableTypeOK, WorkerBlocks
      <4> QED
        BY <3>2, <4>1, <4>2 DEF cleanup_worker_resources, WorkerTableTypeOK
    <3> QED
      BY <1>8, <3>1, <3>2 DEF handle_worker_disconnection, EndQueryOf
  <2>3. ThreadsTypeOK'
    BY <1>8 DEF handle_worker_disconnection, WorkerThreadAt, ThreadsTypeOK
  <2>4. WireTypeOK'
    BY <1>8, <2>1 DEF handle_worker_disconnection, WireTypeOK
  <2> QED
    BY <2>1, <2>2, <2>3, <2>4
<1> QED
  BY <1>1, <1>2, <1>3, <1>4, <1>5, <1>6, <1>7, <1>8 DEF WorkerThread

\* What a pass of the aging thread does to the query table: the states stay,
\* the ready queue keeps its elements.
LEMMA AgingEffect ==
    ASSUME QueryTableTypeOK, AgeReadyQueue
    PROVE  /\ qcb' \in [Queries -> QueryBlocks]
           /\ \A q \in Queries : qcb'[q].state = qcb[q].state
           /\ ready_queue' \in Seq(Queries)
           /\ ToSet(ready_queue') = ToSet(ready_queue)
           /\ IsInjective(ready_queue) => IsInjective(ready_queue')
           /\ UNCHANGED <<query_list, running_list>>
<1>1. PICK intervals \in [ToSet(ready_queue) -> 0..MaxIntervals] :
         LET newPriorityOf == [q \in Queries |->
                   IF q \in ToSet(ready_queue)
                   THEN Aged(qcb[q].priority, intervals[q])
                   ELSE qcb[q].priority]
         IN  /\ qcb' = [q \in Queries |->
                           [qcb[q] EXCEPT !.priority = newPriorityOf[q]]]
             /\ IF newPriorityOf = PriorityOf
                THEN UNCHANGED ready_queue
                ELSE ready_queue' \in list_sort(ready_queue, newPriorityOf)
  BY DEF AgeReadyQueue
<1> DEFINE newPriorityOf == [q \in Queries |->
                   IF q \in ToSet(ready_queue)
                   THEN Aged(qcb[q].priority, intervals[q])
                   ELSE qcb[q].priority]
<1>2. ASSUME NEW q \in Queries PROVE newPriorityOf[q] \in Priorities
  <2>1. qcb[q].priority \in 0..MaxPriority
    BY DEF QueryTableTypeOK, QueryBlocks, Priorities
  <2>2. q \in ToSet(ready_queue) => intervals[q] \in Nat
    BY <1>1, MasterAssumption
  <2>3. q \in ToSet(ready_queue) =>
           Aged(qcb[q].priority, intervals[q]) \in Priorities
    BY <2>1, <2>2, WireAssumption DEF Aged, Priorities
  <2> QED
    BY <2>1, <2>3 DEF Priorities
<1>3. /\ qcb' = [q \in Queries |-> [qcb[q] EXCEPT !.priority = newPriorityOf[q]]]
      /\ ready_queue' = ready_queue \/ ready_queue' \in list_sort(ready_queue, newPriorityOf)
  BY <1>1
<1> HIDE DEF newPriorityOf
<1>4. /\ qcb' \in [Queries -> QueryBlocks]
      /\ \A q \in Queries : qcb'[q].state = qcb[q].state
  BY <1>2, <1>3 DEF QueryTableTypeOK, QueryBlocks
<1>5. /\ ready_queue' \in Seq(Queries)
      /\ ToSet(ready_queue') = ToSet(ready_queue)
      /\ IsInjective(ready_queue) => IsInjective(ready_queue')
  BY <1>3, SortLists DEF QueryTableTypeOK
<1> QED
  BY <1>4, <1>5 DEF AgeReadyQueue

\* Each critical section of the aging thread.
LEMMA AgingThreadTyped ==
    ASSUME Typed, AgingThread
    PROVE  WireTypeOK' /\ MasterTypeOK'
<1> USE DEF Typed, MasterTypeOK
<1>1. CASE AgeReadyQueue
  <2>1. QueryTableTypeOK'
    BY <1>1, AgingEffect DEF QueryTableTypeOK
  <2>2. WorkerTableTypeOK' /\ ThreadsTypeOK' /\ WireTypeOK'
    BY <1>1 DEF AgeReadyQueue, WorkerTableTypeOK, ThreadsTypeOK, WireTypeOK,
                workerTable, wire
  <2> QED
    BY <2>1, <2>2
<1>2. CASE check_preemption
  <2>1. /\ QueryTableTypeOK'
        /\ toWorker' \in [Workers -> Seq(MasterPackages)]
        /\ toQC' \in [Queries -> Seq(Notices)]
    <3>1. CASE UNCHANGED <<queryTable, toWorker, toQC>>
      BY <3>1 DEF queryTable, QueryTableTypeOK, WireTypeOK
    <3>2. CASE \E q \in running_list : preempt_query_in_exec(q, qcb[q])
      <4>1. PICK q \in running_list : preempt_query_in_exec(q, qcb[q])
        BY <3>2
      <4>2. q \in Queries /\ qcb[q] \in QueryBlocks /\ worker_list \in SUBSET Workers
        BY DEF QueryTableTypeOK, WorkerTableTypeOK
      <4> QED
        BY <4>1, <4>2, PreemptTyped
    <3> QED
      BY <1>2, <3>1, <3>2 DEF check_preemption
  <2>2. WorkerTableTypeOK' /\ ThreadsTypeOK'
    BY <1>2 DEF check_preemption, WorkerTableTypeOK, ThreadsTypeOK, workerTable
  <2>3. WireTypeOK'
    BY <1>2, <2>1 DEF check_preemption, WireTypeOK
  <2> QED
    BY <2>1, <2>2, <2>3
<1> QED
  BY <1>1, <1>2 DEF AgingThread
\* Steps of a Query Control.
LEMMA QueryControlTyped ==
    ASSUME WireTypeOK, NEW q \in Queries, QueryControl(q)
    PROVE  WireTypeOK'
<1>1. ASSUME Submit(q) PROVE WireTypeOK'
  <2>1. PICK p \in Priorities :
           fromQC' = [fromQC EXCEPT ![q] = <<[op |-> "FILE_PATH", priority |-> p]>>]
    BY <1>1 DEF Submit
  <2>2. <<[op |-> "FILE_PATH", priority |-> p]>> \in Seq(QCPackages)
    BY DEF QCPackages
  <2> QED
    BY <1>1, <2>1, <2>2 DEF Submit, WireTypeOK
<1>2. ASSUME CloseQC(q) PROVE WireTypeOK'
  BY <1>2 DEF CloseQC, WireTypeOK
<1> QED
  BY <1>1, <1>2 DEF QueryControl, Leave, Quit

\* Steps of a Worker's connection.
LEMMA LinkTyped ==
    ASSUME WireTypeOK, LinkTypeOK, NEW w \in Workers,
           Connect(w) \/ Accepted(w) \/ Refused(w) \/ Crash(w)
    PROVE  WireTypeOK' /\ LinkTypeOK'
<1>1. ASSUME Connect(w) PROVE WireTypeOK' /\ LinkTypeOK'
  <2>1. [op |-> "HANDSHAKE"] \in WorkerPackages
    BY DEF WorkerPackages
  <2>2. Append(fromWorker[w], [op |-> "HANDSHAKE"]) \in Seq(WorkerPackages)
    BY <2>1, AppendProperties DEF WireTypeOK
  <2> QED
    BY <1>1, <2>2 DEF Connect, WireTypeOK, LinkTypeOK
<1>2. ASSUME Accepted(w) PROVE WireTypeOK' /\ LinkTypeOK'
  <2>1. Tail(toWorker[w]) \in Seq(MasterPackages)
    BY <1>2, HeadTailProperties DEF Accepted, Answered, WireTypeOK
  <2> QED
    BY <1>2, <2>1 DEF Accepted, WireTypeOK, LinkTypeOK
<1>3. ASSUME CloseLink(w) PROVE WireTypeOK' /\ LinkTypeOK'
  BY <1>3, EmptySeq DEF CloseLink, WireTypeOK, LinkTypeOK
<1> QED
  BY <1>1, <1>2, <1>3 DEF Refused, Crash

\* The Master's tables and connections start empty.
LEMMA MasterInitTyped ==
    ASSUME WireInit, MasterInit
    PROVE  Typed
<1>1. WireTypeOK
  BY EmptySeq DEF WireInit, WireTypeOK
<1>2. MasterTypeOK
  BY EmptySeq, WireAssumption
     DEF MasterInit, MasterTypeOK, QueryTableTypeOK, WorkerTableTypeOK,
         ThreadsTypeOK, QueryBlocks, WorkerBlocks, QueryStates, Priorities,
         ProgramCounters
<1> QED
  BY <1>1, <1>2 DEF Typed

\* Every step of the Master keeps the types.
LEMMA MasterTyped ==
    ASSUME Typed, MasterNext \/ UNCHANGED <<master, wire>>
    PROVE  Typed'
<1>1. CASE UNCHANGED <<master, wire>>
  BY <1>1 DEF master, wire, queryTable, workerTable, threads, Typed, WireTypeOK,
              MasterTypeOK, QueryTableTypeOK, WorkerTableTypeOK, ThreadsTypeOK
<1> QED
  BY <1>1, QueryThreadTyped, WorkerThreadTyped, AgingThreadTyped DEF MasterNext, Typed

\* The peers reach the Master through its connections only.
LEMMA PeersOutside ==
    ASSUME MasterTypeOK, UNCHANGED master
    PROVE  MasterTypeOK'
BY DEF master, queryTable, workerTable, threads, MasterTypeOK, QueryTableTypeOK,
       WorkerTableTypeOK, ThreadsTypeOK

(* The query table, and what the Query Controls hear.                      *)

\* A query is submitted once, and is known to the tables only after that;
\* only a query whose Query Control has left is cancelled.
SubmittedOnce ==
    \A q \in Queries :
        /\ fromQC[q] # <<>> => /\ Tail(fromQC[q]) = <<>>
                               /\ qcb[q].state = "NONE"
                               /\ toQC[q] = <<>>
        /\ toQC[q] = <<>> /\ ~qcClosed[q] => qcb[q].state = "NONE"
        /\ qcb[q].state = "CANCELED" => qcClosed[q]

\* EndReported, with the half of it that survives the Query Control.
EndNoticed ==
    \A q \in Queries :
        /\ qcb[q].state # "NONE" => TerminalNotices(q) = {}
        /\ TerminalNotices(q) \subseteq {Len(toQC[q])}
        /\ toQC[q] # <<>> /\ ~qcClosed[q] /\ qcb[q].state = "NONE"
           => TerminalNotices(q) # {}

QueryInv == Typed /\ QueryTables /\ SubmittedOnce /\ EndNoticed

\* No query enters or leaves the tables, and none is cancelled that still
\* has its Query Control.
SameKnown ==
    \A q \in Queries :
        /\ qcb'[q].state = "NONE" <=> qcb[q].state = "NONE"
        /\ qcb'[q].state = "CANCELED" => qcb[q].state = "CANCELED" \/ qcClosed[q]

-----------------------------------------------------------------------------
(* The tables.                                                             *)

\* Steps that move no query between lists.
LEMMA TablesUnmoved ==
    ASSUME QueryTables, UNCHANGED <<query_list, ready_queue, running_list>>,
           \A q \in Queries : \/ qcb'[q].state = qcb[q].state
                              \/ /\ qcb[q].state \in {"RUNNING", "CANCELED"}
                                 /\ qcb'[q].state \in {"RUNNING", "CANCELED"}
    PROVE  QueryTables'
<1>1. /\ {q \in Queries : qcb[q].state # "NONE"} = {q \in Queries : qcb'[q].state # "NONE"}
      /\ {q \in Queries : qcb[q].state = "READY"} = {q \in Queries : qcb'[q].state = "READY"}
      /\ {q \in Queries : qcb[q].state \in {"RUNNING", "CANCELED"}}
         = {q \in Queries : qcb'[q].state \in {"RUNNING", "CANCELED"}}
  OBVIOUS
<1> QED
  BY <1>1 DEF QueryTables

\* cleanup_query_resources takes the query off every list and no other.
LEMMA CleanupTables ==
    ASSUME QueryTableTypeOK, QueryTables, NEW q \in Queries,
           cleanup_query_resources(q)
    PROVE  /\ QueryTables'
           /\ qcb'[q].state = "NONE"
           /\ \A r \in Queries \ {q} : qcb'[r] = qcb[r]
<1>1. /\ qcb'[q].state = "NONE"
      /\ \A r \in Queries \ {q} : qcb'[r] = qcb[r]
  BY DEF cleanup_query_resources, FreedBlock, QueryTableTypeOK
<1>2. /\ IsInjective(query_list') /\ IsInjective(ready_queue')
      /\ ToSet(query_list') = ToSet(query_list) \ {q}
      /\ ToSet(ready_queue') = ToSet(ready_queue) \ {q}
      /\ running_list' = running_list \ {q}
  BY RemoveLists DEF cleanup_query_resources, list_remove_element,
                     QueryTableTypeOK, QueryTables
<1>3. ToSet(query_list') = {r \in Queries : qcb'[r].state # "NONE"}
  BY <1>1, <1>2 DEF QueryTables
<1>4. ToSet(ready_queue') = {r \in Queries : qcb'[r].state = "READY"}
  BY <1>1, <1>2 DEF QueryTables
<1>5. running_list' = {r \in Queries : qcb'[r].state \in {"RUNNING", "CANCELED"}}
  BY <1>1, <1>2 DEF QueryTables
<1> QED
  BY <1>1, <1>2, <1>3, <1>4, <1>5 DEF QueryTables

\* try_dispatch moves at most one query, from ready_queue to running_list, and
\* a dispatch that fails puts it back.
LEMMA DispatchTables ==
    ASSUME QueryTableTypeOK, QueryTables, try_dispatch
    PROVE  QueryTables' /\ SameKnown
<1> DEFINE q == Head(ready_queue)
           w == Head(idle_list)
<1>1. CASE NothingToDispatch
  <2>1. UNCHANGED <<qcb, query_list, ready_queue, running_list>>
    BY <1>1 DEF try_dispatch
  <2> QED
    BY <2>1, TablesUnmoved DEF SameKnown
<1>2. CASE ~NothingToDispatch
  <2>1. /\ q \in Queries /\ q \in ToSet(ready_queue)
        /\ Tail(ready_queue) \in Seq(Queries)
        /\ IsInjective(Tail(ready_queue))
        /\ ToSet(Tail(ready_queue)) = ToSet(ready_queue) \ {q}
    BY <1>2, TailLists DEF NothingToDispatch, QueryTableTypeOK, QueryTables
  <2>2. qcb[q].state = "READY" /\ UNCHANGED query_list
    BY <2>1 DEF QueryTables, try_dispatch
  <2> HIDE DEF q, w
  <2>3. CASE DispatchSent(q, w)
    <3>1. /\ qcb'[q].state = "RUNNING"
          /\ \A r \in Queries \ {q} : qcb'[r] = qcb[r]
      BY <2>1, <2>3 DEF DispatchSent, QueryTableTypeOK, QueryBlocks
    <3>2. /\ ready_queue' = Tail(ready_queue)
          /\ running_list' = running_list \cup {q}
      BY <2>3 DEF DispatchSent
    <3>3. ToSet(query_list') = {r \in Queries : qcb'[r].state # "NONE"}
      BY <2>1, <2>2, <3>1 DEF QueryTables
    <3>4. ToSet(ready_queue') = {r \in Queries : qcb'[r].state = "READY"}
      BY <2>1, <2>2, <3>1, <3>2 DEF QueryTables
    <3>5. running_list' = {r \in Queries : qcb'[r].state \in {"RUNNING", "CANCELED"}}
      BY <2>1, <2>2, <3>1, <3>2 DEF QueryTables
    <3>6. QueryTables'
      BY <2>1, <2>2, <3>2, <3>3, <3>4, <3>5 DEF QueryTables
    <3> QED
      BY <2>1, <2>2, <3>1, <3>6 DEF SameKnown
  <2>4. CASE DispatchReverted(q, w)
    <3>1. \A r \in Queries : qcb'[r].state = qcb[r].state
      BY <2>1, <2>4 DEF DispatchReverted, QueryTableTypeOK, QueryBlocks
    <3>2. /\ IsInjective(ready_queue')
          /\ ToSet(ready_queue') = ToSet(ready_queue)
          /\ UNCHANGED running_list
      <4>1. /\ IsInjective(Enqueued(Tail(ready_queue), q, PriorityOf))
            /\ ToSet(Enqueued(Tail(ready_queue), q, PriorityOf))
               = ToSet(Tail(ready_queue)) \cup {q}
        BY <2>1, EnqueuedLists
      <4> QED
        BY <2>1, <2>4, <4>1 DEF DispatchReverted
    <3>3. QueryTables'
      BY <2>2, <3>1, <3>2 DEF QueryTables
    <3> QED
      BY <3>1, <3>3 DEF SameKnown
  <2> QED
    BY <1>2, <2>3, <2>4 DEF try_dispatch, q, w
<1> QED
  BY <1>1, <1>2

\* Preempting a running query, as it is or cancelled, leaves it on its lists
\* or ends it.
LEMMA PreemptTables ==
    ASSUME QueryTableTypeOK, QueryTables, NEW q \in running_list,
           NEW newBlock \in QueryBlocks,
           newBlock.state \in {"RUNNING", "CANCELED"},
           newBlock.state = "CANCELED" => qcb[q].state = "CANCELED" \/ qcClosed[q],
           preempt_query_in_exec(q, newBlock)
    PROVE  /\ QueryTables'
           /\ FinalizeWithError(q) \/ (SameKnown /\ UNCHANGED toQC)
<1>1. q \in Queries /\ qcb[q].state \in {"RUNNING", "CANCELED"}
  BY DEF QueryTables
<1> DEFINE Block(pending) ==
              [qcb EXCEPT ![q] = [newBlock EXCEPT !.pending = pending]]
<1>2. ASSUME qcb' = Block(TRUE) \/ qcb' = Block(FALSE),
             UNCHANGED <<query_list, ready_queue, running_list, toQC>>
      PROVE  QueryTables' /\ SameKnown /\ UNCHANGED toQC
  <2>1. /\ qcb'[q].state = newBlock.state
        /\ \A r \in Queries \ {q} : qcb'[r] = qcb[r]
    BY <1>1, <1>2 DEF QueryTableTypeOK, QueryBlocks
  <2>2. QueryTables'
    BY <1>1, <1>2, <2>1, TablesUnmoved
  <2> QED
    BY <1>1, <1>2, <2>1, <2>2 DEF SameKnown
<1>3. ASSUME FinalizeWithError(q) PROVE QueryTables'
  BY <1>1, <1>3, CleanupTables DEF FinalizeWithError
<1> QED
  BY <1>2, <1>3 DEF preempt_query_in_exec

-----------------------------------------------------------------------------
(* What the Query Controls hear.                                           *)

\* A notice adds its position to the terminal ones if it is one of them.
LEMMA AppendNotice ==
    ASSUME NEW s \in Seq(Notices), NEW n \in Notices
    PROVE  {i \in DOMAIN Append(s, n) : Append(s, n)[i] \in Terminal}
           = {i \in DOMAIN s : s[i] \in Terminal}
             \cup (IF n \in Terminal THEN {Len(s) + 1} ELSE {})
<1> DEFINE t == Append(s, n)
<1>1. /\ t \in Seq(Notices) /\ Len(t) = Len(s) + 1 /\ t[Len(s) + 1] = n
      /\ \A i \in 1..Len(s) : t[i] = s[i]
  BY AppendProperties
<1>2. Len(s) \in Nat /\ DOMAIN s = 1..Len(s) /\ DOMAIN t = 1..Len(t)
  BY <1>1, LenProperties
<1> HIDE DEF t
<1> QED
  BY <1>1, <1>2 DEF t

\* What Notified does to the notices of each Query Control.
LEMMA NotifiedEffect ==
    ASSUME WireTypeOK, NEW q \in Queries, NEW n \in Notices,
           toQC' = Notified(q, n)
    PROVE  /\ \A r \in Queries \ {q} : toQC'[r] = toQC[r]
           /\ qcClosed[q] => toQC'[q] = toQC[q]
           /\ ~qcClosed[q] =>
                /\ toQC'[q] # <<>>
                /\ Len(toQC'[q]) = Len(toQC[q]) + 1
                /\ TerminalNotices(q)'
                   = TerminalNotices(q)
                     \cup (IF n \in Terminal THEN {Len(toQC'[q])} ELSE {})
<1>1. toQC \in [Queries -> Seq(Notices)]
  BY DEF WireTypeOK
<1>2. /\ \A r \in Queries \ {q} : toQC'[r] = toQC[r]
      /\ qcClosed[q] => toQC'[q] = toQC[q]
      /\ ~qcClosed[q] => toQC'[q] = Append(toQC[q], n)
  BY <1>1 DEF Notified
<1>3. /\ Append(toQC[q], n) # <<>>
      /\ Len(Append(toQC[q], n)) = Len(toQC[q]) + 1
  BY <1>1, AppendProperties
<1>4. ASSUME ~qcClosed[q]
      PROVE  TerminalNotices(q)'
             = TerminalNotices(q)
               \cup (IF n \in Terminal THEN {Len(toQC'[q])} ELSE {})
  BY <1>1, <1>2, <1>3, <1>4, AppendNotice DEF TerminalNotices
<1> QED
  BY <1>2, <1>3, <1>4

\* Steps that tell the Query Controls nothing.
LEMMA ReportsUnmoved ==
    ASSUME SubmittedOnce, EndNoticed, SameKnown,
           UNCHANGED <<toQC, fromQC, qcClosed>>
    PROVE  SubmittedOnce' /\ EndNoticed'
<1>1. SubmittedOnce'
  BY DEF SubmittedOnce, SameKnown
<1>2. EndNoticed'
  BY DEF EndNoticed, SameKnown, TerminalNotices
<1> QED
  BY <1>1, <1>2

\* A query that leaves the tables with a terminal notice.
LEMMA ReportsEnd ==
    ASSUME QueryInv, NEW q \in Queries, qcb[q].state # "NONE",
           NEW n \in Terminal, toQC' = Notified(q, n),
           cleanup_query_resources(q), UNCHANGED <<fromQC, qcClosed>>
    PROVE  SubmittedOnce' /\ EndNoticed'
<1>1. /\ qcb'[q].state = "NONE"
      /\ \A r \in Queries \ {q} : qcb'[r] = qcb[r]
  BY CleanupTables DEF QueryInv, Typed, MasterTypeOK
<1>2. n \in Notices
  BY DEF Terminal, Notices
<1>3. /\ \A r \in Queries \ {q} : toQC'[r] = toQC[r]
      /\ qcClosed[q] => toQC'[q] = toQC[q]
      /\ ~qcClosed[q] =>
           /\ toQC'[q] # <<>>
           /\ TerminalNotices(q)' = TerminalNotices(q) \cup {Len(toQC'[q])}
  BY <1>2, NotifiedEffect DEF QueryInv, Typed
<1>4. SubmittedOnce'
  BY <1>1, <1>3 DEF QueryInv, SubmittedOnce
<1>5. TerminalNotices(q) = {}
  BY DEF QueryInv, EndNoticed
<1>6. EndNoticed'
  <2> SUFFICES ASSUME NEW r \in Queries
               PROVE  /\ qcb'[r].state # "NONE" => TerminalNotices(r)' = {}
                      /\ TerminalNotices(r)' \subseteq {Len(toQC'[r])}
                      /\ toQC'[r] # <<>> /\ ~qcClosed'[r] /\ qcb'[r].state = "NONE"
                         => TerminalNotices(r)' # {}
    BY DEF EndNoticed
  <2>1. CASE r # q
    <3>1. toQC'[r] = toQC[r] /\ TerminalNotices(r)' = TerminalNotices(r)
      BY <1>3, <2>1 DEF TerminalNotices
    <3> QED
      BY <1>1, <2>1, <3>1 DEF QueryInv, EndNoticed
  <2>2. CASE r = q /\ ~qcClosed[q]
    BY <1>1, <1>3, <1>5, <2>2
  <2>3. CASE r = q /\ qcClosed[q]
    <3>1. TerminalNotices(q)' = {}
      BY <1>3, <1>5, <2>3 DEF TerminalNotices
    <3> QED
      BY <1>1, <2>3, <3>1
  <2> QED
    BY <2>1, <2>2, <2>3
<1> QED
  BY <1>4, <1>6

-----------------------------------------------------------------------------
(* Every step keeps the invariant.                                         *)

QueryInvNext == QueryTables' /\ SubmittedOnce' /\ EndNoticed'

\* The tables' invariant puts a query of query_list or running_list in the
\* state the reports need.
LEMMA FinalizeStep ==
    ASSUME QueryInv, NEW q \in Queries, qcb[q].state # "NONE",
           FinalizeWithError(q), UNCHANGED <<fromQC, qcClosed>>
    PROVE  QueryInvNext
<1>1. QueryTables'
  BY CleanupTables DEF QueryInv, Typed, MasterTypeOK, FinalizeWithError
<1>2. SubmittedOnce' /\ EndNoticed'
  BY ReportsEnd DEF FinalizeWithError, Terminal
<1> QED
  BY <1>1, <1>2 DEF QueryInvNext

\* try_dispatch as the second step of a handler.
LEMMA DispatchStep ==
    ASSUME QueryInv, try_dispatch, UNCHANGED <<toQC, fromQC, qcClosed>>
    PROVE  QueryInvNext
BY DispatchTables, ReportsUnmoved
   DEF QueryInv, QueryInvNext, Typed, MasterTypeOK

\* preempt_query_in_exec, by the aging thread or by a Query Control that left.
LEMMA PreemptStep ==
    ASSUME QueryInv, NEW q \in running_list, NEW newBlock \in QueryBlocks,
           newBlock.state \in {"RUNNING", "CANCELED"},
           newBlock.state = "CANCELED" => qcb[q].state = "CANCELED" \/ qcClosed[q],
           preempt_query_in_exec(q, newBlock), UNCHANGED <<fromQC, qcClosed>>
    PROVE  QueryInvNext
<1>1. QueryTableTypeOK /\ QueryTables
  BY DEF QueryInv, Typed, MasterTypeOK
<1>2. /\ QueryTables'
      /\ FinalizeWithError(q) \/ (SameKnown /\ UNCHANGED toQC)
  BY <1>1, PreemptTables
<1>3. q \in Queries /\ qcb[q].state # "NONE"
  BY <1>1 DEF QueryTables
<1>4. CASE FinalizeWithError(q)
  BY <1>3, <1>4, FinalizeStep
<1>5. CASE SameKnown /\ UNCHANGED toQC
  BY <1>2, <1>5, ReportsUnmoved DEF QueryInv, QueryInvNext
<1> QED
  BY <1>2, <1>4, <1>5

\* Steps that leave the query table and the Query Controls alone.
LEMMA IdleStep ==
    ASSUME QueryInv, UNCHANGED <<queryTable, toQC, fromQC, qcClosed>>
    PROVE  QueryInvNext
<1>1. UNCHANGED <<qcb, query_list, ready_queue, running_list>>
  BY DEF queryTable
<1>2. QueryTables' /\ SameKnown
  BY <1>1, TablesUnmoved DEF QueryInv, SameKnown
<1> QED
  BY <1>2, ReportsUnmoved DEF QueryInv, QueryInvNext

\* The steps of a handle_client thread of a Query Control.
LEMMA QueryThreadStep ==
    ASSUME QueryInv, NEW q \in Queries, QueryThread(q)
    PROVE  QueryInvNext
<1>0. QueryTableTypeOK /\ QueryTables /\ WireTypeOK
  BY DEF QueryInv, Typed, MasterTypeOK
<1>1. CASE manage_query_file_path(q)
  <2> DEFINE newPriorityOf == [PriorityOf EXCEPT ![q] = Head(fromQC[q]).priority]
  <2>1. /\ fromQC[q] # <<>>
        /\ query_list' = Append(query_list, q)
        /\ ready_queue' = Enqueued(ready_queue, q, newPriorityOf)
        /\ fromQC' = [fromQC EXCEPT ![q] = Tail(@)]
        /\ toQC' = Notified(q, "OK")
        /\ UNCHANGED <<running_list, qcClosed>>
    BY <1>1 DEF manage_query_file_path
  <2>2. /\ qcb'[q].state = "READY"
        /\ \A r \in Queries \ {q} : qcb'[r] = qcb[r]
    BY <1>0, <1>1 DEF manage_query_file_path, QueryTableTypeOK
  <2>3. /\ qcb[q].state = "NONE" /\ Tail(fromQC[q]) = <<>> /\ toQC[q] = <<>>
    BY <2>1 DEF QueryInv, SubmittedOnce
  <2>4. q \notin ToSet(query_list) /\ q \notin ToSet(ready_queue) /\ q \notin running_list
    BY <1>0, <2>3 DEF QueryTables
  <2> HIDE DEF newPriorityOf
  <2>5. /\ IsInjective(query_list') /\ IsInjective(ready_queue')
        /\ ToSet(query_list') = ToSet(query_list) \cup {q}
        /\ ToSet(ready_queue') = ToSet(ready_queue) \cup {q}
    <3>1. IsInjective(query_list') /\ ToSet(query_list') = ToSet(query_list) \cup {q}
      BY <1>0, <2>1, <2>4, AppendLists DEF QueryTableTypeOK, QueryTables
    <3>2. /\ IsInjective(Enqueued(ready_queue, q, newPriorityOf))
          /\ ToSet(Enqueued(ready_queue, q, newPriorityOf)) = ToSet(ready_queue) \cup {q}
      BY <1>0, <2>4, EnqueuedLists DEF QueryTableTypeOK, QueryTables
    <3> QED
      BY <2>1, <3>1, <3>2
  <2>6. ToSet(query_list') = {r \in Queries : qcb'[r].state # "NONE"}
    BY <1>0, <2>2, <2>5 DEF QueryTables
  <2>7. ToSet(ready_queue') = {r \in Queries : qcb'[r].state = "READY"}
    BY <1>0, <2>2, <2>5 DEF QueryTables
  <2>8. running_list' = {r \in Queries : qcb'[r].state \in {"RUNNING", "CANCELED"}}
    BY <1>0, <2>1, <2>2, <2>3 DEF QueryTables
  <2>9. QueryTables'
    BY <2>5, <2>6, <2>7, <2>8 DEF QueryTables
  <2>10. /\ \A r \in Queries \ {q} : toQC'[r] = toQC[r] /\ fromQC'[r] = fromQC[r]
         /\ fromQC'[q] = <<>>
         /\ qcClosed[q] => toQC'[q] = <<>>
         /\ ~qcClosed[q] => toQC'[q] # <<>>
         /\ TerminalNotices(q)' = {}
    <3>1. TerminalNotices(q) = {}
      BY <2>3 DEF TerminalNotices
    <3>2. "OK" \in Notices \ Terminal
      BY DEF Notices, Terminal
    <3>3. /\ \A r \in Queries \ {q} : toQC'[r] = toQC[r]
          /\ qcClosed[q] => toQC'[q] = toQC[q]
          /\ ~qcClosed[q] =>
               toQC'[q] # <<>> /\ TerminalNotices(q)' = TerminalNotices(q)
      BY <1>0, <2>1, <3>2, NotifiedEffect
    <3>4. TerminalNotices(q)' = {}
      BY <3>1, <3>3 DEF TerminalNotices
    <3>5. /\ \A r \in Queries \ {q} : fromQC'[r] = fromQC[r]
          /\ fromQC'[q] = <<>>
      BY <1>0, <2>1, <2>3 DEF WireTypeOK
    <3> QED
      BY <2>3, <3>3, <3>4, <3>5
  <2>11. SubmittedOnce'
    BY <2>1, <2>2, <2>10 DEF QueryInv, SubmittedOnce
  <2>12. \A r \in Queries \ {q} : TerminalNotices(r)' = TerminalNotices(r)
    BY <2>10 DEF TerminalNotices
  <2>13. EndNoticed'
    BY <2>1, <2>2, <2>10, <2>12 DEF QueryInv, EndNoticed
  <2> QED
    BY <2>9, <2>11, <2>13 DEF QueryInvNext
<1>2. CASE QueryThreadDispatch(q)
  BY <1>2, DispatchStep DEF QueryThreadDispatch
<1>3. CASE handle_query_control_disconnection(q)
  <2>1. UNCHANGED <<fromQC, qcClosed>> /\ qcClosed[q]
    BY <1>3 DEF handle_query_control_disconnection
  <2>2. CASE UNCHANGED <<queryTable, toWorker, toQC>>
    BY <2>1, <2>2, IdleStep
  <2>3. CASE qcb[q].state = "READY" /\ FinalizeWithError(q)
    BY <2>1, <2>3, FinalizeStep
  <2>4. CASE /\ qcb[q].state = "RUNNING"
             /\ preempt_query_in_exec(q, [qcb[q] EXCEPT !.state = "CANCELED"])
    <3> DEFINE newBlock == [qcb[q] EXCEPT !.state = "CANCELED"]
    <3>1. newBlock \in QueryBlocks /\ newBlock.state = "CANCELED"
      BY <1>0 DEF QueryTableTypeOK, QueryBlocks, QueryStates
    <3>2. q \in running_list
      BY <1>0, <2>4 DEF QueryTables
    <3> HIDE DEF newBlock
    <3>3. preempt_query_in_exec(q, newBlock)
      BY <2>4 DEF newBlock
    <3> QED
      BY <2>1, <3>1, <3>2, <3>3, PreemptStep
  <2> QED
    BY <1>3, <2>2, <2>3, <2>4 DEF handle_query_control_disconnection
<1> QED
  BY <1>1, <1>2, <1>3 DEF QueryThread

\* The steps of a handle_client thread of a Worker, one case per package.
LEMMA WorkerThreadStep ==
    ASSUME QueryInv, NEW w \in Workers, WorkerThread(w)
    PROVE  QueryInvNext
<1>0. QueryTableTypeOK /\ QueryTables /\ WireTypeOK /\ WorkerTableTypeOK
  BY DEF QueryInv, Typed, MasterTypeOK
<1>1. CASE create_worker(w) \/ SendAck(w)
  BY <1>1, IdleStep DEF create_worker, SendAck, Receive
<1>2. CASE WorkerThreadDispatch(w)
  BY <1>2, DispatchStep DEF WorkerThreadDispatch
<1>3. CASE manage_read_message_from_worker(w)
  <2> DEFINE q == Head(fromWorker[w]).q
  <2>1. UNCHANGED <<queryTable, fromQC, qcClosed>>
    BY <1>3 DEF manage_read_message_from_worker, Receive
  <2>2. CASE UNCHANGED toQC
    BY <2>1, <2>2, IdleStep
  <2>3. CASE q \in running_list /\ toQC' = Notified(q, "READ_DATA")
    <3>1. PICK r \in Queries : /\ toQC' = Notified(r, "READ_DATA")
                               /\ qcb[r].state # "NONE"
      BY <1>0, <2>3 DEF QueryTables
    <3>2. UNCHANGED <<qcb, query_list, ready_queue, running_list>>
      BY <2>1 DEF queryTable
    <3>3. QueryTables'
      BY <1>0, <3>2, TablesUnmoved
    <3>4. "READ_DATA" \in Notices \ Terminal
      BY DEF Notices, Terminal
    <3>5. /\ \A x \in Queries \ {r} : toQC'[x] = toQC[x]
          /\ qcClosed[r] => toQC'[r] = toQC[r]
          /\ ~qcClosed[r] =>
               toQC'[r] # <<>> /\ TerminalNotices(r)' = TerminalNotices(r)
      <4>1. toQC' = Notified(r, "READ_DATA")
        BY <3>1
      <4>2. "READ_DATA" \in Notices /\ "READ_DATA" \notin Terminal
        BY <3>4
      <4> QED
        BY <1>0, <3>1, <4>1, <4>2, NotifiedEffect
    <3>6. TerminalNotices(r) = {} /\ fromQC[r] = <<>>
      BY <3>1 DEF QueryInv, EndNoticed, SubmittedOnce
    <3>7. ASSUME NEW x \in Queries PROVE TerminalNotices(x)' = TerminalNotices(x)
      <4>1. CASE toQC'[x] = toQC[x]
        BY <4>1 DEF TerminalNotices
      <4>2. CASE x = r /\ ~qcClosed[r]
        BY <3>5, <4>2
      <4> QED
        BY <3>5, <4>1, <4>2
    <3>8. SubmittedOnce'
      BY <2>1, <3>2, <3>5, <3>6 DEF QueryInv, SubmittedOnce
    <3>9. EndNoticed'
      BY <2>1, <3>1, <3>2, <3>5, <3>6, <3>7 DEF QueryInv, EndNoticed
    <3> QED
      BY <3>3, <3>8, <3>9 DEF QueryInvNext
  <2> QED
    BY <1>3, <2>2, <2>3 DEF manage_read_message_from_worker
<1>4. CASE manage_worker_evict_response(w)
  <2> DEFINE q == Head(fromWorker[w]).q
             pc == Head(fromWorker[w]).pc
  <2>1. UNCHANGED <<toQC, fromQC, qcClosed>>
    BY <1>4 DEF manage_worker_evict_response, Receive
  <2>2. CASE UNCHANGED queryTable
    BY <2>1, <2>2, IdleStep
  <2>3. CASE /\ q \in running_list
             /\ qcb[q].state = "CANCELED"
             /\ cleanup_query_resources(q)
    <3>1. q \in Queries /\ qcClosed[q]
      BY <1>0, <2>3 DEF QueryTables, QueryInv, SubmittedOnce
    <3> HIDE DEF q
    <3>2. /\ QueryTables' /\ qcb'[q].state = "NONE"
          /\ \A r \in Queries \ {q} : qcb'[r] = qcb[r]
      BY <1>0, <2>3, <3>1, CleanupTables
    <3>3. SubmittedOnce'
      BY <2>1, <3>1, <3>2 DEF QueryInv, SubmittedOnce
    <3>4. \A r \in Queries : TerminalNotices(r)' = TerminalNotices(r)
      BY <2>1 DEF TerminalNotices
    <3>5. EndNoticed'
      BY <2>1, <3>1, <3>2, <3>4 DEF QueryInv, EndNoticed
    <3> QED
      BY <3>2, <3>3, <3>5 DEF QueryInvNext
  <2>4. CASE /\ q \in running_list
             /\ qcb[q].state # "CANCELED"
             /\ qcb' = [qcb EXCEPT ![q] = RequeuedBlock(@, pc)]
             /\ running_list' = running_list \ {q}
             /\ ready_queue' = insert_query_by_priority(ready_queue, q, PriorityOf)
             /\ UNCHANGED query_list
    <3>1. q \in Queries /\ qcb[q].state = "RUNNING"
      BY <1>0, <2>4 DEF QueryTables
    <3> HIDE DEF q, pc
    <3>2. /\ qcb'[q].state = "READY"
          /\ \A r \in Queries \ {q} : qcb'[r] = qcb[r]
      BY <1>0, <2>4, <3>1 DEF RequeuedBlock, QueryTableTypeOK, QueryBlocks
    <3>3. q \notin ToSet(ready_queue)
      BY <1>0, <3>1 DEF QueryTables
    <3>4. IsInjective(ready_queue') /\ ToSet(ready_queue') = ToSet(ready_queue) \cup {q}
      <4>1. /\ IsInjective(insert_query_by_priority(ready_queue, q, PriorityOf))
            /\ ToSet(insert_query_by_priority(ready_queue, q, PriorityOf))
               = ToSet(ready_queue) \cup {q}
        BY <1>0, <3>1, <3>3, InsertByPriority DEF QueryTableTypeOK, QueryTables
      <4> QED
        BY <2>4, <4>1
    <3>5. ToSet(query_list') = {r \in Queries : qcb'[r].state # "NONE"}
      BY <1>0, <2>4, <3>1, <3>2 DEF QueryTables
    <3>6. ToSet(ready_queue') = {r \in Queries : qcb'[r].state = "READY"}
      BY <1>0, <3>1, <3>2, <3>4 DEF QueryTables
    <3>7. running_list' = {r \in Queries : qcb'[r].state \in {"RUNNING", "CANCELED"}}
      BY <1>0, <2>4, <3>1, <3>2 DEF QueryTables
    <3>8. QueryTables'
      BY <1>0, <2>4, <3>4, <3>5, <3>6, <3>7 DEF QueryTables
    <3>9. SameKnown
      BY <3>1, <3>2 DEF SameKnown
    <3> QED
      BY <2>1, <3>8, <3>9, ReportsUnmoved DEF QueryInv, QueryInvNext
  <2> QED
    BY <1>4, <2>2, <2>3, <2>4 DEF manage_worker_evict_response
<1>5. CASE manage_worker_end_query(w)
  <2> DEFINE q == Head(fromWorker[w]).q
  <2>1. UNCHANGED <<fromQC, qcClosed>>
    BY <1>5 DEF manage_worker_end_query, Receive
  <2>2. CASE UNCHANGED <<queryTable, toQC>>
    BY <2>1, <2>2, IdleStep
  <2>3. CASE /\ q \in running_list
             /\ toQC' = Notified(q, "END_QUERY")
             /\ cleanup_query_resources(q)
    <3>1. q \in Queries /\ qcb[q].state # "NONE"
      BY <1>0, <2>3 DEF QueryTables
    <3> HIDE DEF q
    <3>2. QueryTables'
      BY <1>0, <2>3, <3>1, CleanupTables
    <3>3. SubmittedOnce' /\ EndNoticed'
      BY <2>1, <2>3, <3>1, ReportsEnd DEF Terminal
    <3> QED
      BY <3>2, <3>3 DEF QueryInvNext
  <2> QED
    BY <1>5, <2>2, <2>3 DEF manage_worker_end_query
<1>6. CASE handle_error_from_storage(w)
  <2>1. UNCHANGED <<fromQC, qcClosed>>
    BY <1>6 DEF handle_error_from_storage, Receive
  <2>2. CASE UNCHANGED <<queryTable, toQC>>
    BY <2>1, <2>2, IdleStep
  <2>3. CASE wcb[w].query \in running_list /\ FinalizeWithError(wcb[w].query)
    <3>1. wcb[w].query \in Queries /\ qcb[wcb[w].query].state # "NONE"
      BY <1>0, <2>3 DEF QueryTables
    <3> QED
      BY <2>1, <2>3, <3>1, FinalizeStep
  <2> QED
    BY <1>6, <2>2, <2>3 DEF handle_error_from_storage
<1>7. CASE handle_worker_disconnection(w)
  <2>1. UNCHANGED <<fromQC, qcClosed>>
    BY <1>7 DEF handle_worker_disconnection, EndQueryOf
  <2>2. CASE UNCHANGED <<queryTable, toQC>>
    BY <2>1, <2>2, IdleStep
  <2>3. CASE wcb[w].query \in ToSet(query_list) /\ FinalizeWithError(wcb[w].query)
    <3>1. wcb[w].query \in Queries /\ qcb[wcb[w].query].state # "NONE"
      BY <1>0, <2>3 DEF QueryTables
    <3> QED
      BY <2>1, <2>3, <3>1, FinalizeStep
  <2> QED
    BY <1>7, <2>2, <2>3 DEF handle_worker_disconnection, EndQueryOf
<1> QED
  BY <1>1, <1>2, <1>3, <1>4, <1>5, <1>6, <1>7 DEF WorkerThread

\* Both sections of aging_thread_func.
LEMMA AgingThreadStep ==
    ASSUME QueryInv, AgingThread
    PROVE  QueryInvNext
<1>0. QueryTableTypeOK /\ QueryTables
  BY DEF QueryInv, Typed, MasterTypeOK
<1>1. CASE AgeReadyQueue
  <2>1. /\ \A q \in Queries : qcb'[q].state = qcb[q].state
        /\ ToSet(ready_queue') = ToSet(ready_queue)
        /\ IsInjective(ready_queue')
        /\ UNCHANGED <<query_list, running_list>>
    BY <1>0, <1>1, AgingEffect DEF QueryTables
  <2>2. QueryTables'
    BY <1>0, <2>1 DEF QueryTables
  <2>3. SameKnown /\ UNCHANGED <<toQC, fromQC, qcClosed>>
    BY <1>1, <2>1 DEF SameKnown, AgeReadyQueue, wire
  <2> QED
    BY <2>2, <2>3, ReportsUnmoved DEF QueryInv, QueryInvNext
<1>2. CASE check_preemption
  <2>1. UNCHANGED <<fromQC, qcClosed>>
    BY <1>2 DEF check_preemption
  <2>2. CASE UNCHANGED <<queryTable, toWorker, toQC>>
    BY <2>1, <2>2, IdleStep
  <2>3. CASE \E q \in running_list : preempt_query_in_exec(q, qcb[q])
    <3>1. PICK q \in running_list : preempt_query_in_exec(q, qcb[q])
      BY <2>3
    <3>2. qcb[q] \in QueryBlocks /\ qcb[q].state \in {"RUNNING", "CANCELED"}
      BY <1>0 DEF QueryTableTypeOK, QueryTables
    <3> QED
      BY <2>1, <3>1, <3>2, PreemptStep
  <2> QED
    BY <1>2, <2>2, <2>3 DEF check_preemption
<1> QED
  BY <1>1, <1>2 DEF AgingThread

\* The steps of Query Controls and Workers, which change no table.
LEMMA OutsideStep ==
    ASSUME QueryInv, UNCHANGED master,
           (\E q \in Queries : QueryControl(q)) \/ UNCHANGED <<toQC, fromQC, qcClosed>>
    PROVE  QueryInvNext
<1>1. ASSUME UNCHANGED <<master, toQC, fromQC, qcClosed>> PROVE QueryInvNext
  BY <1>1, IdleStep DEF master
<1>2. ASSUME NEW q \in Queries, Submit(q), UNCHANGED master PROVE QueryInvNext
  <2>1. /\ UNCHANGED <<qcb, query_list, ready_queue, running_list, toQC, qcClosed>>
        /\ toQC[q] = <<>> /\ ~qcClosed[q]
    BY <1>2 DEF Submit, NotSubmitted, master, queryTable
  <2>2. QueryTables'
    BY <2>1, TablesUnmoved DEF QueryInv
  <2>3. PICK p \in Priorities :
           fromQC' = [fromQC EXCEPT ![q] = <<[op |-> "FILE_PATH", priority |-> p]>>]
    BY <1>2 DEF Submit
  <2>4. /\ \A r \in Queries \ {q} : fromQC'[r] = fromQC[r]
        /\ Tail(fromQC'[q]) = <<>>
    BY <2>3 DEF QueryInv, Typed, WireTypeOK
  <2>5. SubmittedOnce'
    BY <2>1, <2>4 DEF QueryInv, SubmittedOnce
  <2>6. \A r \in Queries : TerminalNotices(r)' = TerminalNotices(r)
    BY <2>1 DEF TerminalNotices
  <2>7. EndNoticed'
    BY <2>1, <2>6 DEF QueryInv, EndNoticed
  <2> QED
    BY <2>2, <2>5, <2>7 DEF QueryInvNext
<1>3. ASSUME NEW q \in Queries, CloseQC(q), UNCHANGED master PROVE QueryInvNext
  <2>1. /\ UNCHANGED <<qcb, query_list, ready_queue, running_list, toQC, fromQC>>
        /\ \A r \in Queries : qcClosed[r] => qcClosed'[r]
    BY <1>3 DEF CloseQC, master, queryTable, QueryInv, Typed, WireTypeOK
  <2>2. QueryTables'
    BY <2>1, TablesUnmoved DEF QueryInv
  <2>3. SubmittedOnce'
    BY <2>1 DEF QueryInv, SubmittedOnce
  <2>4. \A r \in Queries : TerminalNotices(r)' = TerminalNotices(r)
    BY <2>1 DEF TerminalNotices
  <2>5. EndNoticed'
    BY <2>1, <2>4 DEF QueryInv, EndNoticed
  <2> QED
    BY <2>2, <2>3, <2>5 DEF QueryInvNext
<1>4. CASE \E q \in Queries : QueryControl(q)
  BY <1>2, <1>3, <1>4 DEF QueryControl, Leave, Quit
<1> QED
  BY <1>1, <1>4

\* The invariant holds before the first package.
LEMMA QueryInit ==
    ASSUME WireInit, MasterInit
    PROVE  QueryInv
<1>1. ToSet(<<>>) = {} /\ IsInjective(<<>>)
  BY DEF ToSet, IsInjective
<1>2. QueryTables
  BY <1>1 DEF MasterInit, QueryTables
<1>3. SubmittedOnce
  BY DEF MasterInit, WireInit, SubmittedOnce
<1>4. EndNoticed
  BY DEF MasterInit, WireInit, EndNoticed, TerminalNotices
<1> QED
  BY <1>2, <1>3, <1>4, MasterInitTyped DEF QueryInv

\* The steps of the Master, and of anyone who leaves its tables alone.
LEMMA QueryInvStep ==
    ASSUME QueryInv, WireTypeOK',
           \/ MasterNext
           \/ /\ UNCHANGED master
              /\ (\E q \in Queries : QueryControl(q)) \/ UNCHANGED <<toQC, fromQC, qcClosed>>
    PROVE  QueryInv'
<1>1. Typed'
  BY MasterTyped, PeersOutside DEF QueryInv, Typed
<1>2. CASE MasterNext
  BY <1>1, <1>2, QueryThreadStep, WorkerThreadStep, AgingThreadStep
     DEF MasterNext, QueryInv, QueryInvNext
<1>3. CASE /\ UNCHANGED master
           /\ (\E q \in Queries : QueryControl(q)) \/ UNCHANGED <<toQC, fromQC, qcClosed>>
  BY <1>1, <1>3, OutsideStep DEF QueryInv, QueryInvNext
<1> QED
  BY <1>2, <1>3

-----------------------------------------------------------------------------
(* The order of the ready queue.                                           *)

\* queue is in the order of the priorities, the best (smallest) first.
SortedBy(queue, priorityOf) ==
    \A i, j \in DOMAIN queue :
        i < j => priorityOf[queue[i]] <= priorityOf[queue[j]]

\* insert_query_by_priority finds the place of the query in a sorted queue.
LEMMA InsertSorted ==
    ASSUME NEW queue \in Seq(Queries), NEW q \in Queries,
           NEW priorityOf \in [Queries -> Int], SortedBy(queue, priorityOf)
    PROVE  SortedBy(insert_query_by_priority(queue, q, priorityOf), priorityOf)
<1> DEFINE Worse == {i \in 1..Len(queue) : priorityOf[q] < priorityOf[queue[i]]}
           k == Min(Worse \cup {Len(queue) + 1})
           t == insert_query_by_priority(queue, q, priorityOf)
<1>0. /\ Len(queue) \in Nat /\ DOMAIN queue = 1..Len(queue)
      /\ \A i \in 1..Len(queue) : queue[i] \in Queries
  BY LenProperties
<1>1. /\ k \in Worse \cup {Len(queue) + 1}
      /\ \A i \in Worse : k <= i
  <2> DEFINE W == Worse \cup {Len(queue) + 1}
  <2>1. W \subseteq Nat /\ W # {} /\ Worse \subseteq W
    BY <1>0
  <2> HIDE DEF Worse, W
  <2>2. Min(W) \in W /\ \A i \in W : Min(W) <= i
    BY <2>1, MinOfNaturals
  <2> QED
    BY <2>1, <2>2 DEF W
<1>2. /\ k \in 1..Len(queue) + 1
      /\ k \in 1..Len(queue) => priorityOf[q] < priorityOf[queue[k]]
  BY <1>0, <1>1
<1>3. \A i \in 1..Len(queue) : i < k => priorityOf[queue[i]] <= priorityOf[q]
  BY <1>0, <1>1, <1>2
<1>4. \A i \in 1..Len(queue) : k <= i => priorityOf[q] <= priorityOf[queue[i]]
  BY <1>0, <1>2 DEF SortedBy
<1>5. t = InsertAt(queue, k, q)
  BY DEF insert_query_by_priority
<1> HIDE DEF k, t
<1>6. /\ t \in Seq(Queries) /\ Len(t) = Len(queue) + 1
      /\ \A i \in 1..Len(t) :
            t[i] = IF i < k THEN queue[i] ELSE IF i = k THEN q ELSE queue[i - 1]
  <2> DEFINE u == InsertAt(queue, k, q)
  <2>1. k \in 1..Len(queue) + 1
    BY <1>2
  <2>2. /\ u \in Seq(Queries) /\ Len(u) = Len(queue) + 1
        /\ \A i \in 1..Len(u) :
              u[i] = IF i < k THEN queue[i] ELSE IF i = k THEN q ELSE queue[i - 1]
    BY <2>1, InsertLists
  <2> HIDE DEF u
  <2>3. t = u
    BY <1>5 DEF u
  <2> QED
    BY <2>2, <2>3
<1>7. DOMAIN t = 1..Len(queue) + 1
  BY <1>6, LenProperties
<1>8. ASSUME NEW i \in DOMAIN t, NEW j \in DOMAIN t, i < j
      PROVE  priorityOf[t[i]] <= priorityOf[t[j]]
  <2>1. CASE j < k
    <3>1. i \in DOMAIN queue /\ j \in DOMAIN queue /\ t[i] = queue[i] /\ t[j] = queue[j]
      BY <1>0, <1>2, <1>6, <1>7, <1>8, <2>1
    <3> QED
      BY <1>8, <3>1 DEF SortedBy
  <2>2. CASE j = k
    <3>1. i \in 1..Len(queue) /\ i < k /\ t[i] = queue[i] /\ t[j] = q
      BY <1>0, <1>2, <1>6, <1>7, <1>8, <2>2
    <3> QED
      BY <1>3, <3>1
  <2>3. CASE k < j /\ i < k
    <3>1. /\ i \in 1..Len(queue) /\ t[i] = queue[i]
          /\ j - 1 \in 1..Len(queue) /\ t[j] = queue[j - 1] /\ k <= j - 1 /\ i < j - 1
      BY <1>0, <1>2, <1>6, <1>7, <1>8, <2>3
    <3> QED
      BY <1>0, <3>1 DEF SortedBy
  <2>4. CASE k < j /\ i = k
    <3>1. t[i] = q /\ j - 1 \in 1..Len(queue) /\ t[j] = queue[j - 1] /\ k <= j - 1
      BY <1>0, <1>2, <1>6, <1>7, <1>8, <2>4
    <3> QED
      BY <1>4, <3>1
  <2>5. CASE k < j /\ k < i
    <3>1. /\ i - 1 \in DOMAIN queue /\ t[i] = queue[i - 1]
          /\ j - 1 \in DOMAIN queue /\ t[j] = queue[j - 1] /\ i - 1 < j - 1
      <4>1. /\ i \in 1..Len(t) /\ j \in 1..Len(t) /\ k \in Int
            /\ ~(i < k) /\ i # k /\ ~(j < k) /\ j # k
        BY <1>0, <1>2, <1>6, <1>7, <2>5
      <4>2. t[i] = queue[i - 1] /\ t[j] = queue[j - 1]
        BY <1>6, <4>1
      <4>3. i - 1 \in DOMAIN queue /\ j - 1 \in DOMAIN queue /\ i - 1 < j - 1
        BY <1>0, <1>2, <1>7, <1>8, <2>5
      <4> QED
        BY <4>2, <4>3
    <3> QED
      BY <3>1 DEF SortedBy
  <2> QED
    BY <1>2, <1>7, <1>8, <2>1, <2>2, <2>3, <2>4, <2>5
<1> QED
  BY <1>8 DEF SortedBy, t

\* Part of a sorted queue, in its order and at the same priorities, is sorted.
LEMMA PartSorted ==
    ASSUME NEW s, NEW t, NEW p, NEW r, SortedBy(s, p), KeepsOrder(s, t),
           \A x \in ToSet(t) : r[x] = p[x]
    PROVE  SortedBy(t, r)
<1> SUFFICES ASSUME NEW i \in DOMAIN t, NEW j \in DOMAIN t, i < j
             PROVE  r[t[i]] <= r[t[j]]
  BY DEF SortedBy
<1>1. PICK k \in DOMAIN s, l \in DOMAIN s : k < l /\ t[i] = s[k] /\ t[j] = s[l]
  BY DEF KeepsOrder
<1>2. p[s[k]] <= p[s[l]]
  BY <1>1 DEF SortedBy
<1>3. r[t[i]] = p[t[i]] /\ r[t[j]] = p[t[j]]
  BY DEF ToSet
<1> QED
  BY <1>1, <1>2, <1>3

\* The ready queue in order, stated with PriorityOf.
ReadySorted == SortedBy(ready_queue, PriorityOf)

\* Steps that keep the order of those that wait and their priorities.
LEMMA SortedKept ==
    ASSUME QueryInv, ReadySorted, KeepsOrder(ready_queue, ready_queue'),
           ToSet(ready_queue') \subseteq Queries,
           \A x \in ToSet(ready_queue') : qcb'[x].priority = qcb[x].priority
    PROVE  ReadySorted'
<1>1. \A x \in ToSet(ready_queue') : PriorityOf'[x] = PriorityOf[x]
  BY DEF PriorityOf
<1> QED
  BY <1>1, PartSorted DEF ReadySorted

\* A query leaves the tables.
LEMMA CleanupSorted ==
    ASSUME QueryInv, ReadySorted, NEW q \in Queries, cleanup_query_resources(q)
    PROVE  ReadySorted'
<1>1. /\ ready_queue \in Seq(Queries) /\ IsInjective(ready_queue)
      /\ ready_queue' = RemoveFirst(ready_queue, q)
      /\ \A x \in Queries \ {q} : qcb'[x] = qcb[x]
  BY DEF QueryInv, Typed, MasterTypeOK, QueryTableTypeOK, QueryTables,
         cleanup_query_resources, list_remove_element
<1>2. /\ KeepsOrder(ready_queue, ready_queue')
      /\ ToSet(ready_queue') = ToSet(ready_queue) \ {q}
      /\ ToSet(ready_queue) \subseteq Queries
  BY <1>1, RemoveLists, ListRange
<1> QED
  BY <1>1, <1>2, SortedKept

\* Nobody joins or leaves the queue and no waiting query changes priority.
LEMMA SameSorted ==
    ASSUME QueryInv, ReadySorted, UNCHANGED ready_queue,
           \A x \in Queries : qcb[x].state = "READY" => qcb'[x].priority = qcb[x].priority
    PROVE  ReadySorted'
<1>1. KeepsOrder(ready_queue, ready_queue')
  BY DEF KeepsOrder
<1>2. \A x \in ToSet(ready_queue') : x \in Queries /\ qcb[x].state = "READY"
  BY DEF QueryInv, QueryTables
<1> QED
  BY <1>1, <1>2, SortedKept

\* try_dispatch keeps the ready queue sorted.
LEMMA DispatchSorted ==
    ASSUME QueryInv, ReadySorted, Algorithm = "PRIORITY", try_dispatch
    PROVE  ReadySorted'
<1> DEFINE q == Head(ready_queue)
           w == Head(idle_list)
<1>0. ready_queue \in Seq(Queries) /\ qcb \in [Queries -> QueryBlocks] /\ QueryTables
  BY DEF QueryInv, Typed, MasterTypeOK, QueryTableTypeOK
<1>1. CASE NothingToDispatch
  <2>1. UNCHANGED <<qcb, ready_queue>>
    BY <1>1 DEF try_dispatch
  <2> QED
    BY <2>1, SameSorted
<1>2. CASE ~NothingToDispatch
  <2> DEFINE t == Tail(ready_queue)
  <2>1. /\ q \in Queries /\ t \in Seq(Queries) /\ KeepsOrder(ready_queue, t)
        /\ ToSet(t) = ToSet(ready_queue) \ {q} /\ ToSet(ready_queue) \subseteq Queries
    BY <1>0, <1>2, TailLists, ListRange DEF NothingToDispatch, QueryTables
  <2>2. \A x \in Queries : qcb'[x].priority = qcb[x].priority
    <3> HIDE DEF t, q, w
    <3>1. CASE DispatchSent(q, w)
      BY <1>0, <2>1, <3>1 DEF DispatchSent, QueryBlocks
    <3>2. CASE DispatchReverted(q, w)
      BY <1>0, <2>1, <3>2 DEF DispatchReverted, QueryBlocks
    <3> QED
      BY <1>2, <3>1, <3>2 DEF try_dispatch, q, w
  <2>3. CASE ready_queue' = t
    BY <2>1, <2>2, <2>3, SortedKept
  <2>4. CASE ready_queue' = Enqueued(t, q, PriorityOf)
    <3> HIDE DEF t, q
    <3>1. PriorityOf \in [Queries -> Int] /\ PriorityOf' = PriorityOf
      BY <1>0, <2>2, WireAssumption DEF PriorityOf, QueryBlocks, Priorities
    <3>2. SortedBy(t, PriorityOf)
      BY <2>1, PartSorted DEF ReadySorted
    <3>3. SortedBy(insert_query_by_priority(t, q, PriorityOf), PriorityOf)
      BY <2>1, <3>1, <3>2, InsertSorted
    <3> QED
      BY <2>4, <3>1, <3>3 DEF Enqueued, ReadySorted
  <2> QED
    BY <1>2, <2>3, <2>4 DEF try_dispatch, DispatchSent, DispatchReverted
<1> QED
  BY <1>1, <1>2

\* preempt_query_in_exec keeps the ready queue sorted.
LEMMA PreemptSorted ==
    ASSUME QueryInv, ReadySorted, NEW r \in running_list, NEW newBlock,
           preempt_query_in_exec(r, newBlock)
    PROVE  ReadySorted'
<1>0. /\ r \in Queries /\ qcb[r].state # "READY" /\ qcb \in [Queries -> QueryBlocks]
  BY DEF QueryInv, Typed, MasterTypeOK, QueryTableTypeOK, QueryTables
<1>1. CASE FinalizeWithError(r)
  BY <1>0, <1>1, CleanupSorted DEF FinalizeWithError
<1>2. CASE /\ UNCHANGED ready_queue
           /\ \E pending \in BOOLEAN :
                 qcb' = [qcb EXCEPT ![r] = [newBlock EXCEPT !.pending = pending]]
  BY <1>0, <1>2, SameSorted
<1> QED
  BY <1>1, <1>2 DEF preempt_query_in_exec

\* A pass of the aging thread sorts the queue by the priorities it leaves.
LEMMA AgingSorted ==
    ASSUME QueryInv, ReadySorted, AgeReadyQueue
    PROVE  ReadySorted'
<1>1. PICK intervals \in [ToSet(ready_queue) -> 0..MaxIntervals] :
         LET newPriorityOf == [q \in Queries |->
                   IF q \in ToSet(ready_queue)
                   THEN Aged(qcb[q].priority, intervals[q])
                   ELSE qcb[q].priority]
         IN  /\ qcb' = [q \in Queries |->
                           [qcb[q] EXCEPT !.priority = newPriorityOf[q]]]
             /\ IF newPriorityOf = PriorityOf
                THEN UNCHANGED ready_queue
                ELSE ready_queue' \in list_sort(ready_queue, newPriorityOf)
  BY DEF AgeReadyQueue
<1> DEFINE newPriorityOf == [q \in Queries |->
                   IF q \in ToSet(ready_queue)
                   THEN Aged(qcb[q].priority, intervals[q])
                   ELSE qcb[q].priority]
<1>2. /\ qcb' = [q \in Queries |-> [qcb[q] EXCEPT !.priority = newPriorityOf[q]]]
      /\ \/ newPriorityOf = PriorityOf /\ UNCHANGED ready_queue
         \/ ready_queue' \in list_sort(ready_queue, newPriorityOf)
      /\ newPriorityOf = [q \in Queries |-> newPriorityOf[q]]
  BY <1>1
<1> HIDE DEF newPriorityOf
<1>3. PriorityOf' = newPriorityOf
  <2>1. qcb \in [Queries -> QueryBlocks]
    BY DEF QueryInv, Typed, MasterTypeOK, QueryTableTypeOK
  <2>2. \A q \in Queries : qcb'[q].priority = newPriorityOf[q]
    BY <1>2, <2>1 DEF QueryBlocks
  <2> QED
    BY <1>2, <2>2 DEF PriorityOf
<1>4. CASE newPriorityOf = PriorityOf /\ UNCHANGED ready_queue
  BY <1>3, <1>4 DEF ReadySorted
<1>5. CASE ready_queue' \in list_sort(ready_queue, newPriorityOf)
  <2>1. SortedBy(ready_queue', newPriorityOf)
    BY <1>5 DEF list_sort, SortedBy
  <2> QED
    BY <1>3, <2>1 DEF ReadySorted
<1> QED
  BY <1>2, <1>4, <1>5

\* The thread of a Query Control keeps the ready queue sorted.
LEMMA QueryThreadSorted ==
    ASSUME QueryInv, ReadySorted, Algorithm = "PRIORITY", NEW q \in Queries, QueryThread(q)
    PROVE  ReadySorted'
<1>0. /\ ready_queue \in Seq(Queries) /\ qcb \in [Queries -> QueryBlocks] /\ QueryTables
      /\ fromQC \in [Queries -> Seq(QCPackages)]
  BY DEF QueryInv, Typed, MasterTypeOK, QueryTableTypeOK, WireTypeOK
<1>1. CASE manage_query_file_path(q)
  <2> DEFINE priority == Head(fromQC[q]).priority
             newPriorityOf == [PriorityOf EXCEPT ![q] = priority]
  <2>1. priority \in Priorities /\ qcb[q].state = "NONE"
    <3>1. fromQC[q] \in Seq(QCPackages) /\ fromQC[q] # <<>>
      BY <1>0, <1>1 DEF manage_query_file_path
    <3>2. Head(fromQC[q]) \in QCPackages
      BY <3>1
    <3> QED
      BY <3>1, <3>2 DEF QCPackages, QueryInv, SubmittedOnce
  <2>2. /\ qcb' = [qcb EXCEPT ![q] = [state |-> "READY", priority |-> priority,
                                      worker |-> NoWorker, pc |-> 0, pending |-> FALSE]]
        /\ ready_queue' = Enqueued(ready_queue, q, newPriorityOf)
    BY <1>1 DEF manage_query_file_path
  <2> HIDE DEF priority
  <2>3. /\ newPriorityOf \in [Queries -> Int] /\ PriorityOf' = newPriorityOf
        /\ \A x \in Queries \ {q} : newPriorityOf[x] = PriorityOf[x]
    <3>1. PriorityOf \in [Queries -> Int]
      BY <1>0, WireAssumption DEF PriorityOf, QueryBlocks, Priorities
    <3>2. priority \in Int
      BY <2>1, WireAssumption DEF Priorities
    <3>3. \A x \in Queries : PriorityOf'[x] = newPriorityOf[x]
      BY <1>0, <2>2, <3>1 DEF PriorityOf
    <3>4. PriorityOf' = [x \in Queries |-> PriorityOf'[x]]
      BY DEF PriorityOf
    <3>5. newPriorityOf = [x \in Queries |-> newPriorityOf[x]]
      BY <3>1
    <3> QED
      BY <3>1, <3>2, <3>3, <3>4, <3>5
  <2> HIDE DEF newPriorityOf
  <2>4. SortedBy(ready_queue, newPriorityOf)
    <3>1. \A x \in ToSet(ready_queue) : newPriorityOf[x] = PriorityOf[x]
      BY <1>0, <2>1, <2>3 DEF QueryTables
    <3>2. KeepsOrder(ready_queue, ready_queue)
      BY DEF KeepsOrder
    <3> QED
      BY <3>1, <3>2, PartSorted DEF ReadySorted
  <2>5. SortedBy(insert_query_by_priority(ready_queue, q, newPriorityOf), newPriorityOf)
    BY <1>0, <2>3, <2>4, InsertSorted
  <2> QED
    BY <2>2, <2>3, <2>5 DEF Enqueued, ReadySorted
<1>2. CASE QueryThreadDispatch(q)
  BY <1>2, DispatchSorted DEF QueryThreadDispatch
<1>3. CASE handle_query_control_disconnection(q)
  <2>1. CASE UNCHANGED queryTable
    BY <2>1, SameSorted DEF queryTable
  <2>2. CASE FinalizeWithError(q)
    BY <2>2, CleanupSorted DEF FinalizeWithError
  <2>3. CASE /\ qcb[q].state = "RUNNING"
             /\ preempt_query_in_exec(q, [qcb[q] EXCEPT !.state = "CANCELED"])
    <3>1. q \in running_list
      BY <1>0, <2>3 DEF QueryTables
    <3> QED
      BY <2>3, <3>1, PreemptSorted
  <2> QED
    BY <1>3, <2>1, <2>2, <2>3 DEF handle_query_control_disconnection
<1> QED
  BY <1>1, <1>2, <1>3 DEF QueryThread

\* The thread of a Worker connection keeps the ready queue sorted.
LEMMA WorkerThreadSorted ==
    ASSUME QueryInv, ReadySorted, Algorithm = "PRIORITY", NEW w \in Workers, WorkerThread(w)
    PROVE  ReadySorted'
<1>0. /\ ready_queue \in Seq(Queries) /\ qcb \in [Queries -> QueryBlocks] /\ QueryTables
      /\ running_list \subseteq Queries
  BY DEF QueryInv, Typed, MasterTypeOK, QueryTableTypeOK, QueryTables
<1>1. CASE UNCHANGED queryTable
  BY <1>1, SameSorted DEF queryTable
<1>2. CASE \E q \in Queries : cleanup_query_resources(q)
  BY <1>2, CleanupSorted
<1>3. CASE create_worker(w) \/ SendAck(w) \/ manage_read_message_from_worker(w)
  BY <1>1, <1>3 DEF create_worker, SendAck, manage_read_message_from_worker
<1>4. CASE WorkerThreadDispatch(w)
  BY <1>4, DispatchSorted DEF WorkerThreadDispatch
<1>5. CASE manage_worker_evict_response(w)
  <2> DEFINE q == Head(fromWorker[w]).q
             pc == Head(fromWorker[w]).pc
  <2>1. CASE /\ q \in running_list
             /\ qcb' = [qcb EXCEPT ![q] = RequeuedBlock(@, pc)]
             /\ ready_queue' = insert_query_by_priority(ready_queue, q, PriorityOf)
    <3> HIDE DEF q, pc
    <3>1. q \in Queries
      BY <1>0, <2>1
    <3>2. \A x \in Queries : qcb'[x].priority = qcb[x].priority
      BY <1>0, <2>1, <3>1 DEF RequeuedBlock, QueryBlocks
    <3>3. PriorityOf \in [Queries -> Int] /\ PriorityOf' = PriorityOf
      BY <1>0, <3>2, WireAssumption DEF PriorityOf, QueryBlocks, Priorities
    <3>4. SortedBy(insert_query_by_priority(ready_queue, q, PriorityOf), PriorityOf)
      BY <1>0, <3>1, <3>3, InsertSorted DEF ReadySorted
    <3> QED
      BY <2>1, <3>3, <3>4 DEF ReadySorted
  <2>2. CASE q \in running_list /\ cleanup_query_resources(q)
    BY <1>0, <1>2, <2>2
  <2> QED
    BY <1>1, <1>5, <2>1, <2>2 DEF manage_worker_evict_response
<1>6. CASE manage_worker_end_query(w)
  BY <1>0, <1>1, <1>2, <1>6 DEF manage_worker_end_query
<1>7. CASE handle_error_from_storage(w)
  BY <1>0, <1>1, <1>2, <1>7 DEF handle_error_from_storage, FinalizeWithError
<1>8. CASE handle_worker_disconnection(w)
  BY <1>0, <1>1, <1>2, <1>8
     DEF handle_worker_disconnection, EndQueryOf, FinalizeWithError, QueryTables
<1> QED
  BY <1>3, <1>4, <1>5, <1>6, <1>7, <1>8 DEF WorkerThread

\* The aging thread keeps the ready queue sorted.
LEMMA AgingThreadSorted ==
    ASSUME QueryInv, ReadySorted, AgingThread
    PROVE  ReadySorted'
<1>1. CASE UNCHANGED queryTable
  BY <1>1, SameSorted DEF queryTable
<1>2. CASE \E q \in running_list : preempt_query_in_exec(q, qcb[q])
  BY <1>2, PreemptSorted
<1> QED
  BY <1>1, <1>2, AgingSorted DEF AgingThread, check_preemption

-----------------------------------------------------------------------------
(* Channels.                                                               *)

\* The same program counter, if no instruction may fail.  A Worker that has
\* reported an error may be started on a second query while it executes the
\* first, and then writes its one program counter into the wrong context.
Agree(a, b) == Fallible = {} => a = b

\* A package of this kind about q; a channel that has one, at most one, and
\* only ones with this program counter.

Matches(m, op, q) == m.op = op /\ m.q = q
Has(s, op, q) == \E i \in DOMAIN s : Matches(s[i], op, q)
Once(s, op, q) ==
    \A i, j \in DOMAIN s : Matches(s[i], op, q) /\ Matches(s[j], op, q) => i = j
PcIs(s, op, q, pc) == \A i \in DOMAIN s : Matches(s[i], op, q) => Agree(s[i].pc, pc)

\* A package of a Worker about q.
Concerns(m, q) == m.op \in {"READ", "END", "ERROR", "EVICTED"} /\ m.q = q
About(s, q) == \E i \in DOMAIN s : Concerns(s[i], q)

\* Nothing about q follows its eviction response.
EvictedLast(s, q) ==
    \A i, j \in DOMAIN s : Matches(s[i], "EVICTED", q) /\ Concerns(s[j], q) => j <= i

\* A package more at the end of a channel.
LEMMA AppendChannel ==
    ASSUME NEW S, NEW s \in Seq(S), NEW m \in S, NEW op, NEW q
    PROVE  LET t == Append(s, m)
           IN  /\ Has(t, op, q) <=> Has(s, op, q) \/ Matches(m, op, q)
               /\ Once(s, op, q) /\ ~(Has(s, op, q) /\ Matches(m, op, q))
                  => Once(t, op, q)
               /\ \A pc : PcIs(s, op, q, pc) /\ (Matches(m, op, q) => Agree(m.pc, pc))
                          => PcIs(t, op, q, pc)
               /\ ~Concerns(m, q) => /\ About(t, q) <=> About(s, q)
                                     /\ EvictedLast(s, q) => EvictedLast(t, q)
<1> DEFINE t == Append(s, m)
<1>1. /\ t \in Seq(S) /\ Len(t) = Len(s) + 1 /\ t[Len(s) + 1] = m
      /\ \A i \in 1..Len(s) : t[i] = s[i]
  BY AppendProperties
<1>2. Len(s) \in Nat /\ DOMAIN s = 1..Len(s) /\ DOMAIN t = 1..Len(s) + 1
  BY <1>1, LenProperties
<1> HIDE DEF t
<1>3. \A i \in 1..Len(s) + 1 : i \in 1..Len(s) \/ i = Len(s) + 1
  BY <1>2
<1>4. Has(t, op, q) <=> Has(s, op, q) \/ Matches(m, op, q)
  BY <1>1, <1>2, <1>3 DEF Has
<1>5. Once(s, op, q) /\ ~(Has(s, op, q) /\ Matches(m, op, q)) => Once(t, op, q)
  BY <1>1, <1>2, <1>3 DEF Has, Once
<1>6. ASSUME NEW pc, PcIs(s, op, q, pc), Matches(m, op, q) => Agree(m.pc, pc)
      PROVE  PcIs(t, op, q, pc)
  BY <1>6, <1>1, <1>2, <1>3 DEF PcIs
<1>7. ~Concerns(m, q) => (About(t, q) <=> About(s, q))
  BY <1>1, <1>2, <1>3 DEF About
<1>8. ~Concerns(m, q) /\ EvictedLast(s, q) => EvictedLast(t, q)
  BY <1>1, <1>2, <1>3 DEF EvictedLast, Concerns, Matches
<1> QED
  BY <1>4, <1>5, <1>6, <1>7, <1>8 DEF t

\* The first package leaves a channel.
LEMMA TailChannel ==
    ASSUME NEW S, NEW s \in Seq(S), s # <<>>, NEW op, NEW q
    PROVE  LET t == Tail(s)
               m == Head(s)
           IN  /\ Has(s, op, q) <=> Has(t, op, q) \/ Matches(m, op, q)
               /\ About(s, q) <=> About(t, q) \/ Concerns(m, q)
               /\ Once(s, op, q) => /\ Once(t, op, q)
                                    /\ Matches(m, op, q) => ~Has(t, op, q)
               /\ \A pc : PcIs(s, op, q, pc) => /\ PcIs(t, op, q, pc)
                                                /\ Matches(m, op, q) => Agree(m.pc, pc)
               /\ EvictedLast(s, q) => /\ EvictedLast(t, q)
                                       /\ Matches(m, "EVICTED", q) => ~About(t, q)
<1> DEFINE t == Tail(s)
           m == Head(s)
<1>1. /\ t \in Seq(S) /\ Len(t) = Len(s) - 1
      /\ \A i \in 1..Len(t) : t[i] = s[i + 1]
  BY HeadTailProperties
<1>2. /\ Len(s) \in Nat \ {0} /\ DOMAIN s = 1..Len(s) /\ DOMAIN t = 1..Len(s) - 1
      /\ m = s[1]
  BY <1>1, LenProperties, EmptySeq
<1> HIDE DEF t, m
<1>3. /\ \A i \in DOMAIN t : i + 1 \in DOMAIN s /\ t[i] = s[i + 1]
      /\ \A i \in DOMAIN s : i = 1 \/ (i - 1 \in DOMAIN t /\ t[i - 1] = s[i])
      /\ 1 \in DOMAIN s /\ m = s[1]
      /\ DOMAIN s \subseteq Int /\ DOMAIN t \subseteq Int
      /\ \A i \in DOMAIN t : i >= 1
  BY <1>1, <1>2
<1>4. Has(s, op, q) <=> Has(t, op, q) \/ Matches(m, op, q)
  BY <1>3 DEF Has
<1>5. About(s, q) <=> About(t, q) \/ Concerns(m, q)
  BY <1>3 DEF About
<1>6. ASSUME Once(s, op, q)
      PROVE  Once(t, op, q) /\ (Matches(m, op, q) => ~Has(t, op, q))
  <2>1. ASSUME NEW i \in DOMAIN t, NEW j \in DOMAIN t,
               Matches(t[i], op, q), Matches(t[j], op, q)
        PROVE  i = j
    <3>1. i + 1 = j + 1
      BY <1>3, <1>6, <2>1 DEF Once
    <3> QED
      BY <1>3, <3>1
  <2>2. ASSUME NEW i \in DOMAIN t, Matches(t[i], op, q), Matches(m, op, q)
        PROVE  FALSE
    <3>1. i + 1 = 1
      BY <1>3, <1>6, <2>2 DEF Once
    <3> QED
      BY <1>3, <3>1
  <2> QED
    BY <2>1, <2>2 DEF Once, Has
<1>7. ASSUME NEW pc, PcIs(s, op, q, pc)
      PROVE  PcIs(t, op, q, pc) /\ (Matches(m, op, q) => Agree(m.pc, pc))
  BY <1>7, <1>3 DEF PcIs
<1>8. ASSUME EvictedLast(s, q)
      PROVE  EvictedLast(t, q) /\ (Matches(m, "EVICTED", q) => ~About(t, q))
  <2>1. ASSUME NEW i \in DOMAIN t, NEW j \in DOMAIN t,
               Matches(t[i], "EVICTED", q), Concerns(t[j], q)
        PROVE  j <= i
    <3>1. j + 1 <= i + 1
      BY <1>3, <1>8, <2>1 DEF EvictedLast
    <3> QED
      BY <1>3, <3>1
  <2>2. ASSUME NEW j \in DOMAIN t, Concerns(t[j], q), Matches(m, "EVICTED", q)
        PROVE  FALSE
    <3>1. j + 1 <= 1
      BY <1>3, <1>8, <2>2 DEF EvictedLast
    <3> QED
      BY <1>3, <3>1
  <2> QED
    BY <2>1, <2>2 DEF EvictedLast, About
<1> QED
  BY <1>4, <1>5, <1>6, <1>7, <1>8 DEF t, m

\* Packages sent together.
LEMMA ConcatChannel ==
    ASSUME NEW S, NEW s \in Seq(S), NEW p \in Seq(S), NEW op, NEW q
    PROVE  LET t == s \o p
           IN  /\ Has(t, op, q) <=> Has(s, op, q) \/ Has(p, op, q)
               /\ Once(s, op, q) /\ Once(p, op, q) /\ ~(Has(s, op, q) /\ Has(p, op, q))
                  => Once(t, op, q)
               /\ About(t, q) <=> About(s, q) \/ About(p, q)
               /\ \A pc : PcIs(s, op, q, pc) /\ PcIs(p, op, q, pc) => PcIs(t, op, q, pc)
               /\ EvictedLast(s, q) /\ EvictedLast(p, q)
                  /\ ~(Has(s, "EVICTED", q) /\ About(p, q)) => EvictedLast(t, q)
<1> DEFINE t == s \o p
<1>1. /\ t \in Seq(S) /\ Len(t) = Len(s) + Len(p)
      /\ \A i \in 1..Len(s) + Len(p) :
            t[i] = IF i <= Len(s) THEN s[i] ELSE p[i - Len(s)]
  BY ConcatProperties
<1>2. /\ Len(s) \in Nat /\ Len(p) \in Nat /\ DOMAIN s = 1..Len(s) /\ DOMAIN p = 1..Len(p)
      /\ DOMAIN t = 1..Len(s) + Len(p)
  BY <1>1, LenProperties
<1> HIDE DEF t
<1>3. /\ \A i \in DOMAIN s : i \in DOMAIN t /\ t[i] = s[i]
      /\ \A i \in DOMAIN p : Len(s) + i \in DOMAIN t /\ t[Len(s) + i] = p[i]
      /\ \A i \in DOMAIN t : \/ i \in DOMAIN s /\ t[i] = s[i]
                             \/ i - Len(s) \in DOMAIN p /\ t[i] = p[i - Len(s)]
  <2>1. ASSUME NEW i \in DOMAIN p
        PROVE  Len(s) + i \in DOMAIN t /\ t[Len(s) + i] = p[i]
    <3>1. Len(s) + i \in 1..Len(s) + Len(p) /\ ~(Len(s) + i <= Len(s)) /\ Len(s) + i - Len(s) = i
      BY <1>2
    <3> QED
      BY <1>1, <1>2, <3>1
  <2>2. ASSUME NEW i \in DOMAIN t
        PROVE  \/ i \in DOMAIN s /\ t[i] = s[i]
               \/ i - Len(s) \in DOMAIN p /\ t[i] = p[i - Len(s)]
    BY <1>1, <1>2
  <2> QED
    BY <1>1, <1>2, <2>1, <2>2
<1>4. Has(t, op, q) <=> Has(s, op, q) \/ Has(p, op, q)
  BY <1>3 DEF Has
<1>5. About(t, q) <=> About(s, q) \/ About(p, q)
  BY <1>3 DEF About
<1>6. ASSUME NEW pc, PcIs(s, op, q, pc), PcIs(p, op, q, pc) PROVE PcIs(t, op, q, pc)
  BY <1>6, <1>3 DEF PcIs
<1>7. ASSUME EvictedLast(s, q), EvictedLast(p, q), ~(Has(s, "EVICTED", q) /\ About(p, q)),
             NEW i \in DOMAIN t, NEW j \in DOMAIN t,
             Matches(t[i], "EVICTED", q), Concerns(t[j], q)
      PROVE  j <= i
  <2>1. CASE i \in DOMAIN s /\ t[i] = s[i] /\ j \in DOMAIN s /\ t[j] = s[j]
    BY <1>7, <2>1 DEF EvictedLast
  <2>2. CASE /\ i \in DOMAIN s /\ t[i] = s[i]
             /\ j - Len(s) \in DOMAIN p /\ t[j] = p[j - Len(s)]
    BY <1>7, <2>2 DEF Has, About
  <2>3. CASE i - Len(s) \in DOMAIN p /\ t[i] = p[i - Len(s)] /\ j \in DOMAIN s
    BY <1>2, <2>3
  <2>4. CASE /\ i - Len(s) \in DOMAIN p /\ t[i] = p[i - Len(s)]
             /\ j - Len(s) \in DOMAIN p /\ t[j] = p[j - Len(s)]
    <3>1. j - Len(s) <= i - Len(s)
      BY <1>7, <2>4 DEF EvictedLast
    <3> QED
      BY <1>2, <3>1
  <2> QED
    BY <1>3, <2>1, <2>2, <2>3, <2>4
<1>8. ASSUME Once(s, op, q), Once(p, op, q), ~(Has(s, op, q) /\ Has(p, op, q)),
             NEW i \in DOMAIN t, NEW j \in DOMAIN t,
             Matches(t[i], op, q), Matches(t[j], op, q)
      PROVE  i = j
  <2>1. CASE i \in DOMAIN s /\ t[i] = s[i] /\ j \in DOMAIN s /\ t[j] = s[j]
    BY <1>8, <2>1 DEF Once
  <2>2. CASE /\ i - Len(s) \in DOMAIN p /\ t[i] = p[i - Len(s)]
             /\ j - Len(s) \in DOMAIN p /\ t[j] = p[j - Len(s)]
    <3>1. i - Len(s) = j - Len(s)
      BY <1>8, <2>2 DEF Once
    <3> QED
      BY <1>2, <3>1
  <2> QED
    BY <1>3, <1>8, <2>1, <2>2 DEF Has
<1> QED
  BY <1>4, <1>5, <1>6, <1>7, <1>8 DEF t, EvictedLast, Once

\* The first two parts of ConcatChannel: what a channel has and has once.
LEMMA ConcatOnce ==
    ASSUME NEW S, NEW s \in Seq(S), NEW p \in Seq(S)
    PROVE  \A op, q :
              /\ Has(s \o p, op, q) <=> Has(s, op, q) \/ Has(p, op, q)
              /\ Once(s, op, q) /\ Once(p, op, q) /\ ~(Has(s, op, q) /\ Has(p, op, q))
                 => Once(s \o p, op, q)
<1> SUFFICES ASSUME NEW op, NEW q
             PROVE  /\ Has(s \o p, op, q) <=> Has(s, op, q) \/ Has(p, op, q)
                    /\ Once(s, op, q) /\ Once(p, op, q) /\ ~(Has(s, op, q) /\ Has(p, op, q))
                       => Once(s \o p, op, q)
  OBVIOUS
<1> QED
  BY ConcatChannel


-----------------------------------------------------------------------------
(* Channels that only lose packages about q.                               *)

ToFades(s, t, q) ==
    /\ \A op \in {"START", "PREEMPT"} :
          /\ Has(t, op, q) => Has(s, op, q)
          /\ Once(s, op, q) => Once(t, op, q)
    /\ \A pc : PcIs(s, "START", q, pc) => PcIs(t, "START", q, pc)

FromFades(s, t, q) ==
    /\ \A op \in {"END", "EVICTED"} : Has(t, op, q) => Has(s, op, q)
    /\ About(t, q) => About(s, q)
    /\ Once(s, "END", q) => Once(t, "END", q)
    /\ EvictedLast(s, q) => EvictedLast(t, q)
    /\ \A pc : PcIs(s, "EVICTED", q, pc) => PcIs(t, "EVICTED", q, pc)

\* The ways in which a channel to a Worker fades.
LEMMA ToChannelFades ==
    ASSUME NEW s \in Seq(MasterPackages), NEW q
    PROVE  /\ ToFades(s, s, q)
           /\ ToFades(s, <<>>, q)
           /\ s # <<>> => ToFades(s, Tail(s), q)
           /\ \A m \in MasterPackages :
                 ~(m.op \in {"START", "PREEMPT"} /\ m.q = q)
                 => ToFades(s, Append(s, m), q)
<1>1. ToFades(s, s, q)
  BY DEF ToFades
<1>2. ToFades(s, <<>>, q)
  BY DEF ToFades, Has, Once, PcIs
<1>3. ASSUME s # <<>> PROVE ToFades(s, Tail(s), q)
  <2>1. ASSUME NEW op, NEW pc
        PROVE  /\ Has(Tail(s), op, q) => Has(s, op, q)
               /\ Once(s, op, q) => Once(Tail(s), op, q)
               /\ PcIs(s, op, q, pc) => PcIs(Tail(s), op, q, pc)
    BY <1>3, TailChannel
  <2> QED
    BY <2>1 DEF ToFades
<1>4. ASSUME NEW m \in MasterPackages, ~(m.op \in {"START", "PREEMPT"} /\ m.q = q)
      PROVE  ToFades(s, Append(s, m), q)
  <2>1. ASSUME NEW op \in {"START", "PREEMPT"}, NEW pc
        PROVE  /\ Has(Append(s, m), op, q) => Has(s, op, q)
               /\ Once(s, op, q) => Once(Append(s, m), op, q)
               /\ PcIs(s, op, q, pc) => PcIs(Append(s, m), op, q, pc)
    <3>1. ~Matches(m, op, q)
      BY <1>4 DEF Matches
    <3> QED
      BY <3>1, AppendChannel
  <2> QED
    BY <2>1 DEF ToFades
<1> QED
  BY <1>1, <1>2, <1>3, <1>4

\* The ways in which a channel from a Worker fades; only an END that is
\* received is missing afterwards.
LEMMA FromChannelFades ==
    ASSUME NEW s \in Seq(WorkerPackages), NEW q
    PROVE  /\ FromFades(s, s, q)
           /\ s # <<>> => /\ FromFades(s, Tail(s), q)
                          /\ Has(s, "END", q) => \/ Has(Tail(s), "END", q)
                                                 \/ Matches(Head(s), "END", q)
           /\ \A m \in WorkerPackages :
                 ~Concerns(m, q) => /\ FromFades(s, Append(s, m), q)
                                    /\ Has(s, "END", q) => Has(Append(s, m), "END", q)
           /\ \A p \in Seq(WorkerPackages) :
                 ~About(p, q) => /\ FromFades(s, s \o p, q)
                                 /\ Has(s, "END", q) => Has(s \o p, "END", q)
<1>1. FromFades(s, s, q)
  BY DEF FromFades
<1>2. ASSUME s # <<>>
      PROVE  /\ FromFades(s, Tail(s), q)
             /\ Has(s, "END", q) => Has(Tail(s), "END", q) \/ Matches(Head(s), "END", q)
  <2>1. ASSUME NEW op, NEW pc
        PROVE  /\ Has(s, op, q) <=> Has(Tail(s), op, q) \/ Matches(Head(s), op, q)
               /\ About(Tail(s), q) => About(s, q)
               /\ Once(s, op, q) => Once(Tail(s), op, q)
               /\ PcIs(s, op, q, pc) => PcIs(Tail(s), op, q, pc)
               /\ EvictedLast(s, q) => EvictedLast(Tail(s), q)
    BY <1>2, TailChannel
  <2> QED
    BY <2>1 DEF FromFades
<1>3. ASSUME NEW m \in WorkerPackages, ~Concerns(m, q)
      PROVE  /\ FromFades(s, Append(s, m), q)
             /\ Has(s, "END", q) => Has(Append(s, m), "END", q)
  <2>1. ASSUME NEW op \in {"END", "EVICTED"}, NEW pc
        PROVE  /\ Has(Append(s, m), op, q) <=> Has(s, op, q)
               /\ About(Append(s, m), q) => About(s, q)
               /\ Once(s, op, q) => Once(Append(s, m), op, q)
               /\ PcIs(s, op, q, pc) => PcIs(Append(s, m), op, q, pc)
               /\ EvictedLast(s, q) => EvictedLast(Append(s, m), q)
    <3>1. ~Matches(m, op, q)
      BY <1>3 DEF Matches, Concerns
    <3> QED
      BY <1>3, <3>1, AppendChannel
  <2> QED
    BY <2>1 DEF FromFades
<1>4. ASSUME NEW p \in Seq(WorkerPackages), ~About(p, q)
      PROVE  /\ FromFades(s, s \o p, q)
             /\ Has(s, "END", q) => Has(s \o p, "END", q)
  <2>1. ASSUME NEW op \in {"END", "EVICTED"}, NEW pc
        PROVE  /\ Has(s \o p, op, q) <=> Has(s, op, q)
               /\ About(s \o p, q) => About(s, q)
               /\ Once(s, op, q) => Once(s \o p, op, q)
               /\ PcIs(s, op, q, pc) => PcIs(s \o p, op, q, pc)
               /\ EvictedLast(s, q) => EvictedLast(s \o p, q)
    <3>1. /\ ~Has(p, op, q) /\ Once(p, op, q) /\ PcIs(p, op, q, pc)
          /\ EvictedLast(p, q)
      BY <1>4 DEF About, Has, Once, PcIs, EvictedLast, Matches, Concerns
    <3> QED
      BY <1>4, <3>1, ConcatChannel
  <2> QED
    BY <2>1 DEF FromFades
<1> QED
  BY <1>1, <1>2, <1>3, <1>4

-----------------------------------------------------------------------------
(* Which Worker executes a query, and from where.                          *)

\* The invariant follows a query over its channels: a START on its way, the
\* Worker that holds it, an eviction request on its way, the packages the
\* Worker said about it.  What the Workers know is a record k: the queries
\* each one holds, the requests it has taken, the ENDs it sent and may still
\* follow with an eviction response (late), its program counters, and the
\* instructions of each query executed so far.

\* Something on the way to w, at w, or said by w is about q.
Involved(w, q, k) ==
    \/ Has(toWorker[w], "START", q)
    \/ Has(toWorker[w], "PREEMPT", q)
    \/ q \in k.holding[w]
    \/ q \in k.late[w]
    \/ About(fromWorker[w], q)

\* The Master has not read the submission of q.
Fresh(q) == fromQC[q] # <<>> \/ (toQC[q] = <<>> /\ ~qcClosed[q])

\* What w and its channels may say about a query that runs.
RunningAt(w, q, k) ==
    /\ Involved(w, q, k) => qcb[q].worker = w
    /\ Once(toWorker[w], "START", q)
    /\ Has(toWorker[w], "START", q) => q \notin k.holding[w] /\ ~About(fromWorker[w], q)
    /\ q \in k.holding[w] => /\ ~Has(fromWorker[w], "END", q)
                             /\ ~Has(fromWorker[w], "EVICTED", q)
    /\ q \in k.late[w] => /\ Has(fromWorker[w], "END", q)
                          /\ ~Has(fromWorker[w], "EVICTED", q)
    /\ Once(fromWorker[w], "END", q)
    /\ EvictedLast(fromWorker[w], q)
    /\ Has(fromWorker[w], "EVICTED", q) \/ q \in k.eject[w] \/ ~qcb[q].pending
       => ~Has(toWorker[w], "PREEMPT", q)
    /\ ~qcb[q].pending => q \notin k.eject[w] /\ ~Has(fromWorker[w], "EVICTED", q)
    /\ PcIs(toWorker[w], "START", q, k.executed[q])
    /\ q \in k.holding[w] => Agree(k.position[w][q], k.executed[q])
    /\ ~Has(fromWorker[w], "END", q) => PcIs(fromWorker[w], "EVICTED", q, k.executed[q])

PairInv(w, q, k) ==
    /\ Fresh(q) \/ qcb[q].state = "READY" => ~Involved(w, q, k)
    /\ q \in k.eject[w] => q \in k.holding[w] \cup k.late[w]
    /\ Once(toWorker[w], "PREEMPT", q)
    /\ q \in running_list => RunningAt(w, q, k)

QueryAssigned(q, k) ==
    /\ \A w \in Workers : PairInv(w, q, k)
    /\ \A v, w \in Workers : Involved(v, q, k) /\ Involved(w, q, k) => v = w
    /\ Fresh(q) => k.executed[q] = 0 /\ \A w \in Workers : wcb[w].query # q
    /\ qcb[q].state = "READY" => Agree(qcb[q].pc, k.executed[q])

Assigned(k) == \A q \in Queries : QueryAssigned(q, k)

\* q is where it was, or leaves the tables.
Keeps(q) ==
    /\ q \in running_list' => /\ q \in running_list
                              /\ qcb'[q].worker = qcb[q].worker
                              /\ qcb'[q].pending = qcb[q].pending
    /\ qcb'[q].state = "READY" => qcb[q].state = "READY" /\ qcb'[q].pc = qcb[q].pc
    /\ Fresh(q)' => Fresh(q)
    /\ \A w \in Workers : wcb'[w].query = q => wcb[w].query = q

\* The channels of w say no more about q than before, and an END is not
\* received in vain.
WireFades(w, q) ==
    /\ ToFades(toWorker[w], toWorker'[w], q)
    /\ FromFades(fromWorker[w], fromWorker'[w], q)
    /\ q \in running_list' /\ Has(fromWorker[w], "END", q)
       => Has(fromWorker'[w], "END", q)

\* w knows no more about q than before: k was its knowledge and l is.
Fades(w, q, k, l) ==
    /\ \/ /\ q \in l.holding[w] <=> q \in k.holding[w]
          /\ q \in l.late[w] <=> q \in k.late[w]
          /\ q \in l.eject[w] <=> q \in k.eject[w]
       \/ q \notin l.holding[w] /\ q \notin l.late[w] /\ q \notin l.eject[w]
    /\ q \in l.holding[w] => Agree(l.position[w][q], k.position[w][q])

\* Steps that leave the Workers' knowledge alone.
LEMMA SameFades ==
    ASSUME NEW w, NEW q, NEW k
    PROVE  Fades(w, q, k, k)
BY DEF Fades, Agree

\* A step that only fades what links w and q involves them only if they were.
LEMMA FadingInvolved ==
    ASSUME NEW w, NEW q, NEW k, NEW l, WireFades(w, q), Fades(w, q, k, l),
           Involved(w, q, l)'
    PROVE  Involved(w, q, k)
BY DEF WireFades, Fades, ToFades, FromFades, Involved

\* Steps that start, move and tell nothing about q.
LEMMA FadedAssigned ==
    ASSUME NEW q \in Queries, NEW k, NEW l, QueryAssigned(q, k), Keeps(q),
           \A w \in Workers : WireFades(w, q) /\ Fades(w, q, k, l),
           l.executed[q] = k.executed[q]
    PROVE  QueryAssigned(q, l)'
<1>1. ASSUME NEW w \in Workers, q \in running_list' PROVE RunningAt(w, q, l)'
  <2>1. /\ q \in running_list /\ qcb'[q].worker = qcb[q].worker
        /\ qcb'[q].pending = qcb[q].pending
    BY <1>1 DEF Keeps
  <2>2. RunningAt(w, q, k)
    BY <2>1 DEF QueryAssigned, PairInv
  <2>3. Involved(w, q, l)' => Involved(w, q, k)
    BY FadingInvolved
  <2> QED
    BY <1>1, <2>1, <2>2, <2>3 DEF RunningAt, WireFades, Fades, ToFades, FromFades, Agree
<1>2. ASSUME NEW w \in Workers PROVE PairInv(w, q, l)'
  BY <1>1, FadingInvolved DEF QueryAssigned, PairInv, Keeps, WireFades, Fades, ToFades
<1> QED
  BY <1>2, FadingInvolved DEF QueryAssigned, Keeps

\* Such steps of the Master, which leave the Workers' knowledge alone.
LEMMA KeptAssigned ==
    ASSUME NEW q \in Queries, NEW k, QueryAssigned(q, k), Keeps(q),
           \A w \in Workers : WireFades(w, q)
    PROVE  QueryAssigned(q, k)'
<1>1. \A w \in Workers : Fades(w, q, k, k)
  BY SameFades
<1> QED
  BY <1>1, FadedAssigned

-----------------------------------------------------------------------------
(* The Master's steps, seen from one query.                                *)

\* The Master sends at most a package about another query.
LEMMA SentFades ==
    ASSUME Typed, NEW q \in Queries,
           UNCHANGED fromWorker,
           \/ UNCHANGED toWorker
           \/ \E v \in Workers, m \in MasterPackages :
                 /\ toWorker' = SentToWorker(v, m)
                 /\ ~(m.op \in {"START", "PREEMPT"} /\ m.q = q)
    PROVE  \A w \in Workers : WireFades(w, q)
<1> SUFFICES ASSUME NEW w \in Workers PROVE WireFades(w, q)
  OBVIOUS
<1>1. toWorker[w] \in Seq(MasterPackages) /\ fromWorker[w] \in Seq(WorkerPackages)
  BY DEF Typed, WireTypeOK
<1>2. FromFades(fromWorker[w], fromWorker[w], q)
  BY <1>1, FromChannelFades
<1>3. ToFades(toWorker[w], toWorker'[w], q)
  <2>1. CASE UNCHANGED toWorker
    BY <1>1, <2>1, ToChannelFades
  <2>2. CASE \E v \in Workers, m \in MasterPackages :
                /\ toWorker' = SentToWorker(v, m)
                /\ ~(m.op \in {"START", "PREEMPT"} /\ m.q = q)
    <3>1. PICK v \in Workers, m \in MasterPackages :
                 /\ toWorker' = SentToWorker(v, m)
                 /\ ~(m.op \in {"START", "PREEMPT"} /\ m.q = q)
      BY <2>2
    <3>2. toWorker'[w] = toWorker[w] \/ toWorker'[w] = Append(toWorker[w], m)
      BY <3>1 DEF SentToWorker, Typed, WireTypeOK
    <3> QED
      BY <1>1, <3>1, <3>2, ToChannelFades
  <2> QED
    BY <2>1, <2>2
<1> QED
  BY <1>2, <1>3 DEF WireFades

\* The Master receives a package; an END of q ends q.
LEMMA ReceivedFades ==
    ASSUME Typed, NEW q \in Queries, NEW v \in Workers, NEW op, Receive(v, op),
           UNCHANGED toWorker,
           op = "END" /\ Head(fromWorker[v]).q = q => q \notin running_list'
    PROVE  \A w \in Workers : WireFades(w, q)
<1> SUFFICES ASSUME NEW w \in Workers PROVE WireFades(w, q)
  OBVIOUS
<1>1. toWorker[w] \in Seq(MasterPackages) /\ fromWorker[w] \in Seq(WorkerPackages)
  BY DEF Typed, WireTypeOK
<1>2. ToFades(toWorker[w], toWorker[w], q)
  BY <1>1, ToChannelFades
<1>3. /\ FromFades(fromWorker[w], fromWorker'[w], q)
      /\ q \in running_list' /\ Has(fromWorker[w], "END", q)
         => Has(fromWorker'[w], "END", q)
  <2>1. CASE w # v
    <3>1. fromWorker'[w] = fromWorker[w]
      BY <2>1 DEF Receive, Typed, WireTypeOK
    <3> QED
      BY <1>1, <3>1, FromChannelFades
  <2>2. CASE w = v
    <3>1. /\ fromWorker[w] # <<>> /\ fromWorker'[w] = Tail(fromWorker[w])
          /\ Head(fromWorker[w]).op = op
      BY <2>2 DEF Receive, Typed, WireTypeOK
    <3>2. /\ FromFades(fromWorker[w], Tail(fromWorker[w]), q)
          /\ Has(fromWorker[w], "END", q) => \/ Has(Tail(fromWorker[w]), "END", q)
                                             \/ Matches(Head(fromWorker[w]), "END", q)
      BY <1>1, <3>1, FromChannelFades
    <3> QED
      BY <2>2, <3>1, <3>2 DEF Matches
  <2> QED
    BY <2>1, <2>2
<1> QED
  BY <1>2, <1>3 DEF WireFades

\* A query of the tables is not fresh, and no query becomes fresh.
LEMMA NotFresh ==
    ASSUME QueryInv, NEW q \in Queries, qcb[q].state # "NONE"
    PROVE  ~Fresh(q)
BY DEF QueryInv, SubmittedOnce, Fresh

\* A query that is fresh after a notice was fresh before it.
LEMMA FreshBefore ==
    ASSUME WireTypeOK, NEW q \in Queries, UNCHANGED <<fromQC, qcClosed>>,
           \/ UNCHANGED toQC
           \/ \E r \in Queries, n \in Notices : toQC' = Notified(r, n),
           Fresh(q)'
    PROVE  Fresh(q)
<1>1. CASE UNCHANGED toQC
  BY <1>1 DEF Fresh
<1>2. CASE \E r \in Queries, n \in Notices : toQC' = Notified(r, n)
  <2>1. PICK r \in Queries, n \in Notices : toQC' = Notified(r, n)
    BY <1>2
  <2>2. /\ \A x \in Queries \ {r} : toQC'[x] = toQC[x]
        /\ qcClosed[r] => toQC'[r] = toQC[r]
        /\ ~qcClosed[r] => toQC'[r] # <<>>
    BY <2>1, NotifiedEffect
  <2> QED
    BY <2>2 DEF Fresh
<1> QED
  BY <1>1, <1>2

\* try_dispatch: the query it starts was nowhere before.
LEMMA DispatchAssigned ==
    ASSUME QueryInv, NEW k, Assigned(k), try_dispatch, NEW q \in Queries,
           UNCHANGED <<fromWorker, fromQC, toQC, qcClosed>>
    PROVE  QueryAssigned(q, k)'
<1> DEFINE r == Head(ready_queue)
           v == Head(idle_list)
<1>0. /\ Typed /\ QueryTables /\ QueryAssigned(q, k)
      /\ Fresh(q)' => Fresh(q)
      /\ QueryTableTypeOK /\ WorkerTableTypeOK
  BY DEF QueryInv, Assigned, Fresh, Typed, MasterTypeOK
<1>1. CASE NothingToDispatch
  <2>1. UNCHANGED <<qcb, running_list, wcb, toWorker>>
    BY <1>1 DEF try_dispatch
  <2>2. Keeps(q)
    BY <1>0, <2>1 DEF Keeps
  <2> QED
    BY <1>0, <2>1, <2>2, SentFades, KeptAssigned
<1>2. CASE ~NothingToDispatch
  <2>1. /\ r \in Queries /\ r \in ToSet(ready_queue) /\ v \in Workers
    BY <1>0, <1>2, TailLists DEF NothingToDispatch, QueryTableTypeOK, WorkerTableTypeOK
  <2>2. qcb[r].state = "READY" /\ r \notin running_list
    BY <1>0, <2>1 DEF QueryTables
  <2> HIDE DEF r, v
  <2>3. CASE DispatchReverted(r, v)
    <3>1. /\ UNCHANGED <<toWorker, running_list>>
          /\ \A x \in Queries \ {r} : qcb'[x] = qcb[x]
          /\ qcb'[r].pc = qcb[r].pc
          /\ \A w \in Workers : wcb'[w].query = wcb[w].query \/ wcb'[w].query = NoQuery
      BY <1>0, <2>1, <2>3 DEF DispatchReverted, QueryTableTypeOK, WorkerTableTypeOK, QueryBlocks,
                              WorkerBlocks
    <3>2. Keeps(q)
      BY <1>0, <2>2, <3>1, WireAssumption DEF Keeps
    <3> QED
      BY <1>0, <3>1, <3>2, SentFades, KeptAssigned
  <2>4. CASE DispatchSent(r, v)
    <3> DEFINE m == [op |-> "START", q |-> r, pc |-> qcb[r].pc]
    <3>1. /\ toWorker' = SentToWorker(v, m)
          /\ running_list' = running_list \cup {r}
          /\ \A x \in Queries \ {r} : qcb'[x] = qcb[x]
          /\ qcb'[r].state = "RUNNING" /\ qcb'[r].worker = v /\ ~qcb'[r].pending
          /\ wcb'[v].query = r
          /\ \A w \in Workers \ {v} : wcb'[w] = wcb[w]
      BY <1>0, <2>1, <2>4 DEF DispatchSent, QueryTableTypeOK, WorkerTableTypeOK, QueryBlocks
    <3>2. qcb[r].pc \in ProgramCounters
      BY <1>0, <2>1 DEF QueryTableTypeOK, QueryBlocks
    <3>3. m \in MasterPackages /\ m.op = "START" /\ m.q = r /\ m.pc = qcb[r].pc
      BY <2>1, <3>2, PackageKinds
    <3> HIDE DEF m
    <3>4. CASE q # r
      <4>1. Keeps(q)
        BY <1>0, <2>1, <3>1, <3>4 DEF Keeps
      <4> QED
        BY <1>0, <2>1, <3>1, <3>3, <3>4, <4>1, SentFades, KeptAssigned
    <3>5. CASE q = r
      <4>1. /\ \A w \in Workers : ~Involved(w, q, k) /\ q \notin k.eject[w]
            /\ ~Fresh(q) /\ ~Fresh(q)'
            /\ Agree(qcb[q].pc, k.executed[q])
        BY <1>0, <2>2, <3>5, NotFresh DEF QueryAssigned, PairInv, Involved
      <4>2. ASSUME NEW w \in Workers
            PROVE  /\ ~Has(toWorker'[w], "PREEMPT", q)
                   /\ Once(toWorker'[w], "START", q)
                   /\ Once(toWorker'[w], "PREEMPT", q)
                   /\ PcIs(toWorker'[w], "START", q, k.executed[q])
                   /\ Has(toWorker'[w], "START", q) => w = v
        <5>1. /\ ~Has(toWorker[w], "START", q) /\ ~Has(toWorker[w], "PREEMPT", q)
          BY <4>1 DEF Involved
        <5>2. /\ Once(toWorker[w], "START", q) /\ Once(toWorker[w], "PREEMPT", q)
              /\ PcIs(toWorker[w], "START", q, k.executed[q])
          BY <5>1 DEF Has, Once, PcIs
        <5>3. CASE toWorker'[w] = toWorker[w]
          BY <5>1, <5>2, <5>3
        <5>4. CASE w = v /\ toWorker'[w] = Append(toWorker[w], m)
          <6>1. toWorker[w] \in Seq(MasterPackages)
            BY <1>0 DEF Typed, WireTypeOK
          <6>2. ~Matches(m, "PREEMPT", q)
            BY <3>3 DEF Matches
          <6>3. Agree(m.pc, k.executed[q])
            BY <3>3, <3>5, <4>1
          <6>4. /\ Has(toWorker'[w], "PREEMPT", q)
                   <=> Has(toWorker[w], "PREEMPT", q) \/ Matches(m, "PREEMPT", q)
                /\ Once(toWorker'[w], "PREEMPT", q)
            BY <3>3, <5>1, <5>2, <5>4, <6>1, <6>2, AppendChannel
          <6>5. /\ Once(toWorker'[w], "START", q)
                /\ PcIs(toWorker'[w], "START", q, k.executed[q])
            BY <3>3, <5>1, <5>2, <5>4, <6>1, <6>3, AppendChannel
          <6> QED
            BY <5>1, <5>4, <6>2, <6>4, <6>5
        <5> QED
          BY <1>0, <3>1, <5>3, <5>4 DEF SentToWorker, Typed, WireTypeOK
      <4>3. ASSUME NEW w \in Workers
            PROVE  /\ q \notin k.holding[w] /\ q \notin k.eject[w] /\ ~About(fromWorker'[w], q)
                   /\ ~Has(fromWorker'[w], "END", q) /\ ~Has(fromWorker'[w], "EVICTED", q)
                   /\ Once(fromWorker'[w], "END", q) /\ EvictedLast(fromWorker'[w], q)
                   /\ PcIs(fromWorker'[w], "EVICTED", q, k.executed[q])
        <5>1. q \notin k.holding[w] /\ q \notin k.eject[w] /\ ~About(fromWorker[w], q)
          BY <4>1 DEF Involved
        <5>2. /\ ~Has(fromWorker[w], "END", q) /\ ~Has(fromWorker[w], "EVICTED", q)
              /\ Once(fromWorker[w], "END", q) /\ EvictedLast(fromWorker[w], q)
              /\ PcIs(fromWorker[w], "EVICTED", q, k.executed[q])
          BY <5>1 DEF About, Has, Once, PcIs, EvictedLast, Matches, Concerns
        <5> QED
          BY <1>0, <5>1, <5>2
      <4>4. ASSUME NEW w \in Workers PROVE PairInv(w, q, k)'
        BY <1>0, <3>1, <3>5, <4>1, <4>2, <4>3 DEF PairInv, RunningAt, Involved
      <4> QED
        BY <3>1, <3>5, <4>1, <4>2, <4>3, <4>4 DEF QueryAssigned, Involved
    <3> QED
      BY <3>4, <3>5
  <2> QED
    BY <1>2, <2>3, <2>4 DEF try_dispatch, r, v
<1> QED
  BY <1>1, <1>2

\* preempt_query_in_exec: the request goes to the worker that has the query,
\* which was not asked before.
LEMMA PreemptAssigned ==
    ASSUME QueryInv, NEW k, Assigned(k), NEW q \in Queries, NEW r \in running_list,
           NEW newBlock \in QueryBlocks, newBlock.state \in {"RUNNING", "CANCELED"},
           newBlock.worker = qcb[r].worker, newBlock.pending = qcb[r].pending,
           preempt_query_in_exec(r, newBlock),
           UNCHANGED <<fromWorker, fromQC, qcClosed, wcb>>
    PROVE  QueryAssigned(q, k)'
<1> DEFINE Block(pending) ==
              [qcb EXCEPT ![r] = [newBlock EXCEPT !.pending = pending]]
           v == newBlock.worker
           m == [op |-> "PREEMPT", q |-> r]
<1>0. /\ Typed /\ WireTypeOK /\ QueryTables /\ QueryAssigned(q, k) /\ QueryTableTypeOK
      /\ worker_list \subseteq Workers
      /\ r \in Queries
  BY DEF QueryInv, Assigned, Typed, MasterTypeOK, QueryTables, WorkerTableTypeOK
<1>1. ASSUME NEW pending \in BOOLEAN, qcb' = Block(pending)
      PROVE  /\ qcb'[r].state \in {"RUNNING", "CANCELED"}
             /\ qcb'[r].worker = qcb[r].worker /\ qcb'[r].pending = pending
             /\ \A x \in Queries \ {r} : qcb'[x] = qcb[x]
  BY <1>0, <1>1 DEF QueryTableTypeOK, QueryBlocks
<1>2. CASE /\ \/ newBlock.pending /\ qcb' = Block(TRUE)
              \/ ~newBlock.pending /\ qcb' = Block(FALSE)
           /\ UNCHANGED <<running_list, toQC, toWorker>>
  <2>1. qcb[r].pending \in BOOLEAN
    BY <1>0 DEF QueryTableTypeOK, QueryBlocks
  <2>2. Keeps(q)
    BY <1>0, <1>1, <1>2, <2>1 DEF Keeps, Fresh
  <2> QED
    BY <1>0, <1>2, <2>2, SentFades, KeptAssigned
<1>3. CASE FinalizeWithError(r) /\ UNCHANGED toWorker
  <2>1. /\ toQC' = Notified(r, "FIN_DESCONEXION")
        /\ running_list' = running_list \ {r}
        /\ qcb'[r].state = "NONE"
        /\ \A x \in Queries \ {r} : qcb'[x] = qcb[x]
    BY <1>0, <1>3, CleanupTables DEF FinalizeWithError, cleanup_query_resources
  <2>2. Fresh(q)' => Fresh(q)
    BY <1>0, <2>1, FreshBefore DEF Notices
  <2>3. Keeps(q)
    BY <1>0, <2>1, <2>2 DEF Keeps
  <2> QED
    BY <1>0, <1>3, <2>3, SentFades, KeptAssigned
<1>4. CASE /\ ~newBlock.pending /\ v \in worker_list
           /\ qcb' = Block(TRUE) /\ toWorker' = SentToWorker(v, m)
           /\ UNCHANGED <<running_list, toQC>>
  <2>0. v \in Workers /\ m \in MasterPackages /\ m.op = "PREEMPT" /\ m.q = r
    BY <1>0, <1>4 DEF MasterPackages
  <2>1. CASE q # r
    <3>1. Keeps(q)
      BY <1>0, <1>1, <1>4, <2>1 DEF Keeps, Fresh
    <3> QED
      BY <1>0, <1>4, <2>0, <2>1, <3>1, SentFades, KeptAssigned
  <2>2. CASE q = r
    <3> HIDE DEF v, m
    <3>1. /\ q \in running_list /\ ~qcb[q].pending /\ qcb[q].worker = v
          /\ q \in running_list' /\ qcb'[q].pending /\ qcb'[q].worker = v
          /\ qcb[q].state # "NONE" /\ qcb'[q].state # "READY"
      BY <1>0, <1>1, <1>4, <2>2 DEF v, QueryTables
    <3>2. ~Fresh(q) /\ ~Fresh(q)'
      BY <1>0, <1>4, <3>1, NotFresh DEF Fresh
    <3>3. ASSUME NEW w \in Workers
          PROVE  /\ Has(toWorker'[w], "START", q) => Has(toWorker[w], "START", q)
                 /\ Once(toWorker'[w], "START", q)
                 /\ Once(toWorker'[w], "PREEMPT", q)
                 /\ PcIs(toWorker'[w], "START", q, k.executed[q])
                 /\ Has(toWorker'[w], "PREEMPT", q) => w = v
      <4>1. /\ ~Has(toWorker[w], "PREEMPT", q)
            /\ Once(toWorker[w], "START", q) /\ Once(toWorker[w], "PREEMPT", q)
            /\ PcIs(toWorker[w], "START", q, k.executed[q])
        BY <1>0, <3>1 DEF QueryAssigned, PairInv, RunningAt
      <4>2. CASE toWorker'[w] = toWorker[w]
        BY <4>1, <4>2
      <4>3. CASE w = v /\ toWorker'[w] = Append(toWorker[w], m)
        <5>1. toWorker[w] \in Seq(MasterPackages) /\ ~Matches(m, "START", q)
          BY <1>0, <2>0 DEF WireTypeOK, Matches
        <5>2. Once(toWorker'[w], "PREEMPT", q)
          BY <2>0, <4>1, <4>3, <5>1, AppendChannel
        <5>3. /\ Has(toWorker'[w], "START", q) <=> Has(toWorker[w], "START", q)
              /\ Once(toWorker'[w], "START", q)
              /\ PcIs(toWorker'[w], "START", q, k.executed[q])
          BY <2>0, <4>1, <4>3, <5>1, AppendChannel
        <5> QED
          BY <4>3, <5>2, <5>3
      <4> QED
        BY <1>0, <1>4, <4>2, <4>3 DEF SentToWorker, WireTypeOK, v, m
    <3>4. ASSUME NEW w \in Workers
          PROVE  /\ PairInv(w, q, k)'
                 /\ Involved(w, q, k)' => w = v
      <4>1. PairInv(w, q, k) /\ RunningAt(w, q, k)
        BY <1>0, <3>1 DEF QueryAssigned, PairInv
      <4>2. Involved(w, q, k)' => w = v
        BY <1>0, <3>1, <3>3, <4>1 DEF RunningAt, Involved
      <4>3. RunningAt(w, q, k)'
        BY <1>0, <3>1, <3>3, <4>1, <4>2 DEF RunningAt
      <4> QED
        BY <1>0, <3>1, <3>2, <3>3, <4>1, <4>2, <4>3 DEF PairInv
    <3> QED
      BY <2>0, <3>1, <3>2, <3>4 DEF QueryAssigned
  <2> QED
    BY <2>1, <2>2
<1> QED
  BY <1>2, <1>3, <1>4 DEF preempt_query_in_exec, EvictionPending

\* The end of a query is a query that leaves the tables.
LEMMA CleanupKeeps ==
    ASSUME QueryInv, NEW q \in Queries, NEW r \in Queries, cleanup_query_resources(r),
           \/ UNCHANGED toQC
           \/ \E n \in Notices : toQC' = Notified(r, n),
           UNCHANGED <<fromQC, qcClosed>>,
           \A w \in Workers : wcb'[w].query \in {wcb[w].query, NoQuery}
    PROVE  Keeps(q) /\ r \notin running_list'
<1>0. WireTypeOK /\ QueryTableTypeOK /\ QueryTables
  BY DEF QueryInv, Typed, MasterTypeOK
<1>1. /\ qcb'[r].state = "NONE"
      /\ \A x \in Queries \ {r} : qcb'[x] = qcb[x]
      /\ running_list' = running_list \ {r}
  BY <1>0, CleanupTables DEF cleanup_query_resources
<1>2. Fresh(q)' => Fresh(q)
  BY <1>0, FreshBefore
<1>3. \A w \in Workers : wcb'[w].query = q => wcb[w].query = q
  BY WireAssumption
<1> QED
  BY <1>1, <1>2, <1>3 DEF Keeps

\* Steps that move no query.
LEMMA SameKeeps ==
    ASSUME QueryInv, NEW q \in Queries, UNCHANGED <<qcb, running_list>>,
           \/ UNCHANGED toQC
           \/ \E r \in Queries, n \in Notices : toQC' = Notified(r, n),
           UNCHANGED <<fromQC, qcClosed>>,
           \A w \in Workers : wcb'[w].query \in {wcb[w].query, NoQuery}
    PROVE  Keeps(q)
<1>1. Fresh(q)' => Fresh(q)
  BY FreshBefore DEF QueryInv, Typed
<1>2. \A w \in Workers : wcb'[w].query = q => wcb[w].query = q
  BY WireAssumption
<1> QED
  BY <1>1, <1>2 DEF Keeps

\* The thread of a Query Control keeps the assignment of every query.
LEMMA QueryThreadAssigned ==
    ASSUME QueryInv, NEW k, Assigned(k), NEW q \in Queries, NEW r \in Queries,
           QueryThread(r)
    PROVE  QueryAssigned(q, k)'
<1>0. /\ Typed /\ WireTypeOK /\ QueryTables /\ QueryAssigned(q, k) /\ QueryTableTypeOK
  BY DEF QueryInv, Assigned, Typed, MasterTypeOK
<1>1. CASE manage_query_file_path(r)
  <2>1. /\ fromQC[r] # <<>>
        /\ fromQC' = [fromQC EXCEPT ![r] = Tail(@)]
        /\ toQC' = Notified(r, "OK")
        /\ UNCHANGED <<running_list, wcb, toWorker, fromWorker, qcClosed>>
    BY <1>1 DEF manage_query_file_path, workerTable
  <2>2. /\ qcb'[r].state = "READY" /\ qcb'[r].pc = 0
        /\ \A x \in Queries \ {r} : qcb'[x] = qcb[x]
    BY <1>0, <1>1 DEF manage_query_file_path, QueryTableTypeOK
  <2>3. /\ \A x \in Queries \ {r} : toQC'[x] = toQC[x]
        /\ qcClosed[r] => toQC'[r] = toQC[r]
        /\ ~qcClosed[r] => toQC'[r] # <<>>
    <3>1. "OK" \in Notices
      BY DEF Notices
    <3> QED
      BY <1>0, <2>1, <3>1, NotifiedEffect
  <2>4. /\ \A x \in Queries \ {r} : fromQC'[x] = fromQC[x]
        /\ fromQC'[r] = <<>>
    BY <1>0, <2>1 DEF QueryInv, SubmittedOnce, WireTypeOK
  <2>5. \A w \in Workers : WireFades(w, q)
    BY <1>0, <2>1, SentFades
  <2>6. CASE q # r
    <3>1. Keeps(q)
      BY <1>0, <2>1, <2>2, <2>3, <2>4, <2>6 DEF Keeps, Fresh
    <3> QED
      BY <1>0, <2>5, <3>1, KeptAssigned
  <2>7. CASE q = r
    <3>1. Fresh(q) /\ ~Fresh(q)' /\ q \notin running_list'
      BY <1>0, <2>1, <2>3, <2>4, <2>7 DEF Fresh, QueryInv, SubmittedOnce, QueryTables
    <3>2. \A w \in Workers : ~Involved(w, q, k) /\ ~Involved(w, q, k)'
      BY <1>0, <2>5, <3>1, SameFades, FadingInvolved DEF QueryAssigned, PairInv
    <3>3. Agree(qcb'[q].pc, k.executed[q])
      BY <1>0, <2>2, <2>7, <3>1 DEF QueryAssigned, Agree
    <3> QED
      BY <1>0, <2>1, <2>2, <2>7, <3>1, <3>2, <3>3 DEF QueryAssigned, PairInv
  <2> QED
    BY <2>6, <2>7
<1>2. CASE QueryThreadDispatch(r)
  BY <1>2, DispatchAssigned DEF QueryThreadDispatch
<1>3. CASE handle_query_control_disconnection(r)
  <2>1. UNCHANGED <<fromQC, qcClosed, fromWorker, wcb>>
    BY <1>3 DEF handle_query_control_disconnection, workerTable
  <2>2. CASE UNCHANGED <<queryTable, toWorker, toQC>>
    <3>1. Keeps(q)
      BY <1>0, <2>1, <2>2, SameKeeps DEF queryTable
    <3> QED
      BY <1>0, <2>1, <2>2, <3>1, SentFades, KeptAssigned
  <2>3. CASE FinalizeWithError(r) /\ UNCHANGED toWorker
    <3>1. Keeps(q)
      BY <1>0, <2>1, <2>3, CleanupKeeps DEF FinalizeWithError, Notices
    <3> QED
      BY <1>0, <2>1, <2>3, <3>1, SentFades, KeptAssigned
  <2>4. CASE /\ qcb[r].state = "RUNNING"
             /\ preempt_query_in_exec(r, [qcb[r] EXCEPT !.state = "CANCELED"])
    <3> DEFINE newBlock == [qcb[r] EXCEPT !.state = "CANCELED"]
    <3>1. /\ newBlock \in QueryBlocks /\ newBlock.state = "CANCELED"
          /\ newBlock.worker = qcb[r].worker /\ newBlock.pending = qcb[r].pending
      BY <1>0 DEF QueryTableTypeOK, QueryBlocks, QueryStates
    <3>2. r \in running_list
      BY <1>0, <2>4 DEF QueryTables
    <3> HIDE DEF newBlock
    <3>3. preempt_query_in_exec(r, newBlock)
      BY <2>4 DEF newBlock
    <3> QED
      BY <2>1, <3>1, <3>2, <3>3, PreemptAssigned
  <2> QED
    BY <1>3, <2>2, <2>3, <2>4 DEF handle_query_control_disconnection
<1> QED
  BY <1>1, <1>2, <1>3 DEF QueryThread

\* An eviction response is the last trace of the query at its worker, and
\* carries the instructions executed.
LEMMA EvictedAssigned ==
    ASSUME QueryInv, NEW k, Assigned(k), NEW v \in Workers, Receive(v, "EVICTED"),
           NEW q \in running_list, q = Head(fromWorker[v]).q,
           q \notin running_list', qcb'[q].state = "READY",
           qcb'[q].pc = Head(fromWorker[v]).pc,
           UNCHANGED <<toQC, toWorker>>
    PROVE  QueryAssigned(q, k)'
<1> DEFINE s == fromWorker[v]
<1>0. /\ Typed /\ WireTypeOK /\ q \in Queries /\ qcb[q].state # "NONE"
      /\ UNCHANGED <<fromQC, qcClosed>>
  BY DEF QueryInv, QueryTables, Typed, Receive
<1>1. /\ s \in Seq(WorkerPackages) /\ s # <<>>
      /\ Matches(Head(s), "EVICTED", q) /\ Concerns(Head(s), q)
      /\ ~Matches(Head(s), "END", q)
      /\ fromWorker'[v] = Tail(s)
  BY <1>0 DEF Receive, WireTypeOK, Matches, Concerns
<1>2. QueryAssigned(q, k) /\ RunningAt(v, q, k)
  BY <1>0 DEF Assigned, QueryAssigned, PairInv
<1> HIDE DEF s
<1>3. Has(s, "EVICTED", q) /\ About(s, q) /\ ~About(Tail(s), q)
  BY <1>1, <1>2, TailChannel DEF RunningAt, s
<1>4. ~Has(s, "END", q)
  <2>1. ~Has(Tail(s), "END", q)
    BY <1>3 DEF About, Has, Matches, Concerns
  <2> QED
    BY <1>1, <2>1, TailChannel
<1>5. Agree(Head(s).pc, k.executed[q])
  <2>1. PcIs(s, "EVICTED", q, k.executed[q])
    BY <1>2, <1>4 DEF RunningAt, s
  <2>2. 1 \in DOMAIN s /\ Head(s) = s[1]
    BY <1>1, LenProperties, EmptySeq
  <2> QED
    BY <1>1, <2>1, <2>2 DEF PcIs
<1>6. \A w \in Workers : WireFades(w, q)
  BY <1>0, ReceivedFades
<1>7. ASSUME NEW w \in Workers PROVE ~Involved(w, q, k)'
  <2>1. CASE w = v
    BY <1>0, <1>1, <1>2, <1>3, <2>1 DEF RunningAt, Involved, s
  <2>2. CASE w # v
    <3>1. Involved(v, q, k)
      BY <1>3 DEF Involved, s
    <3>2. ~Involved(w, q, k)
      BY <1>2, <2>2, <3>1 DEF QueryAssigned
    <3> QED
      BY <1>6, <3>2, SameFades, FadingInvolved
  <2> QED
    BY <2>1, <2>2
<1>8. ~Fresh(q)'
  BY <1>0, NotFresh DEF Fresh
<1>9. ASSUME NEW w \in Workers PROVE PairInv(w, q, k)'
  BY <1>0, <1>2, <1>6, <1>7 DEF QueryAssigned, PairInv, WireFades, ToFades
<1> QED
  BY <1>0, <1>5, <1>7, <1>8, <1>9 DEF QueryAssigned, s

\* The thread of a Worker connection keeps the assignment of every query.
LEMMA WorkerThreadAssigned ==
    ASSUME QueryInv, NEW k, Assigned(k), NEW q \in Queries, NEW w \in Workers,
           WorkerThread(w)
    PROVE  QueryAssigned(q, k)'
<1> DEFINE r == Head(fromWorker[w]).q
<1>0. /\ Typed /\ WireTypeOK /\ QueryTables /\ QueryAssigned(q, k)
      /\ QueryTableTypeOK /\ WorkerTableTypeOK
      /\ running_list \subseteq Queries
  BY DEF QueryInv, Assigned, Typed, MasterTypeOK, QueryTables
<1>1. ASSUME FreeWorker(w) \/ cleanup_worker_resources(w)
             \/ UNCHANGED wcb
             \/ wcb' = [wcb EXCEPT ![w] = [query |-> NoQuery, state |-> "IDLE"]]
      PROVE  \A v \in Workers : wcb'[v].query \in {wcb[v].query, NoQuery}
  BY <1>0, <1>1 DEF FreeWorker, cleanup_worker_resources, WorkerTableTypeOK
<1>2. CASE create_worker(w)
  <2>1. Keeps(q)
    BY <1>0, <1>1, <1>2, SameKeeps DEF create_worker, Receive, queryTable
  <2> QED
    BY <1>0, <1>2, <2>1, ReceivedFades, KeptAssigned DEF create_worker
<1>3. CASE SendAck(w)
  <2>1. Keeps(q)
    BY <1>0, <1>1, <1>3, SameKeeps DEF SendAck, queryTable, workerTable
  <2>2. \/ UNCHANGED toWorker
        \/ toWorker' = SentToWorker(w, [op |-> "ACK"])
    BY <1>3 DEF SendAck
  <2>3. [op |-> "ACK"] \in MasterPackages /\ [op |-> "ACK"].op = "ACK"
    BY DEF MasterPackages
  <2>4. UNCHANGED fromWorker
    BY <1>3 DEF SendAck
  <2> QED
    BY <1>0, <2>1, <2>2, <2>3, <2>4, SentFades, KeptAssigned
<1>4. CASE WorkerThreadDispatch(w)
  BY <1>4, DispatchAssigned DEF WorkerThreadDispatch
<1>5. CASE manage_read_message_from_worker(w)
  <2>1. Keeps(q)
    <3>1. UNCHANGED toQC \/ \E x \in Queries, n \in Notices : toQC' = Notified(x, n)
      BY <1>0, <1>5 DEF manage_read_message_from_worker, Notices
    <3> QED
      BY <1>0, <1>1, <1>5, <3>1, SameKeeps
         DEF manage_read_message_from_worker, Receive, queryTable, workerTable
  <2> QED
    BY <1>0, <1>5, <2>1, ReceivedFades, KeptAssigned DEF manage_read_message_from_worker
<1>6. CASE manage_worker_evict_response(w)
  <2>1. /\ Receive(w, "EVICTED")
        /\ UNCHANGED <<toQC, toWorker, fromQC, qcClosed>>
        /\ \A v \in Workers : wcb'[v].query \in {wcb[v].query, NoQuery}
    BY <1>1, <1>6 DEF manage_worker_evict_response, Receive
  <2>2. \A v \in Workers : WireFades(v, q)
    BY <1>0, <2>1, ReceivedFades
  <2>3. CASE UNCHANGED queryTable
    <3>1. Keeps(q)
      BY <1>0, <2>1, <2>3, SameKeeps DEF queryTable
    <3> QED
      BY <1>0, <2>2, <3>1, KeptAssigned
  <2>4. CASE r \in running_list /\ cleanup_query_resources(r)
    <3>1. Keeps(q)
      BY <1>0, <2>1, <2>4, CleanupKeeps
    <3> QED
      BY <1>0, <2>2, <3>1, KeptAssigned
  <2>5. CASE /\ r \in running_list
             /\ qcb' = [qcb EXCEPT ![r] = RequeuedBlock(@, Head(fromWorker[w]).pc)]
             /\ running_list' = running_list \ {r}
    <3>1. /\ qcb'[r].state = "READY" /\ qcb'[r].pc = Head(fromWorker[w]).pc
          /\ \A x \in Queries \ {r} : qcb'[x] = qcb[x]
      BY <1>0, <2>5 DEF RequeuedBlock, QueryTableTypeOK, QueryBlocks
    <3>2. CASE q = r
      <4>1. q \in running_list /\ q \notin running_list'
        BY <2>5, <3>2
      <4> QED
        BY <2>1, <3>1, <3>2, <4>1, EvictedAssigned
    <3>3. CASE q # r
      <4>1. Fresh(q)' => Fresh(q)
        BY <2>1 DEF Fresh
      <4>2. Keeps(q)
        BY <1>0, <2>1, <2>5, <3>1, <3>3, <4>1, WireAssumption DEF Keeps
      <4> QED
        BY <1>0, <2>2, <4>2, KeptAssigned
    <3> QED
      BY <3>2, <3>3
  <2> QED
    BY <1>6, <2>3, <2>4, <2>5 DEF manage_worker_evict_response
<1>7. CASE manage_worker_end_query(w)
  <2>1. /\ Receive(w, "END")
        /\ UNCHANGED <<toWorker, fromQC, qcClosed>>
        /\ \A v \in Workers : wcb'[v].query \in {wcb[v].query, NoQuery}
    BY <1>1, <1>7 DEF manage_worker_end_query, Receive
  <2>2. Keeps(q) /\ r \notin running_list'
    <3>1. CASE r \notin running_list /\ UNCHANGED <<queryTable, toQC>>
      BY <1>0, <2>1, <3>1, SameKeeps DEF queryTable
    <3>2. CASE /\ r \in running_list /\ toQC' = Notified(r, "END_QUERY")
               /\ cleanup_query_resources(r)
      BY <1>0, <2>1, <3>2, CleanupKeeps DEF Notices
    <3> QED
      BY <1>7, <3>1, <3>2 DEF manage_worker_end_query
  <2> QED
    BY <1>0, <2>1, <2>2, ReceivedFades, KeptAssigned
<1>8. CASE handle_error_from_storage(w)
  <2>1. /\ Receive(w, "ERROR")
        /\ UNCHANGED <<toWorker, fromQC, qcClosed>>
        /\ \A v \in Workers : wcb'[v].query \in {wcb[v].query, NoQuery}
    BY <1>1, <1>8 DEF handle_error_from_storage, Receive
  <2>2. Keeps(q)
    <3>1. CASE UNCHANGED <<queryTable, toQC>>
      BY <1>0, <2>1, <3>1, SameKeeps DEF queryTable
    <3>2. CASE wcb[w].query \in running_list /\ FinalizeWithError(wcb[w].query)
      BY <1>0, <2>1, <3>2, CleanupKeeps DEF FinalizeWithError, Notices
    <3> QED
      BY <1>8, <3>1, <3>2 DEF handle_error_from_storage
  <2> QED
    BY <1>0, <2>1, <2>2, ReceivedFades, KeptAssigned
<1>9. CASE handle_worker_disconnection(w)
  <2>1. /\ UNCHANGED <<toWorker, fromWorker, fromQC, qcClosed>>
        /\ \A v \in Workers : wcb'[v].query \in {wcb[v].query, NoQuery}
    BY <1>1, <1>9 DEF handle_worker_disconnection, workerTable
  <2>2. Keeps(q)
    <3>1. CASE UNCHANGED <<queryTable, toQC>>
      BY <1>0, <2>1, <3>1, SameKeeps DEF queryTable
    <3>2. CASE wcb[w].query \in ToSet(query_list) /\ FinalizeWithError(wcb[w].query)
      <4>1. wcb[w].query \in Queries
        BY <1>0, <3>2 DEF QueryTables
      <4> QED
        BY <1>0, <2>1, <3>2, <4>1, CleanupKeeps DEF FinalizeWithError, Notices
    <3> QED
      BY <1>9, <3>1, <3>2 DEF handle_worker_disconnection, EndQueryOf
  <2> QED
    BY <1>0, <2>1, <2>2, SentFades, KeptAssigned
<1> QED
  BY <1>2, <1>3, <1>4, <1>5, <1>6, <1>7, <1>8, <1>9 DEF WorkerThread

\* The aging thread keeps the assignment of every query.
LEMMA AgingThreadAssigned ==
    ASSUME QueryInv, NEW k, Assigned(k), NEW q \in Queries, AgingThread
    PROVE  QueryAssigned(q, k)'
<1>0. /\ Typed /\ WireTypeOK /\ QueryTables /\ QueryAssigned(q, k) /\ QueryTableTypeOK
  BY DEF QueryInv, Assigned, Typed, MasterTypeOK
<1>1. CASE AgeReadyQueue
  <2>1. /\ UNCHANGED <<running_list, wcb, toWorker, fromWorker, toQC, fromQC, qcClosed>>
        /\ \A x \in Queries : /\ qcb'[x].state = qcb[x].state
                              /\ qcb'[x].worker = qcb[x].worker
                              /\ qcb'[x].pc = qcb[x].pc
                              /\ qcb'[x].pending = qcb[x].pending
    <3>1. PICK f : qcb' = [x \in Queries |-> [qcb[x] EXCEPT !.priority = f[x]]]
      BY <1>1 DEF AgeReadyQueue
    <3> QED
      BY <1>0, <1>1, <3>1 DEF AgeReadyQueue, wire, workerTable, QueryTableTypeOK, QueryBlocks
  <2>2. Keeps(q)
    BY <1>0, <2>1 DEF Keeps, Fresh
  <2> QED
    BY <1>0, <2>1, <2>2, SentFades, KeptAssigned
<1>2. CASE check_preemption
  <2>1. UNCHANGED <<fromWorker, fromQC, qcClosed, wcb>>
    BY <1>2 DEF check_preemption, workerTable
  <2>2. CASE UNCHANGED <<queryTable, toWorker, toQC>>
    <3>1. Keeps(q)
      BY <1>0, <2>1, <2>2, SameKeeps DEF queryTable
    <3> QED
      BY <1>0, <2>1, <2>2, <3>1, SentFades, KeptAssigned
  <2>3. CASE \E r \in running_list : preempt_query_in_exec(r, qcb[r])
    <3>1. PICK r \in running_list : preempt_query_in_exec(r, qcb[r])
      BY <2>3
    <3>2. qcb[r] \in QueryBlocks /\ qcb[r].state \in {"RUNNING", "CANCELED"}
      BY <1>0 DEF QueryTableTypeOK, QueryTables
    <3> QED
      BY <2>1, <3>1, <3>2, PreemptAssigned
  <2> QED
    BY <1>2, <2>2, <2>3 DEF check_preemption
<1> QED
  BY <1>1, <1>2 DEF AgingThread

-----------------------------------------------------------------------------
(* The Workers' steps, seen from one query.                                *)

\* The tables and the connections of the Query Controls stay as they are.
Outside == UNCHANGED <<qcb, running_list, wcb, fromQC, toQC, qcClosed>>

\* A step outside the Master moves no query.
LEMMA OutsideKeeps ==
    ASSUME Outside, NEW q
    PROVE  Keeps(q)
BY DEF Outside, Keeps, Fresh

\* A Worker that takes a package knows no more from its channels.
LEMMA TakenFades ==
    ASSUME WireTypeOK, NEW q, NEW v \in Workers, toWorker[v] # <<>>,
           toWorker' = [toWorker EXCEPT ![v] = Tail(@)], UNCHANGED fromWorker
    PROVE  \A w \in Workers : WireFades(w, q)
<1> SUFFICES ASSUME NEW w \in Workers PROVE WireFades(w, q)
  OBVIOUS
<1>1. toWorker[w] \in Seq(MasterPackages) /\ fromWorker[w] \in Seq(WorkerPackages)
  BY DEF WireTypeOK
<1>2. FromFades(fromWorker[w], fromWorker'[w], q)
  BY <1>1, FromChannelFades
<1>3. ToFades(toWorker[w], toWorker'[w], q)
  <2>1. CASE w = v
    <3>1. toWorker'[w] = Tail(toWorker[w])
      BY <2>1 DEF WireTypeOK
    <3> QED
      BY <1>1, <2>1, <3>1, ToChannelFades
  <2>2. CASE w # v
    <3>1. toWorker'[w] = toWorker[w]
      BY <2>2 DEF WireTypeOK
    <3> QED
      BY <1>1, <3>1, ToChannelFades
  <2> QED
    BY <2>1, <2>2
<1> QED
  BY <1>2, <1>3 DEF WireFades

\* A Worker that speaks of another query.
LEMMA SaidFades ==
    ASSUME WireTypeOK, NEW q, NEW v \in Workers, NEW p \in Seq(WorkerPackages),
           fromWorker' = [fromWorker EXCEPT ![v] = @ \o p], ~About(p, q),
           \A w \in Workers : ToFades(toWorker[w], toWorker'[w], q)
    PROVE  \A w \in Workers : WireFades(w, q)
<1> SUFFICES ASSUME NEW w \in Workers PROVE WireFades(w, q)
  OBVIOUS
<1>1. fromWorker[w] \in Seq(WorkerPackages)
  BY DEF WireTypeOK
<1>2. /\ FromFades(fromWorker[w], fromWorker'[w], q)
      /\ Has(fromWorker[w], "END", q) => Has(fromWorker'[w], "END", q)
  <2>1. CASE w = v
    <3>1. fromWorker'[w] = fromWorker[w] \o p
      BY <2>1 DEF WireTypeOK
    <3> QED
      BY <1>1, <3>1, FromChannelFades
  <2>2. CASE w # v
    <3>1. fromWorker'[w] = fromWorker[w]
      BY <2>2 DEF WireTypeOK
    <3> QED
      BY <1>1, <3>1, FromChannelFades
  <2> QED
    BY <2>1, <2>2
<1> QED
  BY <1>2 DEF WireFades

\* The handshake and the end of a connection say nothing about a query.
LEMMA LinkFades ==
    ASSUME WireTypeOK, NEW q, NEW v \in Workers,
           Connect(v) \/ Accepted(v) \/ Refused(v) \/ Crash(v)
    PROVE  \A w \in Workers : WireFades(w, q)
<1> SUFFICES ASSUME NEW w \in Workers PROVE WireFades(w, q)
  OBVIOUS
<1>0. toWorker[w] \in Seq(MasterPackages) /\ fromWorker[w] \in Seq(WorkerPackages)
  BY DEF WireTypeOK
<1>1. toWorker'[w] \in {toWorker[w], Tail(toWorker[w]), <<>>}
  BY DEF Connect, Accepted, Refused, Crash, CloseLink, WireTypeOK
<1>2. toWorker'[w] = Tail(toWorker[w]) => \/ toWorker[w] # <<>>
                                          \/ toWorker'[w] \in {toWorker[w], <<>>}
  BY DEF Connect, Accepted, Answered, Refused, Crash, CloseLink, WireTypeOK
<1>3. ToFades(toWorker[w], toWorker'[w], q)
  BY <1>0, <1>1, <1>2, ToChannelFades
<1>4. \/ fromWorker'[w] = fromWorker[w]
      \/ fromWorker'[w] = Append(fromWorker[w], [op |-> "HANDSHAKE"])
  BY DEF Connect, Accepted, Refused, Crash, CloseLink, WireTypeOK
<1>5. [op |-> "HANDSHAKE"] \in WorkerPackages /\ ~Concerns([op |-> "HANDSHAKE"], q)
  BY DEF WorkerPackages, Concerns
<1> QED
  BY <1>0, <1>3, <1>4, <1>5, FromChannelFades DEF WireFades

\* A worker that has nothing of q satisfies whatever is said of it.
LEMMA UninvolvedPair ==
    ASSUME NEW w, NEW q, NEW l, ~Involved(w, q, l)', q \notin l.eject[w]
    PROVE  PairInv(w, q, l)'
<1>1. /\ ~Has(toWorker'[w], "START", q) /\ ~Has(toWorker'[w], "PREEMPT", q)
      /\ q \notin l.holding[w] /\ q \notin l.late[w] /\ ~About(fromWorker'[w], q)
  BY DEF Involved
<1>2. /\ Once(toWorker'[w], "START", q) /\ Once(toWorker'[w], "PREEMPT", q)
      /\ \A pc : PcIs(toWorker'[w], "START", q, pc)
  BY <1>1 DEF Has, Once, PcIs
<1>3. /\ ~Has(fromWorker'[w], "END", q) /\ ~Has(fromWorker'[w], "EVICTED", q)
  BY <1>1 DEF About, Has, Matches, Concerns
<1>4. /\ Once(fromWorker'[w], "END", q) /\ EvictedLast(fromWorker'[w], q)
      /\ \A pc : PcIs(fromWorker'[w], "EVICTED", q, pc)
  BY <1>3 DEF Has, Once, PcIs, EvictedLast
<1>5. RunningAt(w, q, l)'
  BY <1>1, <1>2, <1>3, <1>4 DEF RunningAt, Involved
<1> QED
  BY <1>1, <1>2, <1>5 DEF PairInv, Involved

\* A step of the one worker that has something of q, which no other gains.
LEMMA OwnStep ==
    ASSUME NEW q \in Queries, NEW v \in Workers, NEW k, NEW l, QueryAssigned(q, k),
           Involved(v, q, k), Outside,
           \A w \in Workers \ {v} : WireFades(w, q) /\ Fades(w, q, k, l),
           Once(toWorker'[v], "PREEMPT", q),
           q \in l.eject[v] => q \in l.holding[v] \cup l.late[v],
           q \in running_list => RunningAt(v, q, l)'
    PROVE  QueryAssigned(q, l)'
<1>1. ~Fresh(q) /\ qcb[q].state # "READY"
  BY DEF QueryAssigned, PairInv
<1>2. ~Fresh(q)' /\ qcb'[q].state # "READY"
  BY <1>1 DEF Fresh, Outside
<1>3. ASSUME NEW w \in Workers \ {v} PROVE ~Involved(w, q, l)' /\ PairInv(w, q, l)'
  <2>1. ~Involved(w, q, k)
    BY DEF QueryAssigned
  <2>2. q \notin k.eject[w]
    BY <2>1 DEF QueryAssigned, PairInv, Involved
  <2>3. ~Involved(w, q, l)'
    BY <2>1, FadingInvolved
  <2>4. q \notin l.eject[w]
    BY <2>2 DEF Fades
  <2> QED
    BY <2>3, <2>4, UninvolvedPair
<1>4. PairInv(v, q, l)'
  BY <1>2 DEF PairInv, Outside
<1> QED
  BY <1>2, <1>3, <1>4 DEF QueryAssigned

\* The Worker of the START takes it.
LEMMA StartedAssigned ==
    ASSUME WireTypeOK, NEW q \in Queries, NEW v \in Workers, NEW k, NEW l,
           QueryAssigned(q, k), Outside, toWorker[v] # <<>>,
           Matches(Head(toWorker[v]), "START", q),
           toWorker' = [toWorker EXCEPT ![v] = Tail(@)], UNCHANGED fromWorker,
           \A w \in Workers \ {v} : Fades(w, q, k, l),
           l.position[v][q] = Head(toWorker[v]).pc,
           q \notin l.eject[v], q \notin l.late[v], l.executed[q] = k.executed[q]
    PROVE  QueryAssigned(q, l)'
<1> DEFINE s == toWorker[v]
           m == Head(s)
<1>1. /\ s \in Seq(MasterPackages) /\ s # <<>> /\ toWorker'[v] = Tail(s)
      /\ Matches(m, "START", q)
  BY DEF WireTypeOK
<1> HIDE DEF s, m
<1>2. /\ Has(s, "START", q)
      /\ \A op : /\ Has(Tail(s), op, q) => Has(s, op, q)
                 /\ Once(s, op, q) => Once(Tail(s), op, q)
      /\ Once(s, "START", q) => ~Has(Tail(s), "START", q)
  BY <1>1, TailChannel DEF m
<1>3. Involved(v, q, k) /\ PairInv(v, q, k)
  BY <1>2 DEF Involved, QueryAssigned, s
<1>4. Once(toWorker'[v], "PREEMPT", q)
  BY <1>1, <1>2, <1>3 DEF PairInv, s
<1>5. ASSUME q \in running_list PROVE RunningAt(v, q, l)'
  <2>1. RunningAt(v, q, k)
    BY <1>3, <1>5 DEF PairInv
  <2>2. qcb'[q].worker = v
    BY <1>3, <2>1 DEF RunningAt, Outside
  <2>3. PcIs(s, "START", q, k.executed[q]) /\ Once(s, "START", q)
    BY <2>1 DEF RunningAt, s
  <2>4. ~Has(Tail(s), "START", q)
    BY <1>2, <2>3
  <2>5. Once(Tail(s), "START", q) /\ PcIs(Tail(s), "START", q, k.executed[q])
    BY <2>4 DEF Has, Once, PcIs
  <2>6. Agree(m.pc, k.executed[q])
    <3>1. 1 \in DOMAIN s /\ m = s[1]
      BY <1>1, LenProperties, EmptySeq DEF m
    <3> QED
      BY <1>1, <2>3, <3>1 DEF PcIs
  <2>7. /\ ~About(fromWorker[v], q)
        /\ ~qcb[q].pending => ~Has(s, "PREEMPT", q)
    BY <1>2, <2>1 DEF RunningAt, s
  <2>8. /\ ~Has(fromWorker[v], "END", q) /\ ~Has(fromWorker[v], "EVICTED", q)
        /\ PcIs(fromWorker[v], "EVICTED", q, k.executed[q])
    BY <2>7 DEF About, Has, PcIs, Matches, Concerns
  <2>9. /\ Once(fromWorker[v], "END", q) /\ EvictedLast(fromWorker[v], q)
    BY <2>1 DEF RunningAt
  <2> QED
    BY <1>1, <1>2, <2>2, <2>4, <2>5, <2>6, <2>7, <2>8, <2>9
       DEF RunningAt, Outside, m, s
<1> QED
  BY <1>3, <1>4, <1>5, TakenFades, OwnStep

\* The Worker of q takes a request for its eviction.
LEMMA RequestedAssigned ==
    ASSUME WireTypeOK, NEW q \in Queries, NEW v \in Workers, NEW k, NEW l,
           QueryAssigned(q, k), Outside, toWorker[v] # <<>>,
           Matches(Head(toWorker[v]), "PREEMPT", q),
           toWorker' = [toWorker EXCEPT ![v] = Tail(@)], UNCHANGED fromWorker,
           \A w \in Workers \ {v} : Fades(w, q, k, l),
           q \in l.holding[v] <=> q \in k.holding[v],
           q \in l.late[v] <=> q \in k.late[v],
           q \in l.eject[v] => q \in k.eject[v] \/ q \in k.holding[v] \cup k.late[v],
           l.position[v][q] = k.position[v][q], l.executed[q] = k.executed[q]
    PROVE  QueryAssigned(q, l)'
<1> DEFINE s == toWorker[v]
           m == Head(s)
<1>1. /\ s \in Seq(MasterPackages) /\ s # <<>> /\ toWorker'[v] = Tail(s)
      /\ Matches(m, "PREEMPT", q)
  BY DEF WireTypeOK
<1> HIDE DEF s, m
<1>2. /\ Has(s, "PREEMPT", q)
      /\ \A op : /\ Has(Tail(s), op, q) => Has(s, op, q)
                 /\ Once(s, op, q) => Once(Tail(s), op, q)
                 /\ \A pc : PcIs(s, op, q, pc) => PcIs(Tail(s), op, q, pc)
      /\ Once(s, "PREEMPT", q) => ~Has(Tail(s), "PREEMPT", q)
  BY <1>1, TailChannel DEF m
<1>3. Involved(v, q, k) /\ PairInv(v, q, k)
  BY <1>2 DEF Involved, QueryAssigned, s
<1>4. Once(toWorker'[v], "PREEMPT", q) /\ ~Has(toWorker'[v], "PREEMPT", q)
  BY <1>1, <1>2, <1>3 DEF PairInv, s
<1>5. q \in l.eject[v] => q \in l.holding[v] \cup l.late[v]
  BY <1>3 DEF PairInv
<1>6. ASSUME q \in running_list PROVE RunningAt(v, q, l)'
  <2>1. RunningAt(v, q, k)
    BY <1>3, <1>6 DEF PairInv
  <2>2. qcb'[q].worker = v
    BY <1>3, <2>1 DEF RunningAt, Outside
  <2>3. qcb'[q].pending
    BY <1>2, <2>1 DEF RunningAt, s, Outside
  <2>4. PcIs(Tail(s), "START", q, k.executed[q]) /\ Once(Tail(s), "START", q)
    BY <1>2, <2>1 DEF RunningAt, s
  <2> QED
    BY <1>1, <1>2, <1>4, <2>1, <2>2, <2>3, <2>4 DEF RunningAt, Outside, s
<1> QED
  BY <1>3, <1>4, <1>5, <1>6, TakenFades, OwnStep

\* The Worker that holds q executes an instruction of it.
LEMMA ExecutedAssigned ==
    ASSUME WireTypeOK, NEW q \in Queries, NEW v \in Workers, NEW k, NEW l,
           QueryAssigned(q, k), Outside, q \in k.holding[v],
           NEW p \in Seq(WorkerPackages),
           \A i \in DOMAIN p : p[i].op = "READ" /\ p[i].q = q,
           fromWorker' = [fromWorker EXCEPT ![v] = @ \o p], UNCHANGED toWorker,
           \A w \in Workers \ {v} : Fades(w, q, k, l),
           q \in l.holding[v], q \in l.late[v] <=> q \in k.late[v],
           q \in l.eject[v] <=> q \in k.eject[v],
           l.position[v][q] = k.position[v][q] + 1,
           l.executed[q] = k.executed[q] + 1
    PROVE  QueryAssigned(q, l)'
<1>1. Involved(v, q, k) /\ PairInv(v, q, k)
  BY DEF Involved, QueryAssigned
<1>2. /\ fromWorker'[v] = fromWorker[v] \o p /\ fromWorker[v] \in Seq(WorkerPackages)
      /\ \A w \in Workers \ {v} : fromWorker'[w] = fromWorker[w]
  BY DEF WireTypeOK
<1>3. \A w \in Workers \ {v} : WireFades(w, q)
  <2> SUFFICES ASSUME NEW w \in Workers \ {v} PROVE WireFades(w, q)
    OBVIOUS
  <2>1. toWorker[w] \in Seq(MasterPackages) /\ fromWorker[w] \in Seq(WorkerPackages)
    BY DEF WireTypeOK
  <2> QED
    BY <1>2, <2>1, ToChannelFades, FromChannelFades DEF WireFades
<1>4. ASSUME q \in running_list PROVE RunningAt(v, q, l)'
  <2>1. RunningAt(v, q, k)
    BY <1>1, <1>4 DEF PairInv
  <2>2. /\ ~Has(toWorker[v], "START", q)
        /\ ~Has(fromWorker[v], "END", q) /\ ~Has(fromWorker[v], "EVICTED", q)
        /\ Agree(k.position[v][q], k.executed[q]) /\ q \notin k.late[v]
    BY <2>1 DEF RunningAt
  <2>3. ASSUME NEW op \in {"END", "EVICTED"} PROVE ~Has(fromWorker'[v], op, q)
    <3>1. ~Has(p, op, q)
      BY DEF Has, Matches
    <3> QED
      BY <1>2, <2>2, <3>1, ConcatChannel
  <2>4. /\ Once(fromWorker'[v], "END", q) /\ EvictedLast(fromWorker'[v], q)
        /\ PcIs(fromWorker'[v], "EVICTED", q, l.executed[q])
        /\ PcIs(toWorker[v], "START", q, l.executed[q])
    BY <2>2, <2>3 DEF Has, Once, EvictedLast, PcIs
  <2>5. qcb'[q].worker = v /\ Agree(l.position[v][q], l.executed[q])
    BY <1>1, <2>1, <2>2 DEF RunningAt, Outside, Agree
  <2> QED
    BY <2>1, <2>2, <2>3, <2>4, <2>5 DEF RunningAt, Outside
<1> QED
  BY <1>1, <1>3, <1>4, OwnStep DEF PairInv

\* What a Worker says as it gives up q: one END or none, and nothing after
\* an eviction response, which without an END has its program counter.
Farewell(p, q, pc) ==
    /\ \A i \in DOMAIN p : p[i].op \in {"END", "ERROR", "EVICTED"} /\ p[i].q = q
    /\ Once(p, "END", q)
    /\ EvictedLast(p, q)
    /\ ~Has(p, "END", q) => PcIs(p, "EVICTED", q, pc)

\* The Worker that holds q, or has ended it, gives it up.
LEMMA FarewellAssigned ==
    ASSUME WireTypeOK, NEW q \in Queries, NEW v \in Workers, NEW k, NEW l,
           QueryAssigned(q, k), Outside, q \in k.holding[v] \cup k.late[v],
           NEW p \in Seq(WorkerPackages),
           Farewell(p, q, k.position[v][q]) \/ q \notin k.holding[v],
           Once(p, "END", q), EvictedLast(p, q),
           q \in k.holding[v] \/ ~Has(p, "END", q),
           q \in running_list /\ Has(p, "EVICTED", q)
           => qcb[q].pending /\ ~Has(toWorker'[v], "PREEMPT", q),
           fromWorker' = [fromWorker EXCEPT ![v] = @ \o p],
           \A w \in Workers : ToFades(toWorker[w], toWorker'[w], q),
           \A w \in Workers \ {v} : Fades(w, q, k, l),
           q \notin l.holding[v],
           q \in l.late[v] => Has(p, "END", q) /\ ~Has(p, "EVICTED", q),
           q \in l.eject[v] => q \in l.late[v] /\ q \in k.eject[v],
           l.executed[q] = k.executed[q]
    PROVE  QueryAssigned(q, l)'
<1>1. Involved(v, q, k) /\ PairInv(v, q, k)
  BY DEF Involved, QueryAssigned
<1>2. /\ fromWorker'[v] = fromWorker[v] \o p /\ fromWorker[v] \in Seq(WorkerPackages)
      /\ \A w \in Workers \ {v} : fromWorker'[w] = fromWorker[w]
  BY DEF WireTypeOK
<1>3. \A w \in Workers \ {v} : WireFades(w, q)
  <2> SUFFICES ASSUME NEW w \in Workers \ {v} PROVE WireFades(w, q)
    OBVIOUS
  <2>1. fromWorker[w] \in Seq(WorkerPackages)
    BY DEF WireTypeOK
  <2> QED
    BY <1>2, <2>1, FromChannelFades DEF WireFades
<1>4. Once(toWorker'[v], "PREEMPT", q)
  BY <1>1 DEF PairInv, ToFades
<1>5. ASSUME q \in running_list PROVE RunningAt(v, q, l)'
  <2>0. RunningAt(v, q, k)
    BY <1>1, <1>5 DEF PairInv
  <2> PICK s, t : s = fromWorker[v] /\ t = fromWorker'[v]
    OBVIOUS
  <2>1. /\ ~Has(toWorker[v], "START", q) /\ ~Has(s, "EVICTED", q)
        /\ q \in k.holding[v] => ~Has(s, "END", q) /\ Agree(k.position[v][q], k.executed[q])
        /\ q \in k.late[v] => Has(s, "END", q)
        /\ Once(s, "END", q) /\ EvictedLast(s, q)
    <3>1. q \in k.late[v] => Has(s, "END", q) /\ About(s, q)
      BY <2>0 DEF RunningAt, About, Has, Matches, Concerns
    <3> QED
      BY <2>0, <3>1 DEF RunningAt
  <2>2. ~(Has(s, "END", q) /\ Has(p, "END", q))
    BY <2>1
  <2>3. /\ Has(t, "EVICTED", q) <=> Has(p, "EVICTED", q)
        /\ Has(t, "END", q) <=> Has(s, "END", q) \/ Has(p, "END", q)
        /\ EvictedLast(t, q)
        /\ Once(t, "END", q)
    <3>0. s \in Seq(WorkerPackages) /\ t = s \o p
      BY <1>2
    <3>1. ASSUME NEW op
          PROVE  /\ Has(t, op, q) <=> Has(s, op, q) \/ Has(p, op, q)
                 /\ Once(s, op, q) /\ Once(p, op, q) /\ ~(Has(s, op, q) /\ Has(p, op, q))
                    => Once(t, op, q)
      <4>1. /\ Has(s \o p, op, q) <=> Has(s, op, q) \/ Has(p, op, q)
            /\ Once(s, op, q) /\ Once(p, op, q) /\ ~(Has(s, op, q) /\ Has(p, op, q))
               => Once(s \o p, op, q)
        BY <3>0, ConcatOnce
      <4> QED
        BY <3>0, <4>1
    <3>2. EvictedLast(t, q)
      BY <2>1, <3>0, ConcatChannel
    <3>3. Once(t, "END", q)
      BY <2>1, <2>2, <3>1
    <3> QED
      BY <2>1, <3>1, <3>2, <3>3
  <2>4. ~Has(t, "END", q) => PcIs(t, "EVICTED", q, k.executed[q])
    <3>1. PcIs(s, "EVICTED", q, k.executed[q])
      BY <2>1 DEF Has, PcIs
    <3>2. ~Has(t, "END", q) => PcIs(p, "EVICTED", q, k.executed[q])
      BY <2>1, <2>3 DEF Farewell, PcIs, Agree
    <3>3. \A pc : PcIs(s, "EVICTED", q, pc) /\ PcIs(p, "EVICTED", q, pc)
                  => PcIs(t, "EVICTED", q, pc)
      BY <1>2, ConcatChannel
    <3> QED
      BY <3>1, <3>2, <3>3
  <2>5. qcb'[q].worker = v
    BY <1>1, <2>0 DEF RunningAt, Outside
  <2>6. /\ ~Has(toWorker'[v], "START", q) /\ Once(toWorker'[v], "START", q)
        /\ PcIs(toWorker'[v], "START", q, k.executed[q])
        /\ Has(toWorker'[v], "PREEMPT", q) => Has(toWorker[v], "PREEMPT", q)
    BY <2>0, <2>1 DEF RunningAt, ToFades
  <2>7. /\ Has(t, "EVICTED", q) \/ q \in l.eject[v] \/ ~qcb[q].pending
           => ~Has(toWorker'[v], "PREEMPT", q)
        /\ ~qcb[q].pending => q \notin l.eject[v] /\ ~Has(t, "EVICTED", q)
    BY <1>5, <2>0, <2>3, <2>6 DEF RunningAt
  <2>8. qcb'[q].pending = qcb[q].pending
    BY DEF Outside
  <2> QED
    BY <2>3, <2>4, <2>5, <2>6, <2>7, <2>8 DEF RunningAt
<1> QED
  BY <1>1, <1>3, <1>4, <1>5, OwnStep

-----------------------------------------------------------------------------
(* The assignment, whatever the Workers are.                               *)

\* Steps that leave the tables and the connections of the Workers alone,
\* those of the Query Controls among them.
LEMMA UnmovedAssigned ==
    ASSUME Typed, NEW k, Assigned(k),
           UNCHANGED <<qcb, running_list, wcb, toWorker, fromWorker>>,
           \/ UNCHANGED <<fromQC, toQC, qcClosed>>
           \/ \E r \in Queries : QueryControl(r)
    PROVE  Assigned(k)'
<1> SUFFICES ASSUME NEW q \in Queries PROVE QueryAssigned(q, k)'
  BY DEF Assigned
<1>1. Fresh(q)' => Fresh(q)
  <2>1. CASE UNCHANGED <<fromQC, toQC, qcClosed>>
    BY <2>1 DEF Fresh
  <2>2. ASSUME NEW r \in Queries, Submit(r) PROVE Fresh(q)' => Fresh(q)
    BY <2>2 DEF Submit, NotSubmitted, Fresh, Typed, WireTypeOK
  <2>3. ASSUME NEW r \in Queries, CloseQC(r) PROVE Fresh(q)' => Fresh(q)
    BY <2>3 DEF CloseQC, Fresh, Typed, WireTypeOK
  <2> QED
    BY <2>1, <2>2, <2>3 DEF QueryControl, Leave, Quit
<1>2. Keeps(q)
  BY <1>1 DEF Keeps
<1>3. QueryAssigned(q, k)
  BY DEF Assigned
<1> QED
  BY <1>2, <1>3, SentFades, KeptAssigned

\* Every step of the Master keeps the assignments.
LEMMA MasterAssigned ==
    ASSUME QueryInv, NEW k, Assigned(k), MasterNext
    PROVE  Assigned(k)'
<1> SUFFICES ASSUME NEW q \in Queries PROVE QueryAssigned(q, k)'
  BY DEF Assigned
<1> QED
  BY QueryThreadAssigned, WorkerThreadAssigned, AgingThreadAssigned DEF MasterNext

\* Steps of a Worker that start, move and tell nothing about any query.
LEMMA FadingAssigned ==
    ASSUME NEW k, NEW l, Assigned(k), Outside,
           \A w \in Workers, q \in Queries : WireFades(w, q) /\ Fades(w, q, k, l),
           \A q \in Queries : l.executed[q] = k.executed[q]
    PROVE  Assigned(l)'
<1> SUFFICES ASSUME NEW q \in Queries PROVE QueryAssigned(q, l)'
  BY DEF Assigned
<1> QED
  BY OutsideKeeps, FadedAssigned DEF Assigned

\* At the start no query is assigned.
LEMMA InitAssigned ==
    ASSUME WireInit, MasterInit, NEW k,
           \A w \in Workers : k.holding[w] = {} /\ k.late[w] = {} /\ k.eject[w] = {},
           \A q \in Queries : k.executed[q] = 0
    PROVE  Assigned(k)
<1> SUFFICES ASSUME NEW q \in Queries PROVE QueryAssigned(q, k)
  BY DEF Assigned
<1>1. \A w \in Workers : /\ toWorker[w] = <<>> /\ fromWorker[w] = <<>>
                         /\ wcb[w].query = NoQuery
  BY DEF WireInit, MasterInit
<1>2. q \notin running_list /\ k.executed[q] = 0 /\ qcb[q].state = "NONE"
  BY DEF MasterInit
<1>3. \A w \in Workers : ~Involved(w, q, k) /\ Once(toWorker[w], "PREEMPT", q)
  BY <1>1 DEF Involved, Has, About, Once
<1> QED
  BY <1>1, <1>2, <1>3, WireAssumption DEF QueryAssigned, PairInv

-----------------------------------------------------------------------------
(* The worker table.                                                       *)

\* WorkerTables with what keeps it: a worker's block names no waiting query,
\* and a worker has one running query at most.
TablesInv ==
    /\ WorkerTables
    /\ \A w \in Workers : wcb[w].query \in Queries
                          => qcb[wcb[w].query].state # "READY"
    /\ \A w \in Workers : wcb[w].query \in running_list
                          => qcb[wcb[w].query].worker = w
    /\ \A q, r \in running_list : qcb[q].worker = qcb[r].worker => q = r

\* The lists of workers and their blocks stay; queries may leave.
LEMMA TablesKept ==
    ASSUME QueryInv, TablesInv,
           UNCHANGED <<wcb, worker_list, idle_list, busy_list>>,
           \A q \in running_list' : q \in running_list /\ qcb'[q].worker = qcb[q].worker,
           \A q \in Queries : qcb'[q].state = "READY"
                              => \/ qcb[q].state = "READY"
                                 \/ \A w \in Workers : wcb[w].query # q
    PROVE  TablesInv'
<1>1. worker_list \subseteq Workers
  BY DEF QueryInv, Typed, MasterTypeOK, WorkerTableTypeOK
<1>2. WorkerTables'
  BY <1>1 DEF TablesInv, WorkerTables
<1> QED
  BY <1>2 DEF TablesInv

\* The worker of a query that leaves running_list becomes idle.
LEMMA TablesFreed ==
    ASSUME QueryInv, TablesInv, NEW w \in worker_list, NEW r \in running_list,
           qcb[r].worker = w, FreeWorker(w), UNCHANGED worker_list,
           running_list' = running_list \ {r},
           \A q \in Queries \ {r} : qcb'[q] = qcb[q]
    PROVE  TablesInv'
<1>0. /\ wcb \in [Workers -> WorkerBlocks] /\ idle_list \in Seq(Workers)
      /\ w \in Workers /\ running_list \subseteq Queries /\ r \in Queries
      /\ worker_list \subseteq Workers
  BY DEF QueryInv, Typed, MasterTypeOK, WorkerTableTypeOK, QueryTables
<1>1. w \notin ToSet(idle_list)
  BY DEF TablesInv, WorkerTables
<1>2. /\ IsInjective(idle_list') /\ ToSet(idle_list') = ToSet(idle_list) \cup {w}
      /\ busy_list' = busy_list \ {w}
      /\ wcb'[w] = [query |-> NoQuery, state |-> "IDLE"]
      /\ \A v \in Workers \ {w} : wcb'[v] = wcb[v]
  BY <1>0, <1>1, AppendLists DEF FreeWorker, TablesInv, WorkerTables
<1>3. \A q \in running_list' : qcb'[q] = qcb[q] /\ qcb[q].worker # w
  BY <1>0 DEF TablesInv
<1>4. \A v \in Workers \ {w} : wcb[v].query # r
  BY DEF TablesInv
<1>5. NoQuery \notin Queries /\ NoQuery \notin running_list
  BY <1>0, WireAssumption
<1>6. WorkerTables'
  <2>1. ToSet(idle_list') \cap busy_list' = {} /\ ToSet(idle_list') \cup busy_list' = worker_list
    BY <1>2 DEF TablesInv, WorkerTables
  <2>2. \A v \in ToSet(idle_list') : wcb'[v] = [query |-> NoQuery, state |-> "IDLE"]
    BY <1>0, <1>2, ListRange DEF TablesInv, WorkerTables
  <2>3. \A v \in worker_list : wcb'[v].query \in running_list'
                               => qcb'[wcb'[v].query].worker = v
    BY <1>0, <1>2, <1>3, <1>5 DEF TablesInv, WorkerTables
  <2>4. \A q \in running_list' : qcb'[q].worker \in Workers \ ToSet(idle_list')
    BY <1>2, <1>3 DEF TablesInv, WorkerTables
  <2> QED
    BY <1>2, <2>1, <2>2, <2>3, <2>4 DEF WorkerTables
<1>7. \A v \in Workers : wcb'[v].query \in Queries => qcb'[wcb'[v].query].state # "READY"
  BY <1>2, <1>4, <1>5 DEF TablesInv
<1>8. \A v \in Workers : wcb'[v].query \in running_list' => qcb'[wcb'[v].query].worker = v
  BY <1>0, <1>2, <1>3, <1>5 DEF TablesInv
<1> QED
  BY <1>3, <1>6, <1>7, <1>8 DEF TablesInv

\* try_dispatch keeps the tables of the Workers.
LEMMA DispatchTablesInv ==
    ASSUME QueryInv, TablesInv, try_dispatch
    PROVE  TablesInv'
<1> DEFINE q == Head(ready_queue)
           w == Head(idle_list)
           Idle == [query |-> NoQuery, state |-> "IDLE"]
<1>0. /\ wcb \in [Workers -> WorkerBlocks] /\ idle_list \in Seq(Workers)
      /\ ready_queue \in Seq(Queries) /\ qcb \in [Queries -> QueryBlocks]
      /\ running_list \subseteq Queries /\ QueryTables
      /\ UNCHANGED worker_list
      /\ NoQuery \notin Queries
  BY WireAssumption
     DEF QueryInv, Typed, MasterTypeOK, WorkerTableTypeOK, QueryTableTypeOK, try_dispatch
<1>1. CASE NothingToDispatch
  <2>1. UNCHANGED <<qcb, running_list, wcb, idle_list, busy_list>>
    BY <1>1 DEF try_dispatch
  <2> QED
    BY <1>0, <2>1, TablesKept
<1>2. CASE ~NothingToDispatch
  <2>1. /\ q \in Queries /\ q \in ToSet(ready_queue) /\ w \in Workers /\ w \in ToSet(idle_list)
        /\ Tail(idle_list) \in Seq(Workers)
        /\ IsInjective(Tail(idle_list)) /\ ToSet(Tail(idle_list)) = ToSet(idle_list) \ {w}
    BY <1>0, <1>2, TailLists DEF NothingToDispatch, TablesInv, WorkerTables
  <2> HIDE DEF q, w
  <2>2. /\ qcb[q].state = "READY" /\ q \notin running_list
        /\ \A v \in Workers : wcb[v].query # q
        /\ \A x \in running_list : qcb[x].worker # w
        /\ w \notin busy_list /\ ToSet(idle_list) \subseteq Workers
    <3>1. qcb[q].state = "READY" /\ q \notin running_list
      BY <1>0, <2>1 DEF QueryTables
    <3>2. \A v \in Workers : wcb[v].query # q
      BY <2>1, <3>1 DEF TablesInv
    <3>3. /\ \A x \in running_list : qcb[x].worker # w
          /\ w \notin busy_list
      BY <2>1 DEF TablesInv, WorkerTables
    <3> QED
      BY <1>0, <3>1, <3>2, <3>3, ListRange
  <2>3. CASE DispatchSent(q, w)
    <3>1. /\ ToSet(idle_list') = ToSet(idle_list) \ {w} /\ IsInjective(idle_list')
          /\ busy_list' = busy_list \cup {w}
          /\ running_list' = running_list \cup {q}
          /\ qcb'[q].state = "RUNNING" /\ qcb'[q].worker = w
          /\ \A x \in Queries \ {q} : qcb'[x] = qcb[x]
          /\ wcb'[w].query = q
          /\ \A v \in Workers \ {w} : wcb'[v] = wcb[v]
      BY <1>0, <2>1, <2>3 DEF DispatchSent, QueryBlocks
    <3>2. WorkerTables'
      <4>1. /\ ToSet(idle_list') \cap busy_list' = {}
            /\ ToSet(idle_list') \cup busy_list' = worker_list'
        BY <1>0, <2>1, <3>1 DEF TablesInv, WorkerTables
      <4>2. \A v \in ToSet(idle_list') : wcb'[v] = Idle
        BY <2>2, <3>1 DEF TablesInv, WorkerTables
      <4>3. \A v \in Workers : wcb'[v].query \in running_list'
                               => qcb'[wcb'[v].query].worker = v
        BY <1>0, <2>2, <3>1 DEF TablesInv
      <4>4. \A x \in running_list' : qcb'[x].worker \in Workers \ ToSet(idle_list')
        BY <1>0, <2>1, <2>2, <3>1 DEF TablesInv, WorkerTables
      <4>5. worker_list' \subseteq Workers
        BY <1>0 DEF QueryInv, Typed, MasterTypeOK, WorkerTableTypeOK
      <4> QED
        BY <3>1, <4>1, <4>2, <4>3, <4>4, <4>5 DEF WorkerTables
    <3>3. \A v \in Workers : wcb'[v].query \in Queries
                             => qcb'[wcb'[v].query].state # "READY"
      BY <2>2, <3>1 DEF TablesInv
    <3>4. \A v \in Workers : wcb'[v].query \in running_list'
                             => qcb'[wcb'[v].query].worker = v
      BY <1>0, <2>2, <3>1 DEF TablesInv
    <3>5. \A x, y \in running_list' : qcb'[x].worker = qcb'[y].worker => x = y
      BY <1>0, <2>2, <3>1 DEF TablesInv
    <3> QED
      BY <3>2, <3>3, <3>4, <3>5 DEF TablesInv
  <2>4. CASE DispatchReverted(q, w)
    <3>1. /\ ToSet(idle_list') = ToSet(idle_list) /\ IsInjective(idle_list')
      <4>1. /\ ToSet(Append(Tail(idle_list), w)) = ToSet(Tail(idle_list)) \cup {w}
            /\ IsInjective(Append(Tail(idle_list), w))
        <5> DEFINE t == Tail(idle_list)
        <5>1. t \in Seq(Workers) /\ IsInjective(t) /\ w \notin ToSet(t)
          BY <2>1
        <5> HIDE DEF t
        <5>2. ToSet(Append(t, w)) = ToSet(t) \cup {w} /\ IsInjective(Append(t, w))
          BY <2>1, <5>1, AppendLists
        <5> QED
          BY <5>2 DEF t
      <4> QED
        BY <2>1, <2>4, <4>1 DEF DispatchReverted
    <3>2. /\ UNCHANGED <<running_list, busy_list>>
          /\ \A x \in Queries \ {q} : qcb'[x] = qcb[x]
          /\ wcb'[w] = Idle
          /\ \A v \in Workers \ {w} : wcb'[v] = wcb[v]
      BY <1>0, <2>1, <2>4 DEF DispatchReverted
    <3>3. \A x \in running_list : x \in Queries \ {q} /\ qcb'[x] = qcb[x]
      BY <1>0, <2>2, <3>2
    <3>4. \A v \in Workers : wcb'[v].query \in running_list'
                             => qcb'[wcb'[v].query].worker = v
      BY <1>0, <3>2, <3>3 DEF TablesInv
    <3>5. WorkerTables'
      <4>1. \A v \in ToSet(idle_list') : wcb'[v] = Idle
        BY <2>2, <3>1, <3>2 DEF TablesInv, WorkerTables
      <4>2. worker_list' \subseteq Workers
        BY <1>0 DEF QueryInv, Typed, MasterTypeOK, WorkerTableTypeOK
      <4> QED
        BY <1>0, <3>1, <3>2, <3>3, <3>4, <4>1, <4>2 DEF TablesInv, WorkerTables
    <3>6. \A v \in Workers : wcb'[v].query \in Queries
                             => qcb'[wcb'[v].query].state # "READY"
      BY <1>0, <2>2, <3>2 DEF TablesInv
    <3> QED
      BY <3>2, <3>3, <3>4, <3>5, <3>6 DEF TablesInv
  <2> QED
    BY <1>2, <2>3, <2>4 DEF try_dispatch, q, w
<1> QED
  BY <1>1, <1>2

\* preempt_query_in_exec keeps the tables of the Workers.
LEMMA PreemptTablesInv ==
    ASSUME QueryInv, TablesInv, NEW r \in running_list, NEW newBlock \in QueryBlocks,
           newBlock.state \in {"RUNNING", "CANCELED"}, newBlock.worker = qcb[r].worker,
           preempt_query_in_exec(r, newBlock), UNCHANGED workerTable
    PROVE  TablesInv'
<1>0. /\ qcb \in [Queries -> QueryBlocks] /\ running_list \subseteq Queries
      /\ UNCHANGED <<wcb, worker_list, idle_list, busy_list>>
      /\ QueryTableTypeOK /\ QueryTables
  BY DEF QueryInv, Typed, MasterTypeOK, QueryTableTypeOK, workerTable
<1>1. ASSUME NEW pending \in BOOLEAN,
             qcb' = [qcb EXCEPT ![r] = [newBlock EXCEPT !.pending = pending]],
             UNCHANGED running_list
      PROVE  TablesInv'
  <2>1. /\ qcb'[r].worker = qcb[r].worker /\ qcb'[r].state # "READY"
        /\ \A q \in Queries \ {r} : qcb'[q] = qcb[q]
    BY <1>0, <1>1 DEF QueryBlocks
  <2> QED
    BY <1>0, <1>1, <2>1, TablesKept
<1>2. ASSUME FinalizeWithError(r) PROVE TablesInv'
  <2>1. /\ qcb'[r].state = "NONE" /\ running_list' = running_list \ {r}
        /\ \A q \in Queries \ {r} : qcb'[q] = qcb[q]
    BY <1>0, <1>2, CleanupTables DEF FinalizeWithError, cleanup_query_resources
  <2> QED
    BY <1>0, <2>1, TablesKept
<1> QED
  BY <1>1, <1>2 DEF preempt_query_in_exec

-----------------------------------------------------------------------------
(* Registration.                                                           *)

Greets(s) == \E i \in DOMAIN s : s[i].op = "HANDSHAKE"
Talks(s) == \E i \in DOMAIN s : s[i].op # "HANDSHAKE"
Acknowledges(s) == \E i \in DOMAIN s : s[i].op = "ACK"

\* The Master has not met w.
Unknown(w) == w \notin worker_list /\ \A q \in Queries : qcb[q].worker # w

\* A worker is unknown until its handshake is read, and in worker_list from
\* then on as long as it has anything to say.
Registered(w) ==
    /\ phase[w] = "off" => fromWorker[w] = <<>> /\ Unknown(w)
    /\ Greets(fromWorker[w]) => Len(fromWorker[w]) = 1 /\ Unknown(w)
    /\ Talks(fromWorker[w]) => w \in worker_list
    /\ Running(w) => w \in worker_list
    /\ Acknowledges(toWorker[w]) => w \in worker_list
    /\ workerThread[w] = "ack" => w \in worker_list
    /\ workerClosed[w] => toWorker[w] = <<>>

WorkerInv == TablesInv /\ \A w \in Workers : Registered(w)

\* The kinds of packages in a channel that lost its first one or got one more.
LEMMA ChannelKinds ==
    ASSUME NEW S, NEW s \in Seq(S)
    PROVE  /\ s # <<>> => /\ Greets(Tail(s)) => Greets(s)
                          /\ Talks(Tail(s)) => Talks(s)
                          /\ Acknowledges(Tail(s)) => Acknowledges(s)
                          /\ Head(s).op = "HANDSHAKE" => Greets(s)
                          /\ Head(s).op # "HANDSHAKE" => Talks(s)
                          /\ Head(s).op = "ACK" => Acknowledges(s)
                          /\ Len(s) = 1 => Tail(s) = <<>>
           /\ \A m \in S : Acknowledges(Append(s, m)) => Acknowledges(s) \/ m.op = "ACK"
           /\ s = <<>> => ~Greets(s) /\ ~Talks(s) /\ ~Acknowledges(s)
<1>1. s = <<>> => ~Greets(s) /\ ~Talks(s) /\ ~Acknowledges(s)
  BY DEF Greets, Talks, Acknowledges
<1>2. ASSUME NEW m \in S, Acknowledges(Append(s, m))
      PROVE  Acknowledges(s) \/ m.op = "ACK"
  <2> DEFINE t == Append(s, m)
  <2>1. /\ t \in Seq(S) /\ Len(t) = Len(s) + 1 /\ t[Len(s) + 1] = m
        /\ \A i \in 1..Len(s) : t[i] = s[i]
    BY AppendProperties
  <2>2. Len(s) \in Nat /\ DOMAIN s = 1..Len(s) /\ DOMAIN t = 1..Len(s) + 1
    BY <2>1, LenProperties
  <2> HIDE DEF t
  <2>3. \A i \in DOMAIN t : i \in 1..Len(s) \/ i = Len(s) + 1
    BY <2>2
  <2>4. Acknowledges(t)
    BY <1>2 DEF t
  <2> QED
    BY <2>1, <2>2, <2>3, <2>4 DEF Acknowledges
<1>3. ASSUME s # <<>>
      PROVE  /\ Greets(Tail(s)) => Greets(s)
             /\ Talks(Tail(s)) => Talks(s)
             /\ Acknowledges(Tail(s)) => Acknowledges(s)
             /\ Head(s).op = "HANDSHAKE" => Greets(s)
             /\ Head(s).op # "HANDSHAKE" => Talks(s)
             /\ Head(s).op = "ACK" => Acknowledges(s)
             /\ Len(s) = 1 => Tail(s) = <<>>
  <2> DEFINE t == Tail(s)
             m == Head(s)
  <2>1. /\ t \in Seq(S) /\ Len(t) = Len(s) - 1
        /\ \A i \in 1..Len(t) : t[i] = s[i + 1]
    BY <1>3, HeadTailProperties
  <2>2. /\ Len(s) \in Nat \ {0} /\ DOMAIN s = 1..Len(s) /\ DOMAIN t = 1..Len(s) - 1
        /\ m = s[1]
    BY <1>3, <2>1, LenProperties, EmptySeq
  <2> HIDE DEF t, m
  <2>3. Len(s) = 1 => t = <<>>
    <3>1. (Len(t) = 0) => (t = <<>>)
      BY <2>1, EmptySeq
    <3> QED
      BY <2>1, <3>1
  <2>4. /\ \A i \in DOMAIN t : i + 1 \in DOMAIN s /\ t[i] = s[i + 1]
        /\ 1 \in DOMAIN s
    BY <2>1, <2>2
  <2>5. Greets(t) => Greets(s)
    BY <2>4 DEF Greets
  <2>6. Talks(t) => Talks(s)
    BY <2>4 DEF Talks
  <2>7. Acknowledges(t) => Acknowledges(s)
    BY <2>4 DEF Acknowledges
  <2>8. /\ m.op = "HANDSHAKE" => Greets(s)
        /\ m.op # "HANDSHAKE" => Talks(s)
        /\ m.op = "ACK" => Acknowledges(s)
    BY <2>2, <2>4 DEF Greets, Talks, Acknowledges
  <2> QED
    BY <2>3, <2>5, <2>6, <2>7, <2>8 DEF t, m
<1> QED
  BY <1>1, <1>2, <1>3

\* Steps of the Master that leave w where it is in worker_list.
LEMMA RegisteredKept ==
    ASSUME Typed, NEW w \in Workers, Registered(w),
           UNCHANGED <<phase, workerClosed>>,
           \/ fromWorker'[w] = fromWorker[w]
           \/ fromWorker[w] # <<>> /\ fromWorker'[w] = Tail(fromWorker[w]),
           w \in worker_list' <=> w \in worker_list,
           \A q \in Queries : qcb'[q].worker = w
                              => qcb[q].worker = w \/ w \in worker_list,
           \/ toWorker'[w] = toWorker[w]
           \/ \E m \in MasterPackages :
                 /\ toWorker' = SentToWorker(w, m)
                 /\ m.op = "ACK" => w \in worker_list,
           workerThread'[w] = "ack" => workerThread[w] = "ack"
    PROVE  Registered(w)'
<1>1. fromWorker[w] \in Seq(WorkerPackages) /\ toWorker[w] \in Seq(MasterPackages)
  BY DEF Typed, WireTypeOK
<1>2. Unknown(w) => Unknown(w)'
  BY DEF Unknown
<1>3. /\ Greets(fromWorker'[w]) => Greets(fromWorker[w]) /\ Len(fromWorker'[w]) = Len(fromWorker[w])
      /\ Talks(fromWorker'[w]) => Talks(fromWorker[w])
      /\ fromWorker[w] = <<>> => fromWorker'[w] = <<>>
  <2>1. CASE fromWorker'[w] = fromWorker[w]
    BY <2>1
  <2>2. CASE fromWorker[w] # <<>> /\ fromWorker'[w] = Tail(fromWorker[w])
    <3>1. /\ Greets(fromWorker'[w]) => Greets(fromWorker[w])
          /\ Talks(fromWorker'[w]) => Talks(fromWorker[w])
          /\ Len(fromWorker[w]) = 1 => fromWorker'[w] = <<>>
      BY <1>1, <2>2, ChannelKinds
    <3>2. ~Greets(fromWorker'[w])
      <4>1. SUFFICES ASSUME Greets(fromWorker'[w]) PROVE FALSE
        OBVIOUS
      <4>2. fromWorker'[w] = <<>>
        BY <3>1, <4>1 DEF Registered
      <4> QED
        BY <4>1, <4>2 DEF Greets
    <3> QED
      BY <2>2, <3>1, <3>2
  <2> QED
    BY <2>1, <2>2
<1>4. /\ Acknowledges(toWorker'[w]) => w \in worker_list
      /\ workerClosed[w] => toWorker'[w] = <<>>
  <2>1. CASE toWorker'[w] = toWorker[w]
    BY <2>1 DEF Registered
  <2>2. CASE \E m \in MasterPackages : /\ toWorker' = SentToWorker(w, m)
                                       /\ m.op = "ACK" => w \in worker_list
    <3>1. PICK m \in MasterPackages : /\ toWorker' = SentToWorker(w, m)
                                      /\ m.op = "ACK" => w \in worker_list
      BY <2>2
    <3>2. CASE workerClosed[w]
      BY <3>1, <3>2 DEF SentToWorker, Registered
    <3>3. CASE ~workerClosed[w]
      <4>1. toWorker'[w] = Append(toWorker[w], m)
        BY <3>1, <3>3 DEF SentToWorker, Typed, WireTypeOK
      <4>2. Acknowledges(toWorker'[w]) => Acknowledges(toWorker[w]) \/ m.op = "ACK"
        BY <1>1, <4>1, ChannelKinds
      <4> QED
        BY <3>1, <3>3, <4>2 DEF Registered
    <3> QED
      BY <3>2, <3>3
  <2> QED
    BY <2>1, <2>2
<1>5. phase'[w] = phase[w] /\ workerClosed'[w] = workerClosed[w]
  OBVIOUS
<1> QED
  BY <1>2, <1>3, <1>4, <1>5 DEF Registered, Running

\* The same for all workers.
LEMMA AllRegisteredKept ==
    ASSUME Typed, \A w \in Workers : Registered(w),
           UNCHANGED <<phase, workerClosed, worker_list>>,
           \A w \in Workers : \/ fromWorker'[w] = fromWorker[w]
                              \/ fromWorker[w] # <<>> /\ fromWorker'[w] = Tail(fromWorker[w]),
           \A q \in Queries : \/ qcb'[q].worker = qcb[q].worker
                              \/ qcb'[q].worker \in worker_list \cup {NoWorker},
           \/ UNCHANGED toWorker
           \/ \E v \in Workers, m \in MasterPackages :
                 /\ toWorker' = SentToWorker(v, m)
                 /\ m.op = "ACK" => v \in worker_list,
           \A w \in Workers : workerThread'[w] = "ack" => workerThread[w] = "ack"
    PROVE  \A w \in Workers : Registered(w)'
<1> SUFFICES ASSUME NEW w \in Workers PROVE Registered(w)'
  OBVIOUS
<1>1. \/ toWorker'[w] = toWorker[w]
      \/ \E m \in MasterPackages :
            /\ toWorker' = SentToWorker(w, m)
            /\ m.op = "ACK" => w \in worker_list
  BY DEF SentToWorker, Typed, WireTypeOK
<1>2. \A q \in Queries : qcb'[q].worker = w => qcb[q].worker = w \/ w \in worker_list
  BY WireAssumption
<1>3. Registered(w)
  OBVIOUS
<1> QED
  BY <1>1, <1>2, <1>3, RegisteredKept

\* try_dispatch and preempt_query_in_exec send to registered workers.
LEMMA DispatchSends ==
    ASSUME QueryInv, TablesInv, try_dispatch
    PROVE  /\ \A q \in Queries : \/ qcb'[q].worker = qcb[q].worker
                                 \/ qcb'[q].worker \in worker_list \cup {NoWorker}
           /\ \/ UNCHANGED toWorker
              \/ \E v \in Workers, m \in MasterPackages :
                    /\ toWorker' = SentToWorker(v, m)
                    /\ m.op = "ACK" => v \in worker_list
           /\ UNCHANGED worker_list
<1> DEFINE q == Head(ready_queue)
           w == Head(idle_list)
<1>0. /\ idle_list \in Seq(Workers) /\ ready_queue \in Seq(Queries)
      /\ qcb \in [Queries -> QueryBlocks]
  BY DEF QueryInv, Typed, MasterTypeOK, WorkerTableTypeOK, QueryTableTypeOK
<1>1. CASE NothingToDispatch
  BY <1>1 DEF try_dispatch
<1>2. CASE ~NothingToDispatch
  <2>1. q \in Queries /\ w \in Workers /\ w \in ToSet(idle_list)
    BY <1>0, <1>2, TailLists DEF NothingToDispatch
  <2>2. w \in worker_list
    BY <2>1 DEF TablesInv, WorkerTables
  <2> HIDE DEF q, w
  <2>3. CASE DispatchSent(q, w)
    <3> DEFINE m == [op |-> "START", q |-> q, pc |-> qcb[q].pc]
    <3>1. qcb[q].pc \in ProgramCounters
      BY <1>0, <2>1 DEF QueryBlocks
    <3>2. m \in MasterPackages /\ m.op # "ACK"
      BY <2>1, <3>1, PackageKinds
    <3>3. toWorker' = SentToWorker(w, m)
      BY <2>3 DEF DispatchSent
    <3>4. /\ qcb'[q].worker = w
          /\ \A x \in Queries \ {q} : qcb'[x] = qcb[x]
      BY <1>0, <2>1, <2>3 DEF DispatchSent, QueryBlocks
    <3> HIDE DEF m
    <3> QED
      BY <2>1, <2>2, <3>2, <3>3, <3>4 DEF try_dispatch
  <2>4. CASE DispatchReverted(q, w)
    <3>1. /\ qcb'[q].worker = NoWorker /\ UNCHANGED toWorker
          /\ \A x \in Queries \ {q} : qcb'[x] = qcb[x]
      BY <1>0, <2>1, <2>4 DEF DispatchReverted, QueryBlocks
    <3> QED
      BY <3>1 DEF try_dispatch
  <2> QED
    BY <1>2, <2>3, <2>4 DEF try_dispatch, q, w
<1> QED
  BY <1>1, <1>2

\* preempt_query_in_exec sends at most one package, and moves no query.
LEMMA PreemptSends ==
    ASSUME QueryInv, NEW r \in running_list, NEW newBlock \in QueryBlocks,
           newBlock.worker = qcb[r].worker, preempt_query_in_exec(r, newBlock)
    PROVE  /\ \A q \in Queries : \/ qcb'[q].worker = qcb[q].worker
                                 \/ qcb'[q].worker = NoWorker
           /\ \/ UNCHANGED toWorker
              \/ \E v \in Workers, m \in MasterPackages :
                    /\ toWorker' = SentToWorker(v, m)
                    /\ m.op # "ACK"
<1>0. /\ worker_list \subseteq Workers /\ r \in Queries
      /\ qcb \in [Queries -> QueryBlocks] /\ QueryTableTypeOK /\ QueryTables
  BY DEF QueryInv, Typed, MasterTypeOK, WorkerTableTypeOK, QueryTableTypeOK, QueryTables
<1>1. \A pending \in BOOLEAN :
         qcb' = [qcb EXCEPT ![r] = [newBlock EXCEPT !.pending = pending]]
         => \A q \in Queries : qcb'[q].worker = qcb[q].worker
  BY <1>0 DEF QueryBlocks
<1>2. FinalizeWithError(r)
      => \A q \in Queries : qcb'[q].worker = qcb[q].worker \/ qcb'[q].worker = NoWorker
  BY <1>0 DEF FinalizeWithError, cleanup_query_resources, FreedBlock
<1>3. [op |-> "PREEMPT", q |-> r] \in MasterPackages /\ [op |-> "PREEMPT", q |-> r].op # "ACK"
  BY <1>0 DEF MasterPackages
<1> QED
  BY <1>0, <1>1, <1>2, <1>3 DEF preempt_query_in_exec

\* The thread of a Query Control keeps the tables of the Workers.
LEMMA QueryThreadWorkers ==
    ASSUME QueryInv, NEW k, Assigned(k), WorkerInv, NEW r \in Queries, QueryThread(r),
           UNCHANGED phase
    PROVE  WorkerInv'
<1>0. /\ Typed /\ QueryTables /\ TablesInv /\ QueryTableTypeOK
      /\ UNCHANGED phase
  BY DEF QueryInv, WorkerInv, Typed, MasterTypeOK
<1>1. UNCHANGED <<workerClosed, fromWorker, workerThread>>
  BY DEF QueryThread, manage_query_file_path, QueryThreadDispatch,
         handle_query_control_disconnection, QueryThreadAt
<1>2. CASE manage_query_file_path(r)
  <2>1. /\ UNCHANGED <<running_list, wcb, worker_list, idle_list, busy_list, toWorker>>
        /\ fromQC[r] # <<>>
    BY <1>2 DEF manage_query_file_path, workerTable
  <2>2. /\ qcb'[r].worker = NoWorker
        /\ \A x \in Queries \ {r} : qcb'[x] = qcb[x]
    BY <1>0, <1>2 DEF manage_query_file_path, QueryTableTypeOK
  <2>3. /\ r \notin running_list
        /\ \A w \in Workers : wcb[w].query # r
    BY <1>0, <2>1 DEF QueryInv, SubmittedOnce, QueryTables, Assigned, QueryAssigned, Fresh
  <2>4. TablesInv'
    BY <1>0, <2>1, <2>2, <2>3, TablesKept DEF QueryTables
  <2>5. \A w \in Workers : Registered(w)'
    BY <1>0, <1>1, <2>1, <2>2, AllRegisteredKept DEF WorkerInv
  <2> QED
    BY <2>4, <2>5 DEF WorkerInv
<1>3. CASE QueryThreadDispatch(r)
  <2>1. try_dispatch
    BY <1>3 DEF QueryThreadDispatch
  <2>2. TablesInv'
    BY <1>0, <2>1, DispatchTablesInv
  <2>3. \A w \in Workers : Registered(w)'
    BY <1>0, <1>1, <2>1, DispatchSends, AllRegisteredKept DEF WorkerInv
  <2> QED
    BY <2>2, <2>3 DEF WorkerInv
<1>4. CASE handle_query_control_disconnection(r)
  <2>1. UNCHANGED workerTable /\ UNCHANGED <<wcb, worker_list, idle_list, busy_list>>
    BY <1>4 DEF handle_query_control_disconnection, workerTable
  <2>2. CASE UNCHANGED <<queryTable, toWorker>>
    <3>1. TablesInv'
      BY <1>0, <2>1, <2>2, TablesKept DEF queryTable
    <3>2. \A w \in Workers : Registered(w)'
      BY <1>0, <1>1, <2>1, <2>2, AllRegisteredKept DEF WorkerInv, queryTable
    <3> QED
      BY <3>1, <3>2 DEF WorkerInv
  <2>3. CASE FinalizeWithError(r) /\ UNCHANGED toWorker
    <3>1. /\ qcb'[r].state = "NONE" /\ running_list' = running_list \ {r}
          /\ \A q \in Queries \ {r} : qcb'[q] = qcb[q]
          /\ qcb'[r].worker = NoWorker
      BY <1>0, <2>3, CleanupTables
         DEF FinalizeWithError, cleanup_query_resources, FreedBlock, QueryTableTypeOK
    <3>2. TablesInv'
      BY <1>0, <2>1, <3>1, TablesKept DEF QueryTables
    <3>3. \A w \in Workers : Registered(w)'
      BY <1>0, <1>1, <2>1, <2>3, <3>1, AllRegisteredKept DEF WorkerInv
    <3> QED
      BY <3>2, <3>3 DEF WorkerInv
  <2>4. CASE /\ qcb[r].state = "RUNNING"
             /\ preempt_query_in_exec(r, [qcb[r] EXCEPT !.state = "CANCELED"])
    <3> DEFINE newBlock == [qcb[r] EXCEPT !.state = "CANCELED"]
    <3>1. /\ newBlock \in QueryBlocks /\ newBlock.state = "CANCELED"
          /\ newBlock.worker = qcb[r].worker
      BY <1>0 DEF QueryTableTypeOK, QueryBlocks, QueryStates
    <3>2. r \in running_list
      BY <1>0, <2>4 DEF QueryTables
    <3> HIDE DEF newBlock
    <3>3. preempt_query_in_exec(r, newBlock)
      BY <2>4 DEF newBlock
    <3>4. TablesInv'
      BY <1>0, <2>1, <3>1, <3>2, <3>3, PreemptTablesInv
    <3>5. /\ \A q \in Queries : \/ qcb'[q].worker = qcb[q].worker
                                \/ qcb'[q].worker = NoWorker
          /\ \/ UNCHANGED toWorker
             \/ \E v \in Workers, m \in MasterPackages :
                   /\ toWorker' = SentToWorker(v, m)
                   /\ m.op # "ACK"
      BY <3>1, <3>2, <3>3, PreemptSends
    <3>6. \A w \in Workers : Registered(w)'
      BY <1>0, <1>1, <2>1, <3>5, AllRegisteredKept DEF WorkerInv
    <3> QED
      BY <3>4, <3>6 DEF WorkerInv
  <2> QED
    BY <1>4, <2>2, <2>3, <2>4 DEF handle_query_control_disconnection
<1> QED
  BY <1>2, <1>3, <1>4 DEF QueryThread

\* The aging thread keeps the tables of the Workers.
LEMMA AgingThreadWorkers ==
    ASSUME QueryInv, WorkerInv, AgingThread, UNCHANGED phase
    PROVE  WorkerInv'
<1>0. /\ Typed /\ QueryTables /\ TablesInv /\ QueryTableTypeOK
      /\ UNCHANGED phase
  BY DEF QueryInv, WorkerInv, Typed, MasterTypeOK
<1>1. /\ UNCHANGED <<workerClosed, fromWorker, workerThread, workerTable>>
      /\ UNCHANGED <<wcb, worker_list, idle_list, busy_list>>
  BY DEF AgingThread, AgeReadyQueue, check_preemption, wire, workerTable
<1>2. CASE AgeReadyQueue
  <2>1. PICK f : qcb' = [x \in Queries |-> [qcb[x] EXCEPT !.priority = f[x]]]
    BY <1>2 DEF AgeReadyQueue
  <2>2. /\ UNCHANGED <<running_list, toWorker>>
        /\ \A x \in Queries : qcb'[x].state = qcb[x].state /\ qcb'[x].worker = qcb[x].worker
    BY <1>0, <1>2, <2>1 DEF AgeReadyQueue, wire, QueryTableTypeOK, QueryBlocks
  <2>3. TablesInv'
    BY <1>0, <1>1, <2>2, TablesKept DEF QueryTables
  <2>4. \A w \in Workers : Registered(w)'
    BY <1>0, <1>1, <2>2, AllRegisteredKept DEF WorkerInv
  <2> QED
    BY <2>3, <2>4 DEF WorkerInv
<1>3. CASE check_preemption
  <2>1. CASE UNCHANGED <<queryTable, toWorker, toQC>>
    <3>1. TablesInv'
      BY <1>0, <1>1, <2>1, TablesKept DEF queryTable
    <3>2. \A w \in Workers : Registered(w)'
      BY <1>0, <1>1, <2>1, AllRegisteredKept DEF WorkerInv, queryTable
    <3> QED
      BY <3>1, <3>2 DEF WorkerInv
  <2>2. CASE \E r \in running_list : preempt_query_in_exec(r, qcb[r])
    <3>1. PICK r \in running_list : preempt_query_in_exec(r, qcb[r])
      BY <2>2
    <3>2. qcb[r] \in QueryBlocks /\ qcb[r].state \in {"RUNNING", "CANCELED"}
      BY <1>0 DEF QueryTableTypeOK, QueryTables
    <3>3. TablesInv'
      BY <1>0, <1>1, <3>1, <3>2, PreemptTablesInv
    <3>4. /\ \A q \in Queries : \/ qcb'[q].worker = qcb[q].worker
                                \/ qcb'[q].worker = NoWorker
          /\ \/ UNCHANGED toWorker
             \/ \E v \in Workers, m \in MasterPackages :
                   /\ toWorker' = SentToWorker(v, m)
                   /\ m.op # "ACK"
      BY <3>1, <3>2, PreemptSends
    <3>5. \A w \in Workers : Registered(w)'
      BY <1>0, <1>1, <3>4, AllRegisteredKept DEF WorkerInv
    <3> QED
      BY <3>3, <3>5 DEF WorkerInv
  <2> QED
    BY <1>3, <2>1, <2>2 DEF check_preemption
<1> QED
  BY <1>2, <1>3 DEF AgingThread

\* A received package: its sender is registered, unless it is a handshake.
LEMMA ReceivedFrom ==
    ASSUME QueryInv, NEW k, Assigned(k), WorkerInv, NEW w \in Workers, NEW op, Receive(w, op)
    PROVE  /\ op # "HANDSHAKE" => w \in worker_list
           /\ op = "HANDSHAKE" => Unknown(w) /\ fromWorker'[w] = <<>>
           /\ \A v \in Workers \ {w} : fromWorker'[v] = fromWorker[v]
           /\ fromWorker[w] # <<>> /\ fromWorker'[w] = Tail(fromWorker[w])
           /\ UNCHANGED workerClosed
           /\ op \in {"READ", "END", "ERROR", "EVICTED"}
              /\ Head(fromWorker[w]).q \in running_list
              => qcb[Head(fromWorker[w]).q].worker = w
<1> DEFINE s == fromWorker[w]
           q == Head(s).q
<1>0. /\ s \in Seq(WorkerPackages) /\ s # <<>> /\ Head(s).op = op
      /\ fromWorker'[w] = Tail(s) /\ UNCHANGED workerClosed
      /\ \A v \in Workers \ {w} : fromWorker'[v] = fromWorker[v]
  BY DEF Receive, QueryInv, Typed, WireTypeOK
<1>1. Registered(w)
  BY DEF WorkerInv
<1>2. op # "HANDSHAKE" => w \in worker_list
  BY <1>0, <1>1, ChannelKinds DEF Registered
<1>3. op = "HANDSHAKE" => Unknown(w) /\ fromWorker'[w] = <<>>
  BY <1>0, <1>1, ChannelKinds DEF Registered
<1>4. ASSUME op \in {"READ", "END", "ERROR", "EVICTED"}, q \in running_list
      PROVE  qcb[q].worker = w
  <2>1. Concerns(Head(s), q)
    BY <1>0, <1>4 DEF Concerns
  <2>2. About(s, q)
    BY <1>0, <2>1, TailChannel
  <2>3. q \in Queries
    BY <1>4 DEF QueryInv, QueryTables
  <2> QED
    BY <1>4, <2>2, <2>3 DEF Assigned, QueryAssigned, PairInv, RunningAt, Involved
<1> QED
  BY <1>0, <1>2, <1>3, <1>4

\* The thread of a Worker connection keeps the tables of the Workers.
LEMMA WorkerThreadWorkers ==
    ASSUME QueryInv, NEW k, Assigned(k), WorkerInv, NEW w \in Workers, WorkerThread(w),
           UNCHANGED phase
    PROVE  WorkerInv'
<1> DEFINE r == Head(fromWorker[w]).q
           Idle == [query |-> NoQuery, state |-> "IDLE"]
<1>0. /\ Typed /\ QueryTables /\ TablesInv /\ QueryTableTypeOK /\ WorkerTableTypeOK
      /\ UNCHANGED phase /\ running_list \subseteq Queries
      /\ \A v \in Workers : Registered(v)
      /\ NoQuery \notin Queries /\ ThreadsTypeOK
  BY WireAssumption DEF QueryInv, WorkerInv, Typed, MasterTypeOK, QueryTables
<1>1. ASSUME NEW x \in Queries, cleanup_query_resources(x)
      PROVE  /\ qcb'[x].state = "NONE" /\ qcb'[x].worker = NoWorker
             /\ running_list' = running_list \ {x}
             /\ \A q \in Queries \ {x} : qcb'[q] = qcb[q]
  BY <1>0, <1>1 DEF cleanup_query_resources, FreedBlock, QueryTableTypeOK
<1>2. CASE create_worker(w)
  <2>1. /\ Receive(w, "HANDSHAKE") /\ UNCHANGED <<qcb, running_list, busy_list, toWorker>>
        /\ worker_list' = worker_list \cup {w} /\ idle_list' = Append(idle_list, w)
        /\ wcb' = [wcb EXCEPT ![w] = Idle]
        /\ workerThread' = [workerThread EXCEPT ![w] = "ack"]
    BY <1>2 DEF create_worker, WorkerThreadAt, queryTable
  <2>2. /\ Unknown(w) /\ fromWorker'[w] = <<>> /\ UNCHANGED workerClosed
        /\ \A v \in Workers \ {w} : fromWorker'[v] = fromWorker[v]
    BY <2>1, ReceivedFrom
  <2>3. /\ w \notin ToSet(idle_list) /\ w \notin busy_list
        /\ \A q \in Queries : qcb[q].worker # w
    BY <1>0, <2>2 DEF Unknown, TablesInv, WorkerTables
  <2>4. /\ IsInjective(idle_list') /\ ToSet(idle_list') = ToSet(idle_list) \cup {w}
        /\ wcb'[w] = Idle
        /\ \A v \in Workers \ {w} : wcb'[v] = wcb[v]
    BY <1>0, <2>1, <2>3, AppendLists DEF TablesInv, WorkerTables, WorkerTableTypeOK
  <2>5. \A v \in Workers : wcb'[v].query \in running_list => qcb'[wcb'[v].query].worker = v
    BY <1>0, <2>1, <2>4 DEF TablesInv
  <2>6. WorkerTables'
    <3>1. \A v \in ToSet(idle_list') : wcb'[v] = Idle
      BY <1>0, <2>4, ListRange DEF TablesInv, WorkerTables, WorkerTableTypeOK
    <3>2. worker_list' \subseteq Workers
      BY <1>0, <2>1 DEF WorkerTableTypeOK
    <3>3. \A q \in running_list : qcb[q].worker \in Workers \ ToSet(idle_list')
      BY <1>0, <2>3, <2>4 DEF TablesInv, WorkerTables
    <3>4. /\ ToSet(idle_list') \cap busy_list = {}
          /\ ToSet(idle_list') \cup busy_list = worker_list'
      BY <1>0, <2>1, <2>3, <2>4 DEF TablesInv, WorkerTables
    <3> QED
      BY <2>1, <2>4, <2>5, <3>1, <3>2, <3>3, <3>4 DEF WorkerTables
  <2>7. \A v \in Workers : wcb'[v].query \in Queries => qcb'[wcb'[v].query].state # "READY"
    BY <1>0, <2>1, <2>4 DEF TablesInv
  <2>8. TablesInv'
    BY <1>0, <2>1, <2>5, <2>6, <2>7 DEF TablesInv
  <2>9. ASSUME NEW v \in Workers \ {w} PROVE Registered(v)'
    <3>1. workerThread'[v] = workerThread[v]
      BY <1>0, <2>1 DEF ThreadsTypeOK
    <3> QED
      BY <1>0, <2>1, <2>2, <2>9, <3>1, RegisteredKept
  <2>10. Registered(w)'
    <3>1. phase[w] # "off"
      BY <1>0, <2>1 DEF Registered, Receive
    <3>2. ~Greets(fromWorker'[w]) /\ ~Talks(fromWorker'[w])
      BY <2>2 DEF Greets, Talks
    <3> QED
      BY <1>0, <2>1, <2>2, <3>1, <3>2 DEF Registered
  <2> QED
    BY <2>8, <2>9, <2>10 DEF WorkerInv
<1>3. CASE SendAck(w)
  <2>1. /\ UNCHANGED <<qcb, running_list, wcb, worker_list, idle_list, busy_list>>
        /\ UNCHANGED <<fromWorker, workerClosed>>
        /\ workerThread[w] = "ack"
        /\ UNCHANGED toWorker \/ toWorker' = SentToWorker(w, [op |-> "ACK"])
    BY <1>3 DEF SendAck, queryTable, workerTable, WorkerThreadAt
  <2>2. \A v \in Workers : workerThread'[v] = "ack" => workerThread[v] = "ack"
    BY <1>0, <1>3 DEF SendAck, WorkerThreadAt, ThreadsTypeOK
  <2>3. w \in worker_list
    BY <1>0, <2>1 DEF Registered
  <2>4. TablesInv'
    BY <1>0, <2>1, TablesKept
  <2>5. [op |-> "ACK"] \in MasterPackages
    BY DEF MasterPackages
  <2>6. \A v \in Workers : Registered(v)'
    BY <1>0, <2>1, <2>2, <2>3, <2>5, AllRegisteredKept
  <2> QED
    BY <2>4, <2>6 DEF WorkerInv
<1>4. CASE WorkerThreadDispatch(w)
  <2>1. try_dispatch /\ UNCHANGED <<fromWorker, workerClosed>>
    BY <1>4 DEF WorkerThreadDispatch
  <2>2. \A v \in Workers : workerThread'[v] = "ack" => workerThread[v] = "ack"
    BY <1>0, <1>4 DEF WorkerThreadDispatch, WorkerThreadAt, ThreadsTypeOK
  <2>3. TablesInv'
    BY <1>0, <2>1, DispatchTablesInv
  <2>4. \A v \in Workers : Registered(v)'
    BY <1>0, <2>1, <2>2, DispatchSends, AllRegisteredKept
  <2> QED
    BY <2>3, <2>4 DEF WorkerInv
<1>5. ASSUME NEW op \in {"READ", "END", "ERROR", "EVICTED"}, Receive(w, op), UNCHANGED toWorker,
             UNCHANGED worker_list,
             \A q \in Queries : \/ qcb'[q].worker = qcb[q].worker
                                \/ qcb'[q].worker \in worker_list \cup {NoWorker},
             \E to \in {"recv", "dispatch"} : WorkerThreadAt(w, "recv", to)
      PROVE  \A v \in Workers : Registered(v)'
  <2>1. \A v \in Workers : workerThread'[v] = "ack" => workerThread[v] = "ack"
    BY <1>0, <1>5 DEF WorkerThreadAt, ThreadsTypeOK
  <2>2. /\ \A v \in Workers : \/ fromWorker'[v] = fromWorker[v]
                              \/ fromWorker[v] # <<>> /\ fromWorker'[v] = Tail(fromWorker[v])
        /\ UNCHANGED workerClosed
    BY <1>5, ReceivedFrom
  <2> QED
    BY <1>0, <1>5, <2>1, <2>2, AllRegisteredKept
<1>6. CASE manage_read_message_from_worker(w)
  <2>1. /\ Receive(w, "READ") /\ UNCHANGED <<qcb, running_list, toWorker>>
        /\ UNCHANGED <<wcb, worker_list, idle_list, busy_list>>
        /\ \E to \in {"recv", "dispatch"} : WorkerThreadAt(w, "recv", to)
    BY <1>6 DEF manage_read_message_from_worker, queryTable, workerTable
  <2>2. TablesInv'
    BY <1>0, <2>1, TablesKept
  <2> QED
    BY <1>5, <2>1, <2>2 DEF WorkerInv
<1>7. CASE manage_worker_evict_response(w)
  <2>1. /\ Receive(w, "EVICTED") /\ UNCHANGED <<toWorker, worker_list>>
        /\ \E to \in {"recv", "dispatch"} : WorkerThreadAt(w, "recv", to)
    BY <1>7 DEF manage_worker_evict_response
  <2>2. CASE UNCHANGED <<queryTable, wcb, idle_list, busy_list>>
    <3>1. TablesInv'
      BY <1>0, <2>1, <2>2, TablesKept DEF queryTable
    <3> QED
      BY <1>5, <2>1, <2>2, <3>1 DEF WorkerInv, queryTable
  <2>3. CASE r \in running_list
    <3>1. r \in Queries /\ qcb[r].worker = w /\ w \in worker_list
      BY <1>0, <2>1, <2>3, ReceivedFrom
    <3>2. w \in busy_list
      BY <1>0, <2>3, <3>1 DEF TablesInv, WorkerTables
    <3>3. FreeWorker(w)
      BY <1>7, <2>3, <3>2 DEF manage_worker_evict_response
    <3>4. /\ running_list' = running_list \ {r}
          /\ \A q \in Queries \ {r} : qcb'[q] = qcb[q]
          /\ qcb'[r].worker = NoWorker
      <4>1. CASE cleanup_query_resources(r)
        BY <1>1, <3>1, <4>1
      <4>2. CASE /\ qcb' = [qcb EXCEPT ![r] = RequeuedBlock(@, Head(fromWorker[w]).pc)]
                 /\ running_list' = running_list \ {r}
        BY <1>0, <3>1, <4>2 DEF RequeuedBlock, QueryTableTypeOK, QueryBlocks
      <4> QED
        BY <1>7, <2>3, <4>1, <4>2 DEF manage_worker_evict_response
    <3>5. TablesInv'
      BY <1>0, <2>1, <2>3, <3>1, <3>3, <3>4, TablesFreed
    <3> QED
      BY <1>5, <2>1, <3>4, <3>5 DEF WorkerInv
  <2> QED
    BY <1>7, <2>2, <2>3 DEF manage_worker_evict_response
<1>8. CASE manage_worker_end_query(w)
  <2>1. /\ Receive(w, "END") /\ UNCHANGED <<toWorker, worker_list>>
        /\ \E to \in {"recv", "dispatch"} : WorkerThreadAt(w, "recv", to)
    BY <1>8 DEF manage_worker_end_query
  <2>2. CASE /\ UNCHANGED <<queryTable, idle_list, busy_list>>
             /\ wcb' = [wcb EXCEPT ![w] = Idle]
    <3>1. /\ UNCHANGED <<qcb, running_list>>
          /\ wcb'[w] = Idle /\ \A v \in Workers \ {w} : wcb'[v] = wcb[v]
      BY <1>0, <2>2 DEF queryTable, WorkerTableTypeOK
    <3>2. \A v \in Workers : wcb'[v].query \in running_list => qcb'[wcb'[v].query].worker = v
      BY <1>0, <3>1 DEF TablesInv
    <3>3. WorkerTables'
      <4>1. ToSet(idle_list) \subseteq Workers /\ worker_list \subseteq Workers
        BY <1>0, ListRange DEF WorkerTableTypeOK
      <4> QED
        BY <1>0, <2>1, <2>2, <3>1, <3>2, <4>1 DEF TablesInv, WorkerTables
    <3>4. TablesInv'
      BY <1>0, <3>1, <3>2, <3>3 DEF TablesInv
    <3> QED
      BY <1>5, <2>1, <3>1, <3>4 DEF WorkerInv
  <2>3. CASE r \in running_list /\ FreeWorker(w) /\ cleanup_query_resources(r)
    <3>1. r \in Queries /\ qcb[r].worker = w /\ w \in worker_list
      BY <1>0, <2>1, <2>3, ReceivedFrom
    <3>2. /\ running_list' = running_list \ {r}
          /\ \A q \in Queries \ {r} : qcb'[q] = qcb[q]
          /\ qcb'[r].worker = NoWorker
      BY <1>1, <2>3, <3>1
    <3>3. TablesInv'
      BY <1>0, <2>1, <2>3, <3>1, <3>2, TablesFreed
    <3> QED
      BY <1>5, <2>1, <3>2, <3>3 DEF WorkerInv
  <2> QED
    BY <1>8, <2>2, <2>3 DEF manage_worker_end_query
<1>9. CASE handle_error_from_storage(w)
  <2> DEFINE x == wcb[w].query
  <2>1. /\ Receive(w, "ERROR") /\ UNCHANGED <<toWorker, worker_list>>
        /\ \E to \in {"recv", "dispatch"} : WorkerThreadAt(w, "recv", to)
    BY <1>9 DEF handle_error_from_storage
  <2>2. CASE UNCHANGED <<queryTable, wcb, idle_list, busy_list>>
    <3>1. TablesInv'
      BY <1>0, <2>1, <2>2, TablesKept DEF queryTable
    <3> QED
      BY <1>5, <2>1, <2>2, <3>1 DEF WorkerInv, queryTable
  <2>3. CASE x \in running_list /\ FreeWorker(w) /\ FinalizeWithError(x)
    <3>1. x \in Queries /\ qcb[x].worker = w /\ w \in worker_list
      BY <1>0, <2>1, <2>3, ReceivedFrom DEF TablesInv
    <3> HIDE DEF x
    <3>2. /\ running_list' = running_list \ {x}
          /\ \A q \in Queries \ {x} : qcb'[q] = qcb[q]
          /\ qcb'[x].worker = NoWorker
      BY <1>1, <2>3, <3>1 DEF FinalizeWithError
    <3>3. TablesInv'
      BY <1>0, <2>1, <2>3, <3>1, <3>2, TablesFreed
    <3> QED
      BY <1>5, <2>1, <3>2, <3>3 DEF WorkerInv
  <2> QED
    BY <1>9, <2>2, <2>3 DEF handle_error_from_storage
<1>10. CASE handle_worker_disconnection(w)
  <2>1. /\ workerClosed[w] /\ fromWorker[w] = <<>>
        /\ UNCHANGED <<toWorker, fromWorker, workerClosed>>
        /\ workerThread[w] = "recv" /\ workerThread'[w] = "gone"
        /\ \A v \in Workers \ {w} : workerThread'[v] = workerThread[v]
    BY <1>0, <1>10 DEF handle_worker_disconnection, WorkerThreadAt, ThreadsTypeOK
  <2>2. CASE UNCHANGED <<queryTable, workerTable>>
    <3>1. UNCHANGED <<qcb, running_list, wcb, worker_list, idle_list, busy_list>>
      BY <2>2 DEF queryTable, workerTable
    <3>2. TablesInv'
      BY <1>0, <3>1, TablesKept
    <3>3. \A v \in Workers : workerThread'[v] = "ack" => workerThread[v] = "ack"
      BY <2>1
    <3>4. \A v \in Workers : Registered(v)'
      BY <1>0, <2>1, <3>1, <3>3, AllRegisteredKept
    <3> QED
      BY <3>2, <3>4 DEF WorkerInv
  <2>3. CASE EndQueryOf(w) /\ cleanup_worker_resources(w)
    <3>1. /\ \A q \in running_list' : q \in running_list /\ qcb'[q].worker = qcb[q].worker
          /\ \A q \in Queries : \/ qcb'[q].worker = qcb[q].worker
                                \/ qcb'[q].worker = NoWorker
          /\ \A q \in Queries : qcb'[q].state = "READY" => qcb[q].state = "READY"
      <4>1. CASE UNCHANGED queryTable
        BY <4>1 DEF queryTable
      <4>2. CASE wcb[w].query \in ToSet(query_list) /\ FinalizeWithError(wcb[w].query)
        <5>1. wcb[w].query \in Queries
          BY <1>0, <4>2 DEF QueryTables
        <5> QED
          BY <1>0, <1>1, <4>2, <5>1 DEF FinalizeWithError
      <4> QED
        BY <2>3, <4>1, <4>2 DEF EndQueryOf
    <3>2. /\ worker_list' = worker_list \ {w} /\ busy_list' = busy_list \ {w}
          /\ IsInjective(idle_list') /\ ToSet(idle_list') = ToSet(idle_list) \ {w}
          /\ wcb'[w].query = NoQuery
          /\ \A v \in Workers \ {w} : wcb'[v] = wcb[v]
      BY <1>0, <2>3, RemoveLists DEF cleanup_worker_resources, list_remove_element, TablesInv,
                                     WorkerTables, WorkerTableTypeOK
    <3>3. \A v \in Workers : wcb'[v].query \in running_list' => qcb'[wcb'[v].query].worker = v
      BY <1>0, <3>1, <3>2 DEF TablesInv
    <3>4. WorkerTables'
      <4>1. \A v \in ToSet(idle_list') : wcb'[v] = Idle
        BY <1>0, <3>2, ListRange DEF TablesInv, WorkerTables, WorkerTableTypeOK
      <4>2. worker_list' \subseteq Workers
        BY <1>0, <3>2 DEF WorkerTableTypeOK
      <4>3. \A q \in running_list' : qcb'[q].worker \in Workers \ ToSet(idle_list')
        BY <1>0, <3>1, <3>2 DEF TablesInv, WorkerTables
      <4>4. /\ ToSet(idle_list') \cap busy_list' = {}
            /\ ToSet(idle_list') \cup busy_list' = worker_list'
        BY <1>0, <3>2 DEF TablesInv, WorkerTables
      <4> QED
        BY <3>2, <3>3, <4>1, <4>2, <4>3, <4>4 DEF WorkerTables
    <3>5. \A v \in Workers : wcb'[v].query \in Queries => qcb'[wcb'[v].query].state # "READY"
      BY <1>0, <3>1, <3>2 DEF TablesInv
    <3>6. TablesInv'
      BY <1>0, <3>1, <3>3, <3>4, <3>5 DEF TablesInv
    <3>7. ASSUME NEW v \in Workers \ {w} PROVE Registered(v)'
      BY <1>0, <2>1, <3>1, <3>2, <3>7, RegisteredKept, WireAssumption
    <3>8. Registered(w)'
      <4>1. ~Greets(fromWorker'[w]) /\ ~Talks(fromWorker'[w]) /\ ~Acknowledges(toWorker'[w])
            /\ toWorker'[w] = <<>>
        BY <1>0, <2>1 DEF Greets, Talks, Acknowledges, Registered
      <4>2. Unknown(w) => Unknown(w)'
        BY <3>1, <3>2, WireAssumption DEF Unknown
      <4> QED
        BY <1>0, <2>1, <4>1, <4>2 DEF Registered, Running
    <3> QED
      BY <3>6, <3>7, <3>8 DEF WorkerInv
  <2> QED
    BY <1>10, <2>2, <2>3 DEF handle_worker_disconnection
<1> QED
  BY <1>2, <1>3, <1>4, <1>6, <1>7, <1>8, <1>9, <1>10 DEF WorkerThread

\* A Worker that runs is registered, and sends no second handshake.
LEMMA SpokenRegistered ==
    ASSUME WireTypeOK, NEW v \in Workers, Running(v), \A w \in Workers : Registered(w),
           \/ UNCHANGED fromWorker
           \/ \E p \in Seq(WorkerPackages) :
                 /\ \A i \in DOMAIN p : p[i].op # "HANDSHAKE"
                 /\ fromWorker' = [fromWorker EXCEPT ![v] = @ \o p],
           \/ UNCHANGED toWorker
           \/ toWorker[v] # <<>> /\ toWorker' = [toWorker EXCEPT ![v] = Tail(@)],
           UNCHANGED <<workerClosed, qcb, worker_list, workerThread, phase>>
    PROVE  \A w \in Workers : Registered(w)'
<1>0. /\ fromWorker[v] \in Seq(WorkerPackages) /\ toWorker[v] \in Seq(MasterPackages)
      /\ \A w \in Workers \ {v} : fromWorker'[w] = fromWorker[w] /\ toWorker'[w] = toWorker[w]
  BY DEF WireTypeOK
<1>1. v \in worker_list /\ ~Greets(fromWorker[v]) /\ phase[v] # "off" /\ ~workerClosed[v]
  BY DEF Registered, Unknown, Running
<1>2. ASSUME NEW p \in Seq(WorkerPackages), \A i \in DOMAIN p : p[i].op # "HANDSHAKE"
      PROVE  ~Greets(fromWorker[v] \o p)
  <2> DEFINE s == fromWorker[v]
             t == s \o p
  <2>1. /\ t \in Seq(WorkerPackages) /\ Len(t) = Len(s) + Len(p)
        /\ \A i \in 1..Len(s) + Len(p) : t[i] = IF i <= Len(s) THEN s[i] ELSE p[i - Len(s)]
    BY <1>0, ConcatProperties
  <2>2. /\ DOMAIN t = 1..Len(s) + Len(p) /\ DOMAIN s = 1..Len(s) /\ DOMAIN p = 1..Len(p)
        /\ Len(s) \in Nat /\ Len(p) \in Nat
    BY <1>0, <2>1, LenProperties
  <2> HIDE DEF t, s
  <2>3. ASSUME NEW i \in DOMAIN t PROVE t[i].op # "HANDSHAKE"
    <3>1. \/ i \in DOMAIN s /\ i <= Len(s)
          \/ i - Len(s) \in DOMAIN p /\ ~(i <= Len(s))
      BY <2>2
    <3>2. \A j \in DOMAIN s : s[j].op # "HANDSHAKE"
      BY <1>1 DEF Greets, s
    <3> QED
      BY <1>2, <2>1, <2>2, <3>1, <3>2
  <2> QED
    BY <2>3 DEF Greets, t, s
<1>3. ~Greets(fromWorker'[v])
  <2>1. CASE UNCHANGED fromWorker
    BY <1>1, <2>1
  <2>2. ASSUME NEW p \in Seq(WorkerPackages), \A i \in DOMAIN p : p[i].op # "HANDSHAKE",
               fromWorker' = [fromWorker EXCEPT ![v] = @ \o p]
        PROVE  ~Greets(fromWorker'[v])
    <3>1. fromWorker'[v] = fromWorker[v] \o p
      BY <2>2 DEF WireTypeOK
    <3> QED
      BY <1>2, <2>2, <3>1
  <2> QED
    BY <2>1, <2>2
<1>4. Registered(v)'
  BY <1>1, <1>3 DEF Registered, Running
<1>5. ASSUME NEW w \in Workers \ {v} PROVE Registered(w)'
  BY <1>0 DEF Registered, Running, Unknown
<1> QED
  BY <1>4, <1>5

\* The handshake and the end of a connection.
LEMMA LinkRegistered ==
    ASSUME WireTypeOK, LinkTypeOK, \A w \in Workers : Registered(w),
           UNCHANGED <<qcb, worker_list, workerThread>>, NEW v \in Workers,
           Connect(v) \/ Accepted(v) \/ Refused(v) \/ Crash(v)
    PROVE  \A w \in Workers : Registered(w)'
<1>1. CASE Connect(v)
  <2>1. /\ fromWorker[v] = <<>> /\ Unknown(v) /\ phase'[v] = "connecting"
        /\ fromWorker'[v] = <<[op |-> "HANDSHAKE"]>>
        /\ UNCHANGED <<toWorker, workerClosed>>
        /\ \A w \in Workers \ {v} : fromWorker'[w] = fromWorker[w] /\ phase'[w] = phase[w]
    <3>1. fromWorker[v] = <<>> /\ Unknown(v) /\ phase'[v] = "connecting"
      BY <1>1 DEF Connect, Registered, LinkTypeOK
    <3>2. Append(<<>>, [op |-> "HANDSHAKE"]) = <<[op |-> "HANDSHAKE"]>>
      OBVIOUS
    <3>3. fromWorker'[v] = Append(fromWorker[v], [op |-> "HANDSHAKE"])
      BY <1>1 DEF Connect, WireTypeOK
    <3> QED
      BY <1>1, <3>1, <3>2, <3>3 DEF Connect, WireTypeOK, LinkTypeOK
  <2>2. Len(fromWorker'[v]) = 1 /\ ~Talks(fromWorker'[v])
    BY <2>1 DEF Talks
  <2>3. Registered(v)'
    BY <2>1, <2>2 DEF Registered, Unknown, Running
  <2>4. ASSUME NEW w \in Workers \ {v} PROVE Registered(w)'
    BY <2>1 DEF Registered, Unknown, Running
  <2> QED
    BY <2>3, <2>4
<1>2. CASE Accepted(v)
  <2>1. /\ toWorker[v] \in Seq(MasterPackages) /\ toWorker[v] # <<>>
        /\ Head(toWorker[v]).op = "ACK" /\ toWorker'[v] = Tail(toWorker[v])
        /\ UNCHANGED <<fromWorker, workerClosed>> /\ ~workerClosed[v] /\ phase'[v] = "up"
        /\ \A w \in Workers \ {v} : toWorker'[w] = toWorker[w] /\ phase'[w] = phase[w]
    BY <1>2 DEF Accepted, Answered, WireTypeOK, LinkTypeOK
  <2>2. v \in worker_list
    BY <2>1, ChannelKinds DEF Registered
  <2>3. Registered(v)'
    BY <2>1, <2>2 DEF Registered, Unknown, Running
  <2>4. ASSUME NEW w \in Workers \ {v} PROVE Registered(w)'
    BY <2>1 DEF Registered, Unknown, Running
  <2> QED
    BY <2>3, <2>4
<1>3. CASE Refused(v) \/ Crash(v)
  <2>1. /\ workerClosed'[v] /\ toWorker'[v] = <<>> /\ UNCHANGED <<fromWorker, phase>>
        /\ \A w \in Workers \ {v} : /\ toWorker'[w] = toWorker[w]
                                    /\ workerClosed'[w] = workerClosed[w]
    BY <1>3 DEF Refused, Crash, CloseLink, WireTypeOK
  <2>2. ~Acknowledges(toWorker'[v])
    BY <2>1 DEF Acknowledges
  <2>3. Registered(v)'
    BY <2>1, <2>2 DEF Registered, Unknown, Running
  <2>4. ASSUME NEW w \in Workers \ {v} PROVE Registered(w)'
    BY <2>1 DEF Registered, Unknown, Running
  <2> QED
    BY <2>3, <2>4
<1> QED
  BY <1>1, <1>2, <1>3

\* Every step of the Master keeps the tables of the Workers.
LEMMA MasterWorkers ==
    ASSUME QueryInv, NEW k, Assigned(k), WorkerInv, MasterNext, UNCHANGED phase
    PROVE  WorkerInv'
BY QueryThreadWorkers, WorkerThreadWorkers, AgingThreadWorkers DEF MasterNext

\* Steps outside the Master leave the tables of the Workers alone.
LEMMA OutsideWorkers ==
    ASSUME QueryInv, WorkerInv, UNCHANGED master,
           \/ UNCHANGED <<toWorker, fromWorker, workerClosed, phase>>
           \/ \A w \in Workers : Registered(w)'
    PROVE  WorkerInv'
<1>1. UNCHANGED <<qcb, running_list, wcb, worker_list, idle_list, busy_list, workerThread>>
  BY DEF master, queryTable, workerTable, threads
<1>2. TablesInv'
  BY <1>1, TablesKept DEF WorkerInv
<1>3. ASSUME UNCHANGED <<toWorker, fromWorker, workerClosed, phase>>
      PROVE  \A w \in Workers : Registered(w)'
  BY <1>1, <1>3 DEF WorkerInv, Registered, Unknown, Running
<1> QED
  BY <1>2, <1>3 DEF WorkerInv

\* At the start no Worker is connected.
LEMMA InitWorkers ==
    ASSUME WireInit, MasterInit, LinkInit
    PROVE  WorkerInv
<1>1. /\ idle_list = <<>> /\ busy_list = {} /\ worker_list = {} /\ running_list = {}
      /\ \A w \in Workers : /\ wcb[w].query = NoQuery /\ toWorker[w] = <<>> /\ fromWorker[w] = <<>>
                            /\ phase[w] = "off" /\ workerThread[w] = "recv"
                            /\ workerClosed[w] = FALSE
      /\ \A q \in Queries : qcb[q].worker = NoWorker
  BY DEF WireInit, MasterInit, LinkInit
<1>2. IsInjective(idle_list) /\ ToSet(idle_list) = {}
  BY <1>1 DEF IsInjective, ToSet
<1>3. TablesInv
  BY <1>1, <1>2, WireAssumption DEF TablesInv, WorkerTables
<1>4. \A w \in Workers : Registered(w)
  BY <1>1, WireAssumption DEF Registered, Unknown, Running, Greets, Talks, Acknowledges
<1> QED
  BY <1>3, <1>4 DEF WorkerInv

-----------------------------------------------------------------------------
(* The worker of a running query stays registered, provided that a Worker  *)
(* whose instructions fail does not also crash: the END that follows a     *)
(* storage error empties the worker's block while the next query runs, and *)
(* the end of the connection would then leave that query behind.           *)

\* q is on its way to w, executed by w, or reported finished by w.
Outstanding(w, q, k) ==
    \/ Has(toWorker[w], "START", q)
    \/ q \in k.holding[w] /\ ~workerClosed[w]
    \/ Has(fromWorker[w], "END", q)

\* How a Worker's connection may have ended and what it may have said.
LinkSafe(w, F) ==
    /\ workerClosed[w] => w \in Crashers \/ phase[w] # "up"
    /\ phase[w] # "up" => ~Talks(fromWorker[w])
    /\ w \notin F => \A i \in DOMAIN fromWorker[w] : fromWorker[w][i].op # "ERROR"

\* What a Worker that never fails was given runs until it says otherwise, and
\* the block of the worker of a running query names that query.
Retained(w, q, k, F) ==
    /\ w \notin F /\ Outstanding(w, q, k) => q \in running_list
    /\ q \in running_list /\ qcb[q].worker = w
       => /\ w \in worker_list
          /\ phase[w] # "up" \/ w \notin F => wcb[w].query = q

RetainInv(k, F) == \A w \in Workers : LinkSafe(w, F) /\ \A q \in Queries : Retained(w, q, k, F)

\* A step that keeps or ends the link of w and q keeps a running query with its Worker.
LEMMA RetainedKept ==
    ASSUME NEW k, NEW F, NEW w \in Workers, NEW q \in Queries, Retained(w, q, k, F),
           UNCHANGED phase,
           Outstanding(w, q, k)' => Outstanding(w, q, k),
           q \in running_list' => q \in running_list /\ qcb'[q].worker = qcb[q].worker,
           q \in running_list /\ q \notin running_list' => ~Outstanding(w, q, k)' \/ w \in F,
           q \in running_list' /\ qcb[q].worker = w
           => /\ w \in worker_list => w \in worker_list'
              /\ \/ wcb'[w].query = wcb[w].query
                 \/ phase[w] = "up" /\ w \in F
    PROVE  Retained(w, q, k, F)'
BY DEF Retained

\* The Master receives packages and says nothing to start q.
LEMMA OutstandingShrinks ==
    ASSUME Typed, NEW k, NEW q \in Queries, UNCHANGED workerClosed,
           \A w \in Workers : \/ fromWorker'[w] = fromWorker[w]
                              \/ fromWorker[w] # <<>> /\ fromWorker'[w] = Tail(fromWorker[w]),
           \/ UNCHANGED toWorker
           \/ \E v \in Workers, m \in MasterPackages :
                 toWorker' = SentToWorker(v, m) /\ ~Matches(m, "START", q)
    PROVE  \A w \in Workers : Outstanding(w, q, k)' => Outstanding(w, q, k)
<1> SUFFICES ASSUME NEW w \in Workers PROVE Outstanding(w, q, k)' => Outstanding(w, q, k)
  OBVIOUS
<1>0. toWorker[w] \in Seq(MasterPackages) /\ fromWorker[w] \in Seq(WorkerPackages)
  BY DEF Typed, WireTypeOK
<1>1. Has(fromWorker'[w], "END", q) => Has(fromWorker[w], "END", q)
  BY <1>0, TailChannel
<1>2. Has(toWorker'[w], "START", q) => Has(toWorker[w], "START", q)
  <2>1. CASE UNCHANGED toWorker
    BY <2>1
  <2>2. CASE \E v \in Workers, m \in MasterPackages :
                toWorker' = SentToWorker(v, m) /\ ~Matches(m, "START", q)
    <3>1. PICK v \in Workers, m \in MasterPackages :
                 toWorker' = SentToWorker(v, m) /\ ~Matches(m, "START", q)
      BY <2>2
    <3>2. toWorker'[w] = toWorker[w] \/ toWorker'[w] = Append(toWorker[w], m)
      BY <3>1 DEF SentToWorker, Typed, WireTypeOK
    <3> QED
      BY <1>0, <3>1, <3>2, AppendChannel
  <2> QED
    BY <2>1, <2>2
<1> QED
  BY <1>1, <1>2 DEF Outstanding

\* The Master only takes packages from the Workers' ends.
LEMMA MasterLinks ==
    ASSUME NEW k, NEW F, Typed, RetainInv(k, F), UNCHANGED <<phase, workerClosed>>,
           \A w \in Workers : \/ fromWorker'[w] = fromWorker[w]
                              \/ fromWorker[w] # <<>> /\ fromWorker'[w] = Tail(fromWorker[w])
    PROVE  \A w \in Workers : LinkSafe(w, F)'
<1> SUFFICES ASSUME NEW w \in Workers PROVE LinkSafe(w, F)'
  OBVIOUS
<1> DEFINE s == fromWorker[w]
           t == Tail(s)
<1>0. s \in Seq(WorkerPackages) /\ LinkSafe(w, F)
  BY DEF Typed, WireTypeOK, RetainInv
<1>1. CASE fromWorker'[w] = s
  BY <1>0, <1>1 DEF LinkSafe
<1>2. CASE s # <<>> /\ fromWorker'[w] = t
  <2>1. Talks(t) => Talks(s)
    BY <1>0, <1>2, ChannelKinds
  <2>2. \A i \in DOMAIN t : i + 1 \in DOMAIN s /\ t[i] = s[i + 1]
    <3>1. /\ t \in Seq(WorkerPackages) /\ Len(t) = Len(s) - 1
          /\ \A i \in 1..Len(t) : t[i] = s[i + 1]
      BY <1>0, <1>2, HeadTailProperties
    <3>2. DOMAIN s = 1..Len(s) /\ DOMAIN t = 1..Len(t) /\ Len(s) \in Nat
      BY <1>0, <3>1, LenProperties
    <3> HIDE DEF t
    <3> QED
      BY <3>1, <3>2
  <2> HIDE DEF t
  <2> QED
    BY <1>0, <1>2, <2>1, <2>2 DEF LinkSafe
<1> QED
  BY <1>1, <1>2

\* try_dispatch keeps every running query with its Worker.
LEMMA DispatchRetained ==
    ASSUME NEW k, NEW F, QueryInv, WorkerInv, RetainInv(k, F), try_dispatch,
           UNCHANGED <<phase, fromWorker, workerClosed>>,
           NEW v \in Workers, NEW x \in Queries
    PROVE  Retained(v, x, k, F)'
<1> DEFINE q == Head(ready_queue)
           w == Head(idle_list)
           m == [op |-> "START", q |-> q, pc |-> qcb[q].pc]
<1>0. /\ wcb \in [Workers -> WorkerBlocks] /\ idle_list \in Seq(Workers)
      /\ ready_queue \in Seq(Queries) /\ qcb \in [Queries -> QueryBlocks]
      /\ Typed /\ QueryTables /\ TablesInv /\ UNCHANGED worker_list /\ Retained(v, x, k, F)
  BY DEF QueryInv, WorkerInv, RetainInv, Typed, MasterTypeOK, WorkerTableTypeOK,
         QueryTableTypeOK, try_dispatch
<1>1. CASE NothingToDispatch
  <2>1. UNCHANGED <<qcb, running_list, wcb, toWorker>>
    BY <1>1 DEF try_dispatch
  <2> QED
    BY <1>0, <2>1 DEF Retained, Outstanding
<1>2. CASE ~NothingToDispatch
  <2>1. q \in Queries /\ q \in ToSet(ready_queue) /\ w \in Workers /\ w \in ToSet(idle_list)
    BY <1>0, <1>2, TailLists DEF NothingToDispatch
  <2>2. /\ q \notin running_list /\ w \in worker_list
        /\ \A y \in running_list : qcb[y].worker # w
    <3>1. q \notin running_list
      BY <1>0, <2>1 DEF QueryTables
    <3>2. w \in worker_list /\ \A y \in running_list : qcb[y].worker # w
      BY <1>0, <2>1 DEF TablesInv, WorkerTables
    <3> QED
      BY <3>1, <3>2
  <2>3. m \in MasterPackages /\ (x # q => ~Matches(m, "START", x))
    BY <1>0, <2>1 DEF MasterPackages, QueryBlocks, Matches
  <2> HIDE DEF q, w, m
  <2>4. CASE DispatchSent(q, w)
    <3>1. /\ running_list' = running_list \cup {q}
          /\ qcb'[q].worker = w /\ \A y \in Queries \ {q} : qcb'[y] = qcb[y]
          /\ wcb'[w].query = q /\ \A u \in Workers \ {w} : wcb'[u] = wcb[u]
          /\ toWorker' = SentToWorker(w, m)
      BY <1>0, <2>1, <2>4 DEF DispatchSent, m, QueryBlocks
    <3>2. CASE x = q
      BY <1>0, <2>2, <3>1, <3>2 DEF Retained
    <3>3. CASE x # q
      <4>1. Outstanding(v, x, k)' => Outstanding(v, x, k)
        BY <1>0, <2>1, <2>3, <3>1, <3>3, OutstandingShrinks
      <4> QED
        BY <1>0, <2>2, <3>1, <3>3, <4>1, RetainedKept
    <3> QED
      BY <3>2, <3>3
  <2>5. CASE DispatchReverted(q, w)
    <3>1. /\ UNCHANGED <<running_list, toWorker>>
          /\ \A y \in Queries \ {q} : qcb'[y] = qcb[y]
          /\ \A u \in Workers \ {w} : wcb'[u] = wcb[u]
      BY <1>0, <2>1, <2>5 DEF DispatchReverted
    <3>2. Outstanding(v, x, k)' => Outstanding(v, x, k)
      BY <3>1 DEF Outstanding
    <3> QED
      BY <1>0, <2>2, <3>1, <3>2, RetainedKept
  <2> QED
    BY <1>2, <2>4, <2>5 DEF try_dispatch, q, w
<1> QED
  BY <1>1, <1>2

\* A running query is preempted: its worker is registered, so it runs on.
LEMMA PreemptRetained ==
    ASSUME NEW k, NEW F, QueryInv, WorkerInv, RetainInv(k, F),
           NEW r \in running_list, NEW newBlock \in QueryBlocks,
           newBlock.worker = qcb[r].worker, preempt_query_in_exec(r, newBlock),
           UNCHANGED <<workerTable, phase, fromWorker, workerClosed>>,
           NEW v \in Workers, NEW x \in Queries
    PROVE  Retained(v, x, k, F)'
<1>0. /\ r \in Queries /\ qcb \in [Queries -> QueryBlocks] /\ Typed /\ Retained(v, x, k, F)
      /\ UNCHANGED <<wcb, worker_list>> /\ TablesInv /\ worker_list \subseteq Workers
  BY DEF QueryInv, QueryTables, Typed, MasterTypeOK, QueryTableTypeOK, WorkerTableTypeOK,
         workerTable, RetainInv, WorkerInv
<1>1. newBlock.worker \in worker_list
  <2>1. qcb[r].worker \in Workers
    BY <1>0 DEF TablesInv, WorkerTables
  <2>2. Retained(qcb[r].worker, r, k, F)
    BY <1>0, <2>1 DEF RetainInv
  <2> QED
    BY <2>2 DEF Retained
<1>2. /\ UNCHANGED running_list
      /\ \E pending \in BOOLEAN :
            qcb' = [qcb EXCEPT ![r] = [newBlock EXCEPT !.pending = pending]]
      /\ \/ UNCHANGED toWorker
         \/ toWorker' = SentToWorker(newBlock.worker, [op |-> "PREEMPT", q |-> r])
  BY <1>1 DEF preempt_query_in_exec
<1>3. qcb'[x].worker = qcb[x].worker
  BY <1>0, <1>2 DEF QueryBlocks
<1>4. [op |-> "PREEMPT", q |-> r] \in MasterPackages
      /\ ~Matches([op |-> "PREEMPT", q |-> r], "START", x)
  BY <1>0 DEF MasterPackages, Matches
<1>5. Outstanding(v, x, k)' => Outstanding(v, x, k)
  BY <1>0, <1>1, <1>2, <1>4, OutstandingShrinks
<1> QED
  BY <1>0, <1>2, <1>3, <1>5, RetainedKept

\* The query table stays as far as running queries go.
LEMMA IdleRetained ==
    ASSUME NEW k, NEW F, NEW v \in Workers, NEW x \in Queries, Retained(v, x, k, F),
           UNCHANGED <<wcb, worker_list, phase, running_list, toWorker, fromWorker, workerClosed>>,
           x \in running_list => qcb'[x].worker = qcb[x].worker
    PROVE  Retained(v, x, k, F)'
BY DEF Retained, Outstanding

\* The thread of a Query Control keeps every running query with its Worker.
LEMMA QueryThreadRetained ==
    ASSUME NEW k, NEW F, QueryInv, Assigned(k), WorkerInv, RetainInv(k, F),
           NEW r \in Queries, QueryThread(r),
           UNCHANGED phase
    PROVE  RetainInv(k, F)'
<1>0. /\ Typed /\ QueryTables /\ qcb \in [Queries -> QueryBlocks]
      /\ UNCHANGED phase
      /\ \A w \in Workers, q \in Queries : Retained(w, q, k, F)
  BY DEF QueryInv, RetainInv, Typed, MasterTypeOK, QueryTableTypeOK
<1>1. UNCHANGED <<fromWorker, workerClosed>>
  BY DEF QueryThread, manage_query_file_path, QueryThreadDispatch,
         handle_query_control_disconnection
<1>2. \A w \in Workers : LinkSafe(w, F)'
  BY <1>0, <1>1, MasterLinks
<1>3. ASSUME NEW v \in Workers, NEW x \in Queries PROVE Retained(v, x, k, F)'
  <2>1. CASE manage_query_file_path(r)
    <3>1. /\ UNCHANGED <<wcb, worker_list, running_list, toWorker>>
          /\ x # r => qcb'[x] = qcb[x]
      BY <1>0, <2>1 DEF manage_query_file_path, workerTable
    <3>2. r \notin running_list
      BY <1>0, <2>1 DEF manage_query_file_path, QueryInv, SubmittedOnce, QueryTables
    <3> QED
      BY <1>0, <1>1, <3>1, <3>2, IdleRetained
  <2>2. CASE QueryThreadDispatch(r)
    BY <1>0, <1>1, <2>2, DispatchRetained DEF QueryThreadDispatch
  <2>3. CASE handle_query_control_disconnection(r)
    <3>0. UNCHANGED workerTable /\ UNCHANGED <<wcb, worker_list>>
      BY <2>3 DEF handle_query_control_disconnection, workerTable
    <3>1. CASE UNCHANGED <<queryTable, toWorker>>
      BY <1>0, <1>1, <3>0, <3>1, IdleRetained DEF queryTable
    <3>2. CASE qcb[r].state = "READY" /\ FinalizeWithError(r) /\ UNCHANGED toWorker
      <4>1. /\ UNCHANGED running_list
            /\ x # r => qcb'[x] = qcb[x]
            /\ r \notin running_list
        BY <1>0, <3>2 DEF FinalizeWithError, cleanup_query_resources, QueryTables
      <4> QED
        BY <1>0, <1>1, <3>0, <3>2, <4>1, IdleRetained
    <3>3. CASE /\ qcb[r].state = "RUNNING"
               /\ preempt_query_in_exec(r, [qcb[r] EXCEPT !.state = "CANCELED"])
      <4> DEFINE newBlock == [qcb[r] EXCEPT !.state = "CANCELED"]
      <4>1. newBlock \in QueryBlocks /\ newBlock.worker = qcb[r].worker
        BY <1>0 DEF QueryBlocks, QueryStates
      <4>2. r \in running_list
        BY <1>0, <3>3 DEF QueryTables
      <4> HIDE DEF newBlock
      <4>3. preempt_query_in_exec(r, newBlock)
        BY <3>3 DEF newBlock
      <4> QED
        BY <1>0, <1>1, <3>0, <4>1, <4>2, <4>3, PreemptRetained
    <3> QED
      BY <2>3, <3>1, <3>2, <3>3 DEF handle_query_control_disconnection
  <2> QED
    BY <2>1, <2>2, <2>3 DEF QueryThread
<1> QED
  BY <1>2, <1>3 DEF RetainInv

\* The aging thread keeps every running query with its Worker.
LEMMA AgingThreadRetained ==
    ASSUME NEW k, NEW F, QueryInv, WorkerInv, RetainInv(k, F), AgingThread, UNCHANGED phase
    PROVE  RetainInv(k, F)'
<1>0. /\ Typed /\ QueryTables /\ QueryTableTypeOK /\ qcb \in [Queries -> QueryBlocks]
      /\ UNCHANGED phase
      /\ \A w \in Workers, q \in Queries : Retained(w, q, k, F)
  BY DEF QueryInv, RetainInv, Typed, MasterTypeOK, QueryTableTypeOK
<1>1. UNCHANGED <<fromWorker, workerClosed, workerTable>> /\ UNCHANGED <<wcb, worker_list>>
  BY DEF AgingThread, AgeReadyQueue, check_preemption, wire, workerTable
<1>2. \A w \in Workers : LinkSafe(w, F)'
  BY <1>0, <1>1, MasterLinks
<1>3. ASSUME NEW v \in Workers, NEW x \in Queries PROVE Retained(v, x, k, F)'
  <2>1. CASE AgeReadyQueue
    <3>1. UNCHANGED <<running_list, toWorker>>
      BY <2>1 DEF AgeReadyQueue, wire
    <3>2. qcb'[x].worker = qcb[x].worker
      <4>1. PICK f : qcb' = [y \in Queries |-> [qcb[y] EXCEPT !.priority = f[y]]]
        BY <2>1 DEF AgeReadyQueue
      <4> QED
        BY <1>0, <4>1 DEF QueryBlocks
    <3> QED
      BY <1>0, <1>1, <3>1, <3>2, IdleRetained
  <2>2. CASE UNCHANGED <<queryTable, toWorker>>
    BY <1>0, <1>1, <2>2, IdleRetained DEF queryTable
  <2>3. CASE \E r \in running_list : preempt_query_in_exec(r, qcb[r])
    <3>1. PICK r \in running_list : preempt_query_in_exec(r, qcb[r])
      BY <2>3
    <3>2. qcb[r] \in QueryBlocks
      BY <1>0 DEF QueryTables
    <3> QED
      BY <1>0, <1>1, <3>1, <3>2, PreemptRetained
  <2> QED
    BY <2>1, <2>2, <2>3 DEF AgingThread, check_preemption
<1> QED
  BY <1>2, <1>3 DEF RetainInv

\* The query whose END or eviction response is received is not outstanding
\* any more.
LEMMA EndedQuiet ==
    ASSUME QueryInv, NEW k, Assigned(k), WorkerInv, NEW w \in Workers, NEW op \in {"END",
           "EVICTED"},
           Receive(w, op), NEW q \in running_list, q = Head(fromWorker[w]).q,
           UNCHANGED toWorker, NEW v \in Workers
    PROVE  ~Outstanding(v, q, k)'
<1> DEFINE s == fromWorker[w]
<1>0. /\ s \in Seq(WorkerPackages) /\ s # <<>> /\ Head(s).op = op /\ Head(s).q = q
      /\ fromWorker'[w] = Tail(s) /\ q \in Queries
      /\ \A u \in Workers \ {w} : fromWorker'[u] = fromWorker[u]
  BY DEF Receive, QueryInv, Typed, WireTypeOK, QueryTables
<1>1. RunningAt(w, q, k) /\ RunningAt(v, q, k)
  BY <1>0 DEF Assigned, QueryAssigned, PairInv
<1>2. Concerns(Head(s), q) /\ Matches(Head(s), op, q)
  BY <1>0 DEF Concerns, Matches
<1>3. About(s, q) /\ Has(s, op, q)
  BY <1>0, <1>2, TailChannel
<1>4. CASE v = w
  <2>1. ~Has(toWorker[w], "START", q) /\ q \notin k.holding[w]
    BY <1>1, <1>3 DEF RunningAt
  <2>2. CASE op = "END"
    <3>1. ~Has(Tail(s), "END", q)
      BY <1>0, <1>1, <1>2, <2>2, TailChannel DEF RunningAt
    <3> QED
      BY <1>0, <1>4, <2>1, <3>1 DEF Outstanding
  <2>3. CASE op = "EVICTED"
    <3>1. ~About(Tail(s), q)
      BY <1>0, <1>1, <1>2, <2>3, TailChannel DEF RunningAt
    <3>2. ~Has(Tail(s), "END", q)
      BY <3>1 DEF About, Has, Concerns, Matches
    <3> QED
      BY <1>0, <1>4, <2>1, <3>2 DEF Outstanding
  <2> QED
    BY <2>2, <2>3
<1>5. CASE v # w
  <2>1. qcb[q].worker = w /\ ~Involved(v, q, k)
    BY <1>1, <1>3, <1>5 DEF RunningAt, Involved
  <2>2. ~Has(fromWorker[v], "END", q)
    BY <2>1 DEF Involved, About, Has, Concerns, Matches
  <2> QED
    BY <1>0, <1>5, <2>1, <2>2 DEF Outstanding, Involved
<1> QED
  BY <1>4, <1>5

\* A running query is outstanding at its worker only.
LEMMA ElsewhereQuiet ==
    ASSUME QueryInv, NEW k, Assigned(k), NEW q \in running_list, NEW v \in Workers,
           qcb[q].worker # v
    PROVE  ~Outstanding(v, q, k)
<1>1. q \in Queries
  BY DEF QueryInv, QueryTables
<1>2. ~Involved(v, q, k)
  BY <1>1 DEF Assigned, QueryAssigned, PairInv, RunningAt
<1>3. ~Has(fromWorker[v], "END", q)
  BY <1>2 DEF Involved, About, Has, Concerns, Matches
<1> QED
  BY <1>2, <1>3 DEF Involved, Outstanding

\* The thread of a Worker connection keeps every running query with its Worker.
LEMMA WorkerThreadRetained ==
    ASSUME NEW F, F \cap Crashers = {}, QueryInv, NEW k, Assigned(k), WorkerInv, RetainInv(k, F),
           NEW w \in Workers, WorkerThread(w), UNCHANGED phase
    PROVE  RetainInv(k, F)'
<1> DEFINE r == Head(fromWorker[w]).q
<1>0. /\ Typed /\ WireTypeOK /\ QueryTables /\ TablesInv /\ QueryTableTypeOK /\ WorkerTableTypeOK
      /\ UNCHANGED phase /\ running_list \subseteq Queries
      /\ qcb \in [Queries -> QueryBlocks] /\ wcb \in [Workers -> WorkerBlocks]
      /\ \A v \in Workers, q \in Queries : Retained(v, q, k, F)
      /\ \A v \in Workers : LinkSafe(v, F) /\ Registered(v)
  BY DEF QueryInv, WorkerInv, RetainInv, Typed, MasterTypeOK, QueryTables,
         QueryTableTypeOK, WorkerTableTypeOK
<1>1. ASSUME NEW x \in Queries, cleanup_query_resources(x)
      PROVE  /\ running_list' = running_list \ {x}
             /\ \A q \in Queries \ {x} : qcb'[q] = qcb[q]
  BY <1>0, <1>1 DEF cleanup_query_resources
<1>2. ASSUME NEW op, Receive(w, op)
      PROVE  /\ \A v \in Workers :
                   \/ fromWorker'[v] = fromWorker[v]
                   \/ fromWorker[v] # <<>> /\ fromWorker'[v] = Tail(fromWorker[v])
             /\ UNCHANGED workerClosed
             /\ \A v \in Workers : LinkSafe(v, F)'
             /\ UNCHANGED toWorker => \A v \in Workers, q \in Queries :
                                         Outstanding(v, q, k)' => Outstanding(v, q, k)
  <2>1. /\ \A v \in Workers :
              \/ fromWorker'[v] = fromWorker[v]
              \/ fromWorker[v] # <<>> /\ fromWorker'[v] = Tail(fromWorker[v])
        /\ UNCHANGED workerClosed
    BY <1>2, ReceivedFrom
  <2>2. \A v \in Workers : LinkSafe(v, F)'
    BY <1>0, <2>1, MasterLinks
  <2>3. ASSUME UNCHANGED toWorker, NEW v \in Workers, NEW q \in Queries
        PROVE  Outstanding(v, q, k)' => Outstanding(v, q, k)
    BY <1>0, <2>1, <2>3, OutstandingShrinks
  <2> QED
    BY <2>1, <2>2, <2>3
<1>3. CASE create_worker(w)
  <2>1. /\ Receive(w, "HANDSHAKE") /\ UNCHANGED <<qcb, running_list, toWorker>>
        /\ worker_list \subseteq worker_list'
        /\ \A v \in Workers \ {w} : wcb'[v] = wcb[v]
    BY <1>0, <1>3 DEF create_worker, queryTable
  <2>2. \A q \in Queries : qcb[q].worker # w
    BY <2>1, ReceivedFrom DEF Unknown
  <2>3. ASSUME NEW v \in Workers, NEW q \in Queries PROVE Retained(v, q, k, F)'
    <3>1. Outstanding(v, q, k)' => Outstanding(v, q, k)
      BY <1>2, <2>1
    <3> QED
      BY <1>0, <2>1, <2>2, <3>1, RetainedKept
  <2> QED
    BY <1>2, <2>1, <2>3 DEF RetainInv
<1>4. CASE SendAck(w)
  <2>1. /\ UNCHANGED <<qcb, running_list, wcb, worker_list, fromWorker, workerClosed>>
        /\ UNCHANGED toWorker \/ toWorker' = SentToWorker(w, [op |-> "ACK"])
    BY <1>4 DEF SendAck, queryTable, workerTable
  <2>2. [op |-> "ACK"] \in MasterPackages /\ \A q : ~Matches([op |-> "ACK"], "START", q)
    BY DEF MasterPackages, Matches
  <2>3. ASSUME NEW v \in Workers, NEW q \in Queries PROVE Retained(v, q, k, F)'
    <3>1. Outstanding(v, q, k)' => Outstanding(v, q, k)
      BY <1>0, <2>1, <2>2, OutstandingShrinks
    <3> QED
      BY <1>0, <2>1, <3>1, RetainedKept
  <2>4. \A v \in Workers : LinkSafe(v, F)'
    BY <1>0, <2>1, MasterLinks
  <2> QED
    BY <2>3, <2>4 DEF RetainInv
<1>5. CASE WorkerThreadDispatch(w)
  <2>1. try_dispatch /\ UNCHANGED <<fromWorker, workerClosed>>
    BY <1>5 DEF WorkerThreadDispatch
  <2>2. \A v \in Workers : LinkSafe(v, F)'
    BY <1>0, <2>1, MasterLinks
  <2> QED
    BY <1>0, <2>1, <2>2, DispatchRetained DEF RetainInv
<1>6. ASSUME NEW op, Receive(w, op), UNCHANGED <<toWorker, queryTable, wcb, worker_list>>
      PROVE  RetainInv(k, F)'
  <2>1. ASSUME NEW v \in Workers, NEW q \in Queries PROVE Retained(v, q, k, F)'
    <3>1. Outstanding(v, q, k)' => Outstanding(v, q, k)
      BY <1>2, <1>6
    <3> QED
      BY <1>0, <1>6, <3>1, RetainedKept DEF queryTable
  <2> QED
    BY <1>2, <1>6, <2>1 DEF RetainInv
<1>7. ASSUME NEW op, Receive(w, op), UNCHANGED <<toWorker, worker_list>>,
             NEW x \in running_list, qcb[x].worker = w,
             running_list' = running_list \ {x},
             \A q \in Queries \ {x} : qcb'[q] = qcb[q],
             \A v \in Workers \ {w} : wcb'[v] = wcb[v],
             \A v \in Workers : ~Outstanding(v, x, k)' \/ v \in F
      PROVE  RetainInv(k, F)'
  <2>1. ASSUME NEW v \in Workers, NEW q \in Queries PROVE Retained(v, q, k, F)'
    <3>1. Outstanding(v, q, k)' => Outstanding(v, q, k)
      BY <1>2, <1>7
    <3>2. CASE q = x
      BY <1>0, <1>7, <3>1, <3>2, RetainedKept
    <3>3. CASE q # x
      <4>1. q \in running_list /\ qcb[q].worker = v => v # w
        BY <1>0, <1>7, <3>3 DEF TablesInv
      <4> QED
        BY <1>0, <1>7, <3>1, <3>3, <4>1, RetainedKept
    <3> QED
      BY <3>2, <3>3
  <2> QED
    BY <1>2, <1>7, <2>1 DEF RetainInv
<1>8. CASE manage_read_message_from_worker(w)
  BY <1>6, <1>8 DEF manage_read_message_from_worker, workerTable
<1>9. CASE manage_worker_evict_response(w)
  <2>1. Receive(w, "EVICTED") /\ UNCHANGED <<toWorker, worker_list>>
    BY <1>9 DEF manage_worker_evict_response
  <2>2. CASE UNCHANGED <<queryTable, wcb>>
    BY <1>6, <2>1, <2>2
  <2>3. CASE r \in running_list
    <3>1. r \in Queries /\ qcb[r].worker = w
      BY <1>0, <2>1, <2>3, ReceivedFrom
    <3>2. \A v \in Workers \ {w} : wcb'[v] = wcb[v]
      BY <1>0, <1>9, <2>3 DEF manage_worker_evict_response, FreeWorker
    <3>3. /\ running_list' = running_list \ {r}
          /\ \A q \in Queries \ {r} : qcb'[q] = qcb[q]
      <4>1. CASE cleanup_query_resources(r)
        BY <1>1, <3>1, <4>1
      <4>2. CASE /\ qcb' = [qcb EXCEPT ![r] = RequeuedBlock(@, Head(fromWorker[w]).pc)]
                 /\ running_list' = running_list \ {r}
        BY <1>0, <3>1, <4>2
      <4> QED
        BY <1>9, <2>3, <4>1, <4>2 DEF manage_worker_evict_response
    <3>4. PICK x : x = r
      OBVIOUS
    <3>5. \A v \in Workers : ~Outstanding(v, x, k)'
      BY <1>0, <2>1, <2>3, <3>4, EndedQuiet
    <3> QED
      BY <1>7, <2>1, <2>3, <3>1, <3>2, <3>3, <3>4, <3>5
  <2> QED
    BY <1>9, <2>2, <2>3 DEF manage_worker_evict_response
<1>10. CASE manage_worker_end_query(w)
  <2>1. Receive(w, "END") /\ UNCHANGED <<toWorker, worker_list>>
    BY <1>10 DEF manage_worker_end_query
  <2>2. CASE /\ UNCHANGED queryTable /\ r \notin running_list
             /\ wcb' = [wcb EXCEPT ![w] = [query |-> NoQuery, state |-> "IDLE"]]
    <3>1. /\ fromWorker[w] \in Seq(WorkerPackages) /\ fromWorker[w] # <<>>
          /\ Head(fromWorker[w]).op = "END"
      BY <1>0, <2>1 DEF Receive, WireTypeOK
    <3>2. phase[w] = "up"
      BY <1>0, <3>1, ChannelKinds DEF LinkSafe
    <3>3. r \in Queries /\ Has(fromWorker[w], "END", r)
      <4>1. Head(fromWorker[w]) \in WorkerPackages
        BY <3>1
      <4>2. r \in Queries
        BY <3>1, <4>1 DEF WorkerPackages
      <4>3. Matches(Head(fromWorker[w]), "END", r)
        BY <3>1 DEF Matches
      <4> QED
        BY <3>1, <4>2, <4>3, TailChannel
    <3>4. w \in F
      BY <1>0, <2>2, <3>3 DEF Retained, Outstanding
    <3>5. ASSUME NEW v \in Workers, NEW q \in Queries PROVE Retained(v, q, k, F)'
      <4>1. Outstanding(v, q, k)' => Outstanding(v, q, k)
        BY <1>2, <2>1
      <4>2. UNCHANGED <<qcb, running_list>> /\ \A u \in Workers \ {w} : wcb'[u] = wcb[u]
        BY <1>0, <2>2 DEF queryTable
      <4> QED
        BY <1>0, <2>1, <3>2, <3>4, <4>1, <4>2, RetainedKept
    <3> QED
      BY <1>2, <2>1, <3>5 DEF RetainInv
  <2>3. CASE r \in running_list /\ FreeWorker(w) /\ cleanup_query_resources(r)
    <3>1. r \in Queries /\ qcb[r].worker = w
      BY <1>0, <2>1, <2>3, ReceivedFrom
    <3>2. \A v \in Workers \ {w} : wcb'[v] = wcb[v]
      BY <1>0, <2>3 DEF FreeWorker
    <3>3. /\ running_list' = running_list \ {r}
          /\ \A q \in Queries \ {r} : qcb'[q] = qcb[q]
      BY <1>1, <2>3, <3>1
    <3>4. PICK x : x = r
      OBVIOUS
    <3>5. \A v \in Workers : ~Outstanding(v, x, k)'
      BY <1>0, <2>1, <2>3, <3>4, EndedQuiet
    <3> QED
      BY <1>7, <2>1, <2>3, <3>1, <3>2, <3>3, <3>4, <3>5
  <2> QED
    BY <1>10, <2>2, <2>3 DEF manage_worker_end_query
<1>11. CASE handle_error_from_storage(w)
  <2>0. PICK x : x = wcb[w].query
    OBVIOUS
  <2>1. Receive(w, "ERROR") /\ UNCHANGED <<toWorker, worker_list>>
    BY <1>11 DEF handle_error_from_storage
  <2>2. CASE UNCHANGED <<queryTable, wcb>>
    BY <1>6, <2>1, <2>2
  <2>3. CASE x \in running_list /\ FreeWorker(w) /\ FinalizeWithError(x)
    <3>1. x \in Queries /\ qcb[x].worker = w
      BY <1>0, <2>0, <2>3 DEF TablesInv
    <3>2. \A v \in Workers \ {w} : wcb'[v] = wcb[v]
      BY <1>0, <2>3 DEF FreeWorker
    <3>3. w \in F
      <4>1. /\ fromWorker[w] \in Seq(WorkerPackages) /\ fromWorker[w] # <<>>
            /\ Head(fromWorker[w]).op = "ERROR"
        BY <1>0, <2>1 DEF Receive, WireTypeOK
      <4>2. 1 \in DOMAIN fromWorker[w] /\ fromWorker[w][1].op = "ERROR"
        BY <4>1
      <4> QED
        BY <1>0, <4>2 DEF LinkSafe
    <3>4. /\ running_list' = running_list \ {x}
          /\ \A q \in Queries \ {x} : qcb'[q] = qcb[q]
      BY <1>1, <2>3, <3>1 DEF FinalizeWithError
    <3>5. \A v \in Workers : ~Outstanding(v, x, k)' \/ v \in F
      <4>1. \A v \in Workers \ {w} : ~Outstanding(v, x, k)
        BY <2>3, <3>1, ElsewhereQuiet
      <4>2. \A v \in Workers : Outstanding(v, x, k)' => Outstanding(v, x, k)
        BY <1>2, <2>1, <3>1
      <4> QED
        BY <3>3, <4>1, <4>2
    <3> QED
      BY <1>7, <2>1, <2>3, <3>1, <3>2, <3>4, <3>5
  <2> QED
    BY <1>11, <2>0, <2>2, <2>3 DEF handle_error_from_storage
<1>12. CASE handle_worker_disconnection(w)
  <2>1. /\ workerClosed[w] /\ fromWorker[w] = <<>>
        /\ UNCHANGED <<toWorker, fromWorker, workerClosed>>
    BY <1>12 DEF handle_worker_disconnection
  <2>2. \A v \in Workers : LinkSafe(v, F)'
    BY <1>0, <2>1, MasterLinks
  <2>3. \A v \in Workers, q \in Queries : Outstanding(v, q, k)' => Outstanding(v, q, k)
    BY <1>0, <2>1 DEF Outstanding
  <2>4. CASE UNCHANGED <<queryTable, workerTable>>
    <3>1. ASSUME NEW v \in Workers, NEW q \in Queries PROVE Retained(v, q, k, F)'
      BY <1>0, <2>3, <2>4, RetainedKept DEF queryTable, workerTable
    <3> QED
      BY <2>2, <3>1 DEF RetainInv
  <2>5. CASE EndQueryOf(w) /\ cleanup_worker_resources(w)
    <3> DEFINE x == wcb[w].query
    <3>1. /\ worker_list' = worker_list \ {w}
          /\ \A v \in Workers \ {w} : wcb'[v] = wcb[v]
      BY <1>0, <2>5 DEF cleanup_worker_resources
    <3>2. \A q \in running_list : qcb[q].worker = w => q = x
      <4>1. phase[w] # "up" \/ w \notin F
        BY <1>0, <2>1 DEF LinkSafe
      <4> QED
        BY <1>0, <4>1 DEF Retained
    <3>3. /\ \A q \in running_list' : q \in running_list /\ q # x /\ qcb'[q] = qcb[q]
          /\ \A q \in running_list : q # x => q \in running_list'
      <4>1. CASE UNCHANGED queryTable /\ x \notin ToSet(query_list)
        <5>1. x \notin running_list
          BY <1>0, <4>1 DEF QueryTables
        <5> QED
          BY <4>1, <5>1 DEF queryTable
      <4>2. CASE x \in ToSet(query_list) /\ FinalizeWithError(x)
        <5>1. x \in Queries
          BY <1>0, <4>2 DEF QueryTables
        <5> HIDE DEF x
        <5> QED
          BY <1>0, <1>1, <4>2, <5>1 DEF FinalizeWithError
      <4> QED
        BY <2>5, <4>1, <4>2 DEF EndQueryOf
    <3>4. x \in running_list => \A v \in Workers : ~Outstanding(v, x, k)
      <4>1. ~Outstanding(w, x, k)
        <5>1. toWorker[w] = <<>>
          BY <1>0, <2>1 DEF Registered, LinkSafe
        <5> QED
          BY <2>1, <5>1 DEF Outstanding, Has
      <4>2. x \in running_list => qcb[x].worker = w
        BY <1>0 DEF TablesInv
      <4> HIDE DEF x
      <4>3. x \in running_list => \A v \in Workers \ {w} : ~Outstanding(v, x, k)
        BY <4>2, ElsewhereQuiet
      <4> QED
        BY <4>1, <4>3
    <3> HIDE DEF x
    <3>5. ASSUME NEW v \in Workers, NEW q \in Queries PROVE Retained(v, q, k, F)'
      BY <1>0, <2>3, <3>1, <3>2, <3>3, <3>4, RetainedKept
    <3> QED
      BY <2>2, <3>5 DEF RetainInv
  <2> QED
    BY <1>12, <2>4, <2>5 DEF handle_worker_disconnection
<1> QED
  BY <1>3, <1>4, <1>5, <1>8, <1>9, <1>10, <1>11, <1>12 DEF WorkerThread
\* Every step of the Master keeps every running query with its Worker.
LEMMA MasterRetained ==
    ASSUME NEW F, F \cap Crashers = {}, QueryInv, NEW k, Assigned(k), WorkerInv,
           RetainInv(k, F), MasterNext, UNCHANGED phase
    PROVE  RetainInv(k, F)'
BY QueryThreadRetained, WorkerThreadRetained, AgingThreadRetained DEF MasterNext

\* A step outside the Master that starts no query and finishes none anew.
LEMMA OutsideRetained ==
    ASSUME NEW k, NEW l, NEW F, RetainInv(k, F),
           UNCHANGED <<qcb, running_list, wcb, worker_list>>,
           \A w \in Workers : phase[w] = "up" => phase'[w] = "up",
           \A w \in Workers : LinkSafe(w, F)',
           \A w \in Workers, q \in Queries : Outstanding(w, q, l)' => Outstanding(w, q, k)
    PROVE  RetainInv(l, F)'
<1> SUFFICES ASSUME NEW w \in Workers, NEW q \in Queries PROVE Retained(w, q, l, F)'
  BY DEF RetainInv
<1>1. Retained(w, q, k, F)
  BY DEF RetainInv
<1> QED
  BY <1>1 DEF Retained

\* What fades is no more outstanding than before.
LEMMA FadedOutstanding ==
    ASSUME NEW k, NEW l, NEW w \in Workers, NEW q \in Queries,
           WireFades(w, q), Fades(w, q, k, l), workerClosed[w] => workerClosed'[w],
           workerClosed' \in [Workers -> BOOLEAN]
    PROVE  Outstanding(w, q, l)' => Outstanding(w, q, k)
BY DEF Outstanding, WireFades, Fades, ToFades, FromFades

\* A live Worker takes a package, or speaks and reports no error unless its
\* instructions may fail.
LEMMA SpokenSafe ==
    ASSUME NEW F, WireTypeOK, NEW v \in Workers, Running(v), UNCHANGED <<workerClosed, phase>>,
           \A w \in Workers : LinkSafe(w, F),
           \/ UNCHANGED fromWorker
           \/ \E p \in Seq(WorkerPackages) :
                 /\ v \in F \/ \A i \in DOMAIN p : p[i].op # "ERROR"
                 /\ fromWorker' = [fromWorker EXCEPT ![v] = @ \o p]
    PROVE  \A w \in Workers : LinkSafe(w, F)'
<1>1. CASE UNCHANGED fromWorker
  BY <1>1 DEF LinkSafe
<1>2. ASSUME NEW p \in Seq(WorkerPackages), v \in F \/ \A i \in DOMAIN p : p[i].op # "ERROR",
             fromWorker' = [fromWorker EXCEPT ![v] = @ \o p]
      PROVE  \A w \in Workers : LinkSafe(w, F)'
  <2>0. /\ fromWorker'[v] = fromWorker[v] \o p
        /\ fromWorker[v] \in Seq(WorkerPackages)
        /\ \A w \in Workers \ {v} : fromWorker'[w] = fromWorker[w]
    BY <1>2 DEF WireTypeOK
  <2>1. LinkSafe(v, F)'
    <3> DEFINE s == fromWorker[v]
               t == s \o p
    <3>1. /\ t \in Seq(WorkerPackages) /\ Len(t) = Len(s) + Len(p)
          /\ \A i \in 1..Len(s) + Len(p) : t[i] = IF i <= Len(s) THEN s[i] ELSE p[i - Len(s)]
      BY <2>0, ConcatProperties
    <3>2. /\ DOMAIN t = 1..Len(s) + Len(p) /\ DOMAIN s = 1..Len(s) /\ DOMAIN p = 1..Len(p)
          /\ Len(s) \in Nat /\ Len(p) \in Nat
      BY <2>0, <3>1, LenProperties
    <3> HIDE DEF t, s
    <3>3. ASSUME v \notin F, NEW i \in DOMAIN t PROVE t[i].op # "ERROR"
      <4>1. \/ i \in DOMAIN s /\ i <= Len(s)
            \/ i - Len(s) \in DOMAIN p /\ ~(i <= Len(s))
        BY <3>2
      <4>2. \A j \in DOMAIN s : s[j].op # "ERROR"
        BY <3>3 DEF LinkSafe, s
      <4> QED
        BY <1>2, <3>1, <3>2, <3>3, <4>1, <4>2
    <3> QED
      BY <2>0, <3>3 DEF LinkSafe, Running, t, s
  <2>2. ASSUME NEW w \in Workers \ {v} PROVE LinkSafe(w, F)'
    BY <2>0 DEF LinkSafe
  <2> QED
    BY <2>1, <2>2
<1> QED
  BY <1>1, <1>2

\* The handshake and the end of a connection.
LEMMA LinkKept ==
    ASSUME NEW F, WireTypeOK, LinkTypeOK, \A w \in Workers : LinkSafe(w, F) /\ Registered(w),
           NEW v \in Workers, Connect(v) \/ Accepted(v) \/ Refused(v) \/ Crash(v)
    PROVE  \A w \in Workers : LinkSafe(w, F)' /\ (phase[w] = "up" => phase'[w] = "up")
<1>1. CASE Connect(v)
  <2>1. /\ fromWorker[v] = <<>> /\ phase'[v] = "connecting" /\ phase[v] = "off"
        /\ UNCHANGED workerClosed
        /\ \A w \in Workers \ {v} : fromWorker'[w] = fromWorker[w] /\ phase'[w] = phase[w]
    BY <1>1 DEF Connect, Registered, WireTypeOK, LinkTypeOK
  <2>2. fromWorker'[v] = <<[op |-> "HANDSHAKE"]>>
    <3>1. fromWorker'[v] = Append(<<>>, [op |-> "HANDSHAKE"])
      BY <1>1, <2>1 DEF Connect, WireTypeOK
    <3> QED
      BY <3>1
  <2>3. /\ ~Talks(fromWorker'[v])
        /\ \A i \in DOMAIN fromWorker'[v] : fromWorker'[v][i].op # "ERROR"
    BY <2>2 DEF Talks
  <2> QED
    BY <2>1, <2>3 DEF LinkSafe
<1>2. CASE Accepted(v)
  <2>1. /\ UNCHANGED <<fromWorker, workerClosed>> /\ ~workerClosed[v] /\ phase'[v] = "up"
        /\ \A w \in Workers \ {v} : phase'[w] = phase[w]
    BY <1>2 DEF Accepted, Answered, LinkTypeOK
  <2> QED
    BY <2>1 DEF LinkSafe
<1>3. CASE Refused(v) \/ Crash(v)
  <2>1. /\ UNCHANGED <<fromWorker, phase>>
        /\ v \in Crashers \/ phase[v] # "up"
        /\ \A w \in Workers \ {v} : workerClosed'[w] = workerClosed[w]
    BY <1>3 DEF Refused, Answered, Crash, CloseLink, WireTypeOK
  <2> QED
    BY <2>1 DEF LinkSafe
<1> QED
  BY <1>1, <1>2, <1>3

\* At the start nothing is outstanding.
LEMMA InitRetained ==
    ASSUME WireInit, MasterInit, NEW k, NEW F, \A w \in Workers : k.holding[w] = {}
    PROVE  RetainInv(k, F)
<1> SUFFICES ASSUME NEW w \in Workers
             PROVE  LinkSafe(w, F) /\ \A q \in Queries : Retained(w, q, k, F)
  BY DEF RetainInv
<1>1. /\ toWorker[w] = <<>> /\ fromWorker[w] = <<>> /\ workerClosed[w] = FALSE
      /\ running_list = {}
  BY DEF WireInit, MasterInit
<1> QED
  BY <1>1 DEF LinkSafe, Retained, Outstanding, Talks, Has

-----------------------------------------------------------------------------
(* The whole, whatever the Workers are.  A module that adds Workers says   *)
(* what they know as a record k, and that each of their steps is one of    *)
(* those below.                                                            *)

\* F are the Workers whose instructions may fail.
SystemInv(k, F) ==
    /\ QueryInv
    /\ Assigned(k)
    /\ WorkerInv
    /\ F \cap Crashers = {} => RetainInv(k, F)

\* At the start nobody is connected and no query known.
LEMMA SystemInit ==
    ASSUME WireInit, MasterInit, LinkInit, NEW k, NEW F,
           \A w \in Workers : k.holding[w] = {} /\ k.late[w] = {} /\ k.eject[w] = {},
           \A q \in Queries : k.executed[q] = 0
    PROVE  SystemInv(k, F)
<1>1. QueryInv /\ WorkerInv
  BY QueryInit, InitWorkers
<1>2. Assigned(k)
  BY InitAssigned
<1>3. RetainInv(k, F)
  BY InitRetained
<1> QED
  BY <1>1, <1>2, <1>3 DEF SystemInv

\* The Master's steps, which leave the Workers alone.
LEMMA SystemMaster ==
    ASSUME NEW k, NEW F, SystemInv(k, F), MasterNext, UNCHANGED phase
    PROVE  SystemInv(k, F)'
<1>1. QueryInv /\ Assigned(k) /\ WorkerInv /\ (F \cap Crashers = {} => RetainInv(k, F))
  BY DEF SystemInv
<1>2. WireTypeOK'
  BY <1>1, MasterTyped DEF QueryInv, Typed
<1>3. QueryInv'
  BY <1>1, <1>2, QueryInvStep
<1>4. Assigned(k)'
  BY <1>1, MasterAssigned
<1>5. WorkerInv'
  BY <1>1, MasterWorkers
<1>6. F \cap Crashers = {} => RetainInv(k, F)'
  BY <1>1, MasterRetained
<1> QED
  BY <1>3, <1>4, <1>5, <1>6 DEF SystemInv

\* The steps of the Query Controls, and those of a Worker's thread that
\* neither takes nor sends a package.
LEMMA SystemUnmoved ==
    ASSUME NEW k, NEW F, SystemInv(k, F), UNCHANGED master,
           UNCHANGED <<toWorker, fromWorker, workerClosed, phase>>,
           \/ UNCHANGED <<fromQC, toQC, qcClosed>>
           \/ \E q \in Queries : QueryControl(q)
    PROVE  SystemInv(k, F)'
<1>1. /\ QueryInv /\ Assigned(k) /\ WorkerInv /\ (F \cap Crashers = {} => RetainInv(k, F))
      /\ Typed /\ WireTypeOK
  BY DEF SystemInv, QueryInv, Typed
<1>2. WireTypeOK'
  <2>1. CASE UNCHANGED <<fromQC, toQC, qcClosed>>
    BY <1>1, <2>1 DEF WireTypeOK
  <2> QED
    BY <1>1, <2>1, QueryControlTyped
<1>3. QueryInv'
  BY <1>1, <1>2, QueryInvStep
<1>4. UNCHANGED <<qcb, running_list, wcb, worker_list>>
  BY DEF master, queryTable, workerTable
<1>5. Assigned(k)'
  BY <1>1, <1>4, UnmovedAssigned
<1>6. WorkerInv'
  BY <1>1, OutsideWorkers
<1>7. F \cap Crashers = {} => RetainInv(k, F)'
  BY <1>1, <1>4 DEF RetainInv, LinkSafe, Retained, Outstanding
<1> QED
  BY <1>3, <1>5, <1>6, <1>7 DEF SystemInv

\* A Worker's connection is made or ends, and the Worker knows no more.
LEMMA SystemLink ==
    ASSUME NEW k, NEW l, NEW F, SystemInv(k, F), LinkTypeOK, UNCHANGED master,
           NEW v \in Workers, Connect(v) \/ Accepted(v) \/ Refused(v) \/ Crash(v),
           \A w \in Workers, q \in Queries : Fades(w, q, k, l),
           \A q \in Queries : l.executed[q] = k.executed[q]
    PROVE  SystemInv(l, F)'
<1>1. /\ QueryInv /\ Assigned(k) /\ WorkerInv /\ (F \cap Crashers = {} => RetainInv(k, F))
      /\ WireTypeOK
  BY DEF SystemInv, QueryInv, Typed
<1>2. /\ WireTypeOK' /\ UNCHANGED <<fromQC, toQC, qcClosed>>
      /\ UNCHANGED <<qcb, running_list, wcb, worker_list, workerThread>>
      /\ \A w \in Workers : workerClosed[w] => workerClosed'[w]
      /\ workerClosed' \in [Workers -> BOOLEAN]
  <2>1. WireTypeOK'
    BY <1>1, LinkTyped
  <2> QED
    BY <1>1, <2>1 DEF Connect, Accepted, Refused, Crash, CloseLink, master, queryTable,
                      workerTable, threads, WireTypeOK
<1>3. QueryInv'
  BY <1>1, <1>2, QueryInvStep
<1>4. \A w \in Workers, q \in Queries : WireFades(w, q)
  BY <1>1, LinkFades
<1>5. Assigned(l)'
  BY <1>1, <1>2, <1>4, FadingAssigned DEF Outside
<1>6. WorkerInv'
  <2>1. \A w \in Workers : Registered(w)'
    BY <1>1, <1>2, LinkRegistered DEF WorkerInv
  <2> QED
    BY <1>1, <2>1, OutsideWorkers
<1>7. ASSUME F \cap Crashers = {} PROVE RetainInv(l, F)'
  <2>1. \A w \in Workers : LinkSafe(w, F)' /\ (phase[w] = "up" => phase'[w] = "up")
    BY <1>1, <1>7, LinkKept DEF WorkerInv, RetainInv
  <2>2. \A w \in Workers, q \in Queries : Outstanding(w, q, l)' => Outstanding(w, q, k)
    BY <1>2, <1>4, FadedOutstanding
  <2> QED
    BY <1>1, <1>2, <1>7, <2>1, <2>2, OutsideRetained
<1> QED
  BY <1>3, <1>5, <1>6, <1>7 DEF SystemInv

\* A thread of a Worker that runs leaves everything else alone.
ThreadOf(v) ==
    Running(v) /\ UNCHANGED <<master, workerClosed, phase, fromQC, toQC, qcClosed>>

\* It takes a package; it sends packages.
Takes(v) == toWorker[v] # <<>> /\ toWorker' = [toWorker EXCEPT ![v] = Tail(@)]
Says(v, p) == fromWorker' = [fromWorker EXCEPT ![v] = @ \o p]

\* Nobody else knows more, nor does v about any query but q.
OnlyFades(v, q, k, l) ==
    /\ \A w \in Workers, x \in Queries : w # v \/ x # q => Fades(w, x, k, l)
    /\ \A x \in Queries : x # q => l.executed[x] = k.executed[x]

\* Nothing more about q is outstanding at w.
Shrinks(w, q, k, l) == Outstanding(w, q, l)' => Outstanding(w, q, k)

\* A step of a Worker's thread, once the assignments are known to be kept and
\* nothing more to be outstanding.
LEMMA SystemThread ==
    ASSUME NEW k, NEW l, NEW F, SystemInv(k, F), NEW v \in Workers, ThreadOf(v),
           UNCHANGED toWorker \/ Takes(v), NEW p \in Seq(WorkerPackages), Says(v, p),
           \A i \in DOMAIN p : p[i].op # "HANDSHAKE",
           v \in F \/ \A i \in DOMAIN p : p[i].op # "ERROR",
           Assigned(l)',
           \A w \in Workers, q \in Queries : Shrinks(w, q, k, l)
    PROVE  SystemInv(l, F)'
<1>1. /\ QueryInv /\ Assigned(k) /\ WorkerInv /\ (F \cap Crashers = {} => RetainInv(k, F))
      /\ WireTypeOK
  BY DEF SystemInv, QueryInv, Typed
<1>2. /\ UNCHANGED <<qcb, running_list, wcb, worker_list, workerThread, workerClosed, phase>>
      /\ UNCHANGED <<fromQC, toQC, qcClosed>> /\ UNCHANGED master /\ Running(v)
  BY DEF ThreadOf, master, queryTable, workerTable, threads
<1>3. WireTypeOK'
  <2>1. fromWorker[v] \o p \in Seq(WorkerPackages)
    BY <1>1, ConcatProperties DEF WireTypeOK
  <2>2. toWorker[v] # <<>> => Tail(toWorker[v]) \in Seq(MasterPackages)
    BY <1>1, HeadTailProperties DEF WireTypeOK
  <2> QED
    BY <1>1, <1>2, <2>1, <2>2 DEF WireTypeOK, Takes, Says
<1>4. QueryInv'
  BY <1>1, <1>2, <1>3, QueryInvStep
<1>5. WorkerInv'
  <2>1. \A w \in Workers : Registered(w)
    BY <1>1 DEF WorkerInv
  <2>2. \A w \in Workers : Registered(w)'
    BY <1>1, <1>2, <2>1, SpokenRegistered DEF Takes, Says
  <2> QED
    BY <1>1, <1>2, <2>2, OutsideWorkers
<1>6. ASSUME F \cap Crashers = {} PROVE RetainInv(l, F)'
  <2>1. \A w \in Workers : LinkSafe(w, F)
    BY <1>1, <1>6 DEF RetainInv
  <2>2. \A w \in Workers : LinkSafe(w, F)'
    BY <1>1, <1>2, <2>1, SpokenSafe DEF Says
  <2> QED
    BY <1>1, <1>2, <1>6, <2>2, OutsideRetained DEF Shrinks
<1> QED
  BY <1>4, <1>5, <1>6 DEF SystemInv

\* Saying nothing leaves the channel as it is.
LEMMA SaysNothing ==
    ASSUME WireTypeOK, NEW v \in Workers, UNCHANGED fromWorker
    PROVE  \E p \in Seq(WorkerPackages) :
              Says(v, p) /\ DOMAIN p = {} /\ \A q : ~About(p, q)
<1>1. fromWorker[v] \in Seq(WorkerPackages)
  BY DEF WireTypeOK
<1>2. fromWorker[v] \o <<>> = fromWorker[v]
  BY <1>1, ConcatEmptySeq
<1>3. Says(v, <<>>) /\ <<>> \in Seq(WorkerPackages) /\ DOMAIN <<>> = {}
      /\ \A q : ~About(<<>>, q)
  BY <1>2, EmptySeq DEF Says, WireTypeOK, About
<1> QED
  BY <1>3

\* All other queries are as before, and q too, seen from the other Workers.
Apart(v, q, k, l) ==
    /\ \A x \in Queries : x # q => QueryAssigned(x, l)'
    /\ \A w \in Workers, x \in Queries : w # v \/ x # q => Shrinks(w, x, k, l)
    /\ \A w \in Workers : ToFades(toWorker[w], toWorker'[w], q)
    /\ \A w \in Workers \ {v} : q \in Queries => Fades(w, q, k, l)
    /\ Outside

\* A step that is about one query keeps the others apart.
LEMMA OthersKept ==
    ASSUME NEW k, NEW l, NEW F, SystemInv(k, F), NEW v \in Workers, ThreadOf(v),
           NEW q, OnlyFades(v, q, k, l), UNCHANGED toWorker \/ Takes(v),
           NEW p \in Seq(WorkerPackages), Says(v, p),
           \A x \in Queries : x # q => ~About(p, x)
    PROVE  Apart(v, q, k, l)
<1>1. Assigned(k) /\ WireTypeOK /\ workerClosed' \in [Workers -> BOOLEAN]
  BY DEF SystemInv, QueryInv, Typed, ThreadOf, WireTypeOK
<1>2. Outside /\ UNCHANGED workerClosed
  BY DEF ThreadOf, Outside, master, queryTable, workerTable
<1>3. ASSUME NEW x, NEW w \in Workers PROVE ToFades(toWorker[w], toWorker'[w], x)
  <2>0. toWorker[w] \in Seq(MasterPackages)
    BY <1>1 DEF WireTypeOK
  <2>1. \/ toWorker'[w] = toWorker[w]
        \/ toWorker[w] # <<>> /\ toWorker'[w] = Tail(toWorker[w])
    BY <1>1 DEF Takes, WireTypeOK
  <2> QED
    BY <2>0, <2>1, ToChannelFades
<1>4. ASSUME NEW x \in Queries, x # q PROVE \A w \in Workers : WireFades(w, x)
  BY <1>1, <1>3, <1>4, SaidFades DEF Says
<1>5. ASSUME NEW x \in Queries, x # q PROVE QueryAssigned(x, l)'
  <2>1. QueryAssigned(x, k) /\ l.executed[x] = k.executed[x]
    BY <1>1, <1>5 DEF Assigned, OnlyFades
  <2>2. \A w \in Workers : WireFades(w, x) /\ Fades(w, x, k, l)
    BY <1>4, <1>5 DEF OnlyFades
  <2> QED
    BY <1>2, <2>1, <2>2, OutsideKeeps, FadedAssigned
<1>6. ASSUME NEW w \in Workers, NEW x \in Queries, w # v \/ x # q
      PROVE  Shrinks(w, x, k, l)
  <2>1. Fades(w, x, k, l)
    BY <1>6 DEF OnlyFades
  <2>2. CASE x # q
    BY <1>1, <1>2, <1>4, <1>6, <2>1, <2>2, FadedOutstanding DEF Shrinks
  <2>3. CASE w # v
    <3>1. fromWorker'[w] = fromWorker[w]
      BY <1>1, <2>3 DEF Says, WireTypeOK
    <3>2. ToFades(toWorker[w], toWorker'[w], x)
      BY <1>3
    <3> QED
      BY <1>2, <2>1, <3>1, <3>2 DEF Shrinks, Outstanding, Fades, ToFades
  <2> QED
    BY <1>6, <2>2, <2>3
<1> QED
  BY <1>2, <1>3, <1>5, <1>6 DEF Apart, OnlyFades

\* A thread drops what it knows, or takes a package that it ignores.
LEMMA SystemFades ==
    ASSUME NEW k, NEW l, NEW F, SystemInv(k, F), NEW v \in Workers, ThreadOf(v),
           UNCHANGED toWorker \/ Takes(v), UNCHANGED fromWorker,
           \A w \in Workers, q \in Queries : Fades(w, q, k, l),
           \A q \in Queries : l.executed[q] = k.executed[q]
    PROVE  SystemInv(l, F)'
<1>1. WireTypeOK
  BY DEF SystemInv, QueryInv, Typed
<1>2. PICK p \in Seq(WorkerPackages) : Says(v, p) /\ DOMAIN p = {} /\ \A q : ~About(p, q)
  BY <1>1, SaysNothing
<1>3. NoQuery \notin Queries
  BY WireAssumption
<1>4. OnlyFades(v, NoQuery, k, l)
  BY DEF OnlyFades
<1>5. /\ \A x \in Queries : QueryAssigned(x, l)'
      /\ \A w \in Workers, x \in Queries : Shrinks(w, x, k, l)
  <2>1. Apart(v, NoQuery, k, l)
    BY <1>2, <1>4, OthersKept
  <2> QED
    BY <1>3, <2>1 DEF Apart
<1>6. Assigned(l)'
  BY <1>5 DEF Assigned
<1> QED
  BY <1>2, <1>5, <1>6, SystemThread

\* The listener takes a START and the Worker holds its query.
LEMMA SystemStart ==
    ASSUME NEW k, NEW l, NEW F, SystemInv(k, F), NEW v \in Workers, ThreadOf(v),
           NEW q \in Queries, OnlyFades(v, q, k, l),
           Takes(v), Matches(Head(toWorker[v]), "START", q), UNCHANGED fromWorker,
           l.position[v][q] = Head(toWorker[v]).pc,
           q \notin l.eject[v], q \notin l.late[v], l.executed[q] = k.executed[q]
    PROVE  SystemInv(l, F)'
<1>1. WireTypeOK /\ QueryAssigned(q, k) /\ toWorker[v] \in Seq(MasterPackages)
  BY DEF SystemInv, QueryInv, Typed, Assigned, WireTypeOK
<1>2. PICK p \in Seq(WorkerPackages) : Says(v, p) /\ DOMAIN p = {} /\ \A x : ~About(p, x)
  BY <1>1, SaysNothing
<1>3. Apart(v, q, k, l)
  BY <1>2, OthersKept
<1>4. QueryAssigned(q, l)'
  BY <1>1, <1>3, StartedAssigned DEF Takes, Apart
<1>5. Shrinks(v, q, k, l)
  BY <1>1, TailChannel DEF Takes, Outstanding, Shrinks
<1>6. Assigned(l)'
  BY <1>3, <1>4 DEF Assigned, Apart
<1> QED
  BY <1>2, <1>3, <1>5, <1>6, SystemThread DEF Apart

\* The listener takes a request for the eviction of a query.
LEMMA SystemRequest ==
    ASSUME NEW k, NEW l, NEW F, SystemInv(k, F), NEW v \in Workers, ThreadOf(v),
           NEW q \in Queries, OnlyFades(v, q, k, l),
           Takes(v), Matches(Head(toWorker[v]), "PREEMPT", q), UNCHANGED fromWorker,
           q \in l.holding[v] <=> q \in k.holding[v],
           q \in l.late[v] <=> q \in k.late[v],
           q \in l.eject[v] => q \in k.eject[v] \/ q \in k.holding[v] \cup k.late[v],
           l.position[v][q] = k.position[v][q], l.executed[q] = k.executed[q]
    PROVE  SystemInv(l, F)'
<1>1. WireTypeOK /\ QueryAssigned(q, k) /\ toWorker[v] \in Seq(MasterPackages)
  BY DEF SystemInv, QueryInv, Typed, Assigned, WireTypeOK
<1>2. PICK p \in Seq(WorkerPackages) : Says(v, p) /\ DOMAIN p = {} /\ \A x : ~About(p, x)
  BY <1>1, SaysNothing
<1>3. Apart(v, q, k, l)
  BY <1>2, OthersKept
<1>4. QueryAssigned(q, l)'
  BY <1>1, <1>3, RequestedAssigned DEF Takes, Apart
<1>5. Shrinks(v, q, k, l)
  BY <1>3 DEF Apart, Shrinks, Outstanding, ToFades, ThreadOf
<1>6. Assigned(l)'
  BY <1>3, <1>4 DEF Assigned, Apart
<1> QED
  BY <1>2, <1>3, <1>5, <1>6, SystemThread DEF Apart

\* The executor executes an instruction of the query the Worker holds.
LEMMA SystemExecute ==
    ASSUME NEW k, NEW l, NEW F, SystemInv(k, F), NEW v \in Workers, ThreadOf(v),
           NEW q \in Queries, OnlyFades(v, q, k, l), q \in k.holding[v],
           NEW p \in Seq(WorkerPackages), Says(v, p), UNCHANGED toWorker,
           \A i \in DOMAIN p : p[i].op = "READ" /\ p[i].q = q,
           q \in l.holding[v], q \in l.late[v] <=> q \in k.late[v],
           q \in l.eject[v] <=> q \in k.eject[v],
           l.position[v][q] = k.position[v][q] + 1,
           l.executed[q] = k.executed[q] + 1
    PROVE  SystemInv(l, F)'
<1>1. WireTypeOK /\ QueryAssigned(q, k)
  BY DEF SystemInv, QueryInv, Typed, Assigned
<1>2. \A x \in Queries : x # q => ~About(p, x)
  BY DEF About, Concerns
<1>3. Apart(v, q, k, l)
  BY <1>2, OthersKept
<1>4. QueryAssigned(q, l)'
  BY <1>1, <1>3, ExecutedAssigned DEF Says, Apart
<1>5. Shrinks(v, q, k, l)
  BY DEF Shrinks, Outstanding, ThreadOf, Running
<1>6. Assigned(l)'
  BY <1>3, <1>4 DEF Assigned, Apart
<1> QED
  BY <1>3, <1>5, <1>6, SystemThread DEF Apart

\* A thread gives up the query the Worker holds, or answers a request for
\* the eviction of one it has ended.
LEMMA SystemFarewell ==
    ASSUME NEW k, NEW l, NEW F, SystemInv(k, F), NEW v \in Workers, ThreadOf(v),
           NEW q \in Queries, OnlyFades(v, q, k, l), q \in k.holding[v] \cup k.late[v],
           NEW p \in Seq(WorkerPackages), Says(v, p), UNCHANGED toWorker \/ Takes(v),
           \A i \in DOMAIN p : p[i].op \in {"END", "ERROR", "EVICTED"} /\ p[i].q = q,
           v \in F \/ \A i \in DOMAIN p : p[i].op # "ERROR",
           Farewell(p, q, k.position[v][q]) \/ q \notin k.holding[v],
           Once(p, "END", q), EvictedLast(p, q),
           q \in k.holding[v] \/ ~Has(p, "END", q),
           q \in running_list /\ Has(p, "EVICTED", q)
           => qcb[q].pending /\ ~Has(toWorker'[v], "PREEMPT", q),
           q \notin l.holding[v],
           q \in l.late[v] => Has(p, "END", q) /\ ~Has(p, "EVICTED", q),
           q \in l.eject[v] => q \in l.late[v] /\ q \in k.eject[v],
           l.executed[q] = k.executed[q]
    PROVE  SystemInv(l, F)'
<1>1. WireTypeOK /\ QueryAssigned(q, k) /\ fromWorker[v] \in Seq(WorkerPackages)
  BY DEF SystemInv, QueryInv, Typed, Assigned, WireTypeOK
<1>2. \A x \in Queries : x # q => ~About(p, x)
  BY DEF About, Concerns
<1>3. Apart(v, q, k, l)
  BY <1>2, OthersKept
<1>4. QueryAssigned(q, l)'
  BY <1>1, <1>3, FarewellAssigned DEF Says, Apart
<1>5. Shrinks(v, q, k, l)
  <2>1. CASE q \in k.holding[v]
    BY <2>1 DEF Shrinks, Outstanding, ThreadOf, Running
  <2>2. CASE ~Has(p, "END", q)
    <3>1. fromWorker'[v] = fromWorker[v] \o p
      BY <1>1 DEF Says, WireTypeOK
    <3>2. Has(fromWorker'[v], "END", q) => Has(fromWorker[v], "END", q)
      BY <1>1, <2>2, <3>1, ConcatChannel
    <3> QED
      BY <1>3, <3>2 DEF Apart, Shrinks, Outstanding, ToFades
  <2> QED
    BY <2>1, <2>2
<1>6. Assigned(l)'
  BY <1>3, <1>4 DEF Assigned, Apart
<1> QED
  BY <1>3, <1>5, <1>6, SystemThread DEF Apart
=============================================================================
