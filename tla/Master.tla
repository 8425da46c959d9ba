------------------------------- MODULE Master -------------------------------
(***************************************************************************)
(* The Master: its query table and worker table, and the threads that work *)
(* on them.  handle_client runs one thread per connection; a thread takes  *)
(* a package, runs its handler under worker_table_mutex and                *)
(* query_table_mutex, releases both, and for most packages then calls      *)
(* try_dispatch, which takes the two mutexes again.  A step of this module *)
(* is one such critical section, so steps of other threads fall between a  *)
(* handler and the try_dispatch that follows it.  Under PRIORITY the aging *)
(* thread alternates two critical sections of its own.                     *)
(*                                                                         *)
(* The three lists whose order decides something (query_list, ready_queue, *)
(* idle_list) are sequences; running_list, busy_list and worker_list are   *)
(* only searched and are sets.  The peers are left to the modules that     *)
(* extend this one.                                                        *)
(***************************************************************************)
EXTENDS Wire

CONSTANTS
    Algorithm,   \* scheduling_algorithm: "FIFO" or "PRIORITY"
    MaxIntervals \* most aging intervals one pass finds elapsed for a query

ASSUME MasterAssumption ==
    /\ Algorithm \in {"FIFO", "PRIORITY"}
    /\ MaxIntervals \in Nat

VARIABLES
    qcb,          \* t_query_control_block of each query
    query_list, ready_queue, running_list,
    wcb,          \* t_worker_control_block of each worker
    worker_list, idle_list, busy_list,
    queryThread,  \* handle_client of each Query Control
    workerThread, \* handle_client of each Worker
    is_worker,    \* the flag of handle_client: the handshake succeeded
    agingThread   \* aging_thread_func

queryTable == <<qcb, query_list, ready_queue, running_list>>
workerTable == <<wcb, worker_list, idle_list, busy_list>>
threads == <<queryThread, workerThread, is_worker, agingThread>>
master == <<queryTable, workerTable, threads>>

QueryStates == {"NONE", "READY", "RUNNING", "COMPLETED", "CANCELED"}

\* t_query_control_block and t_worker_control_block.
QueryBlocks == [state : QueryStates, priority : Priorities,
                worker : Workers \cup {NoWorker}, pc : ProgramCounters,
                pending : BOOLEAN]
WorkerBlocks == [query : Queries \cup {NoQuery},
                 state : {"DISCONNECTED", "IDLE", "BUSY"}]

QueryTableTypeOK ==
    /\ qcb \in [Queries -> QueryBlocks]
    /\ query_list \in Seq(Queries)
    /\ ready_queue \in Seq(Queries)
    /\ running_list \in SUBSET Queries

WorkerTableTypeOK ==
    /\ wcb \in [Workers -> WorkerBlocks]
    /\ worker_list \in SUBSET Workers
    /\ idle_list \in Seq(Workers)
    /\ busy_list \in SUBSET Workers

ThreadsTypeOK ==
    /\ queryThread \in [Queries -> {"recv", "dispatch", "gone"}]
    /\ workerThread \in [Workers -> {"recv", "ack", "dispatch", "gone"}]
    /\ is_worker \in [Workers -> BOOLEAN]
    /\ agingThread \in {"sleep", "check"}

MasterTypeOK == QueryTableTypeOK /\ WorkerTableTypeOK /\ ThreadsTypeOK

\* init_master: empty lists; a control block is filled in by create_query or
\* create_worker.
MasterInit ==
    /\ qcb = [q \in Queries |-> [state |-> "NONE", priority |-> 0,
                                 worker |-> NoWorker, pc |-> 0,
                                 pending |-> FALSE]]
    /\ query_list = <<>>
    /\ ready_queue = <<>>
    /\ running_list = {}
    /\ wcb = [w \in Workers |-> [query |-> NoQuery, state |-> "DISCONNECTED"]]
    /\ worker_list = {}
    /\ idle_list = <<>>
    /\ busy_list = {}
    /\ queryThread = [q \in Queries |-> "recv"]
    /\ workerThread = [w \in Workers |-> "recv"]
    /\ is_worker = [w \in Workers |-> FALSE]
    /\ agingThread = "sleep"

-----------------------------------------------------------------------------
(* Lists.                                                                  *)

\* list_remove_element of the commons library.
list_remove_element(list, e) == RemoveFirst(list, e)

\* The queue with q placed before the first query of strictly worse (larger)
\* priority, so after those of its own.
insert_query_by_priority(queue, q, priorityOf) ==
    LET Worse == {i \in 1..Len(queue) : priorityOf[q] < priorityOf[queue[i]]}
    IN  InsertAt(queue, Min(Worse \cup {Len(queue) + 1}), q)

\* Mutant: a FIFO that works as a stack.
EnqueuedFirst(queue, q, priorityOf) == <<q>> \o queue

\* How create_query and a failed dispatch put a query on the ready queue.
Enqueued(queue, q, priorityOf) ==
    IF Algorithm = "PRIORITY" THEN insert_query_by_priority(queue, q, priorityOf)
                              ELSE Append(queue, q)

PriorityOf == [q \in Queries |-> qcb[q].priority]

\* Mutant: the reordering after an aging pass is forgotten.
list_sort_skipped(queue, priorityOf) == {queue}

\* list_sort by _qcb_priority_compare; ties may come out in any order.
list_sort(queue, priorityOf) ==
    LET Arranged(p) == [i \in DOMAIN queue |-> queue[p[i]]]
    IN  {sorted \in {Arranged(p) : p \in Bijection(DOMAIN queue, DOMAIN queue)} :
            \A i, j \in DOMAIN sorted :
                i < j => priorityOf[sorted[i]] <= priorityOf[sorted[j]]}

-----------------------------------------------------------------------------
(* Shared parts of the handlers.  Each says what happens to both tables    *)
(* and to the packages sent; the caller says what happens to its thread.   *)

\* package_send to w fails only if w has closed its end, and cannot succeed
\* once the Master has closed the descriptor too.
SendSucceeds(w) == workerThread[w] # "gone"
SendFails(w) == workerClosed[w]

PreemptionPending == \E q \in running_list : qcb[q].pending

\* Mutant: the last ready query is taken for an empty queue.
NothingToDispatchButOne ==
    \/ idle_list = <<>>
    \/ Len(ready_queue) <= 1
    \/ PreemptionPending

\* The early returns of try_dispatch.
NothingToDispatch ==
    \/ idle_list = <<>>
    \/ ready_queue = <<>>
    \/ PreemptionPending

\* Mutant: the ready query is read from the queue but not removed.
DispatchSentKept(q, w) ==
    /\ SendSucceeds(w)
    /\ running_list' = running_list \cup {q}
    /\ qcb' = [qcb EXCEPT ![q] = [@ EXCEPT !.state = "RUNNING", !.worker = w,
                                           !.pending = FALSE]]
    /\ idle_list' = Tail(idle_list)
    /\ busy_list' = busy_list \cup {w}
    /\ wcb' = [wcb EXCEPT ![w] = [query |-> q, state |-> "BUSY"]]
    /\ toWorker' = SentToWorker(w, [op |-> "START", q |-> q, pc |-> qcb[q].pc])
    /\ UNCHANGED ready_queue

\* The first ready query goes to the first idle worker.
DispatchSent(q, w) ==
    /\ SendSucceeds(w)
    /\ ready_queue' = Tail(ready_queue)
    /\ running_list' = running_list \cup {q}
    /\ qcb' = [qcb EXCEPT ![q] = [@ EXCEPT !.state = "RUNNING", !.worker = w,
                                           !.pending = FALSE]]
    /\ idle_list' = Tail(idle_list)
    /\ busy_list' = busy_list \cup {w}
    /\ wcb' = [wcb EXCEPT ![w] = [query |-> q, state |-> "BUSY"]]
    /\ toWorker' = SentToWorker(w, [op |-> "START", q |-> q, pc |-> qcb[q].pc])

\* send_query_to_worker failed: both go back to the lists they came from,
\* the query by the rule of a new one and the worker at the end.
DispatchReverted(q, w) ==
    /\ SendFails(w)
    /\ ready_queue' = Enqueued(Tail(ready_queue), q, PriorityOf)
    /\ qcb' = [qcb EXCEPT ![q] = [@ EXCEPT !.worker = NoWorker,
                                           !.pending = FALSE]]
    /\ idle_list' = Append(Tail(idle_list), w)
    /\ wcb' = [wcb EXCEPT ![w] = [query |-> NoQuery, state |-> "IDLE"]]
    /\ UNCHANGED <<running_list, busy_list, toWorker>>

try_dispatch ==
    /\ \/ NothingToDispatch /\ UNCHANGED <<qcb, ready_queue, running_list, wcb,
                                           idle_list, busy_list, toWorker>>
       \/ /\ ~NothingToDispatch
          /\ \/ DispatchSent(Head(ready_queue), Head(idle_list))
             \/ DispatchReverted(Head(ready_queue), Head(idle_list))
    /\ UNCHANGED <<query_list, worker_list>>

\* The block of a query that does not exist.
FreedBlock == [state |-> "NONE", priority |-> 0, worker |-> NoWorker, pc |-> 0,
               pending |-> FALSE]

\* Mutant: the ready queue keeps a query that is freed.
cleanup_query_resources_partly(q) ==
    /\ query_list' = list_remove_element(query_list, q)
    /\ running_list' = running_list \ {q}
    /\ qcb' = [qcb EXCEPT ![q] = FreedBlock]
    /\ UNCHANGED ready_queue

\* cleanup_query_resources: off every list, and freed.
cleanup_query_resources(q) ==
    /\ query_list' = list_remove_element(query_list, q)
    /\ ready_queue' = list_remove_element(ready_queue, q)
    /\ running_list' = running_list \ {q}
    /\ qcb' = [qcb EXCEPT ![q] = FreedBlock]

\* Mutant: the query is freed without a word to its Query Control.
FinalizeSilently(q) == UNCHANGED toQC /\ cleanup_query_resources(q)

\* finalize_query_with_error, then cleanup_query_resources: the CANCELED
\* state it sets is gone with the block before the mutex is released.
FinalizeWithError(q) ==
    /\ toQC' = Notified(q, "FIN_DESCONEXION")
    /\ cleanup_query_resources(q)

\* Mutant: preemption_pending is not looked at.
NeverPending(block) == FALSE

\* preemption_pending of a control block.
EvictionPending(block) == block.pending

\* preempt_query_in_exec of a query whose block has become newBlock (its
\* state just set by the caller): nothing if an eviction is pending; the end
\* of the query if its worker is no longer in worker_list; otherwise the
\* request is sent, and the pending flag lowered again if that fails.
preempt_query_in_exec(q, newBlock) ==
    LET w == newBlock.worker
        Block(pending) == [qcb EXCEPT ![q] = [newBlock EXCEPT !.pending = pending]]
        RestUnchanged ==
            UNCHANGED <<query_list, ready_queue, running_list, toQC>>
    IN  \/ /\ EvictionPending(newBlock)
           /\ qcb' = Block(TRUE)
           /\ RestUnchanged
           /\ UNCHANGED toWorker
        \/ /\ ~EvictionPending(newBlock)
           /\ w \notin worker_list
           /\ FinalizeWithError(q)
           /\ UNCHANGED toWorker
        \/ /\ ~EvictionPending(newBlock)
           /\ w \in worker_list
           /\ RestUnchanged
           /\ \/ /\ SendSucceeds(w)
                 /\ qcb' = Block(TRUE)
                 /\ toWorker' = SentToWorker(w, [op |-> "PREEMPT", q |-> q])
              \/ /\ SendFails(w)
                 /\ qcb' = Block(FALSE)
                 /\ UNCHANGED toWorker

\* The worker leaves busy_list for the end of idle_list.
FreeWorker(w) ==
    /\ wcb' = [wcb EXCEPT ![w] = [query |-> NoQuery, state |-> "IDLE"]]
    /\ busy_list' = busy_list \ {w}
    /\ idle_list' = Append(idle_list, w)

-----------------------------------------------------------------------------
(* handle_client for a Query Control.                                      *)

QueryThreadAt(q, from, to) ==
    /\ queryThread[q] = from
    /\ queryThread' = [queryThread EXCEPT ![q] = to]
    /\ UNCHANGED <<workerThread, is_worker, agingThread>>

\* manage_query_file_path up to its try_dispatch: the answer to the Query
\* Control, then create_query.
manage_query_file_path(q) ==
    /\ fromQC[q] # <<>>
    /\ QueryThreadAt(q, "recv", "dispatch")
    /\ LET priority == Head(fromQC[q]).priority
           newPriorityOf == [PriorityOf EXCEPT ![q] = priority]
       IN  /\ qcb' = [qcb EXCEPT ![q] = [state |-> "READY",
                                         priority |-> priority,
                                         worker |-> NoWorker, pc |-> 0,
                                         pending |-> FALSE]]
           /\ query_list' = Append(query_list, q)
           /\ ready_queue' = Enqueued(ready_queue, q, newPriorityOf)
    /\ toQC' = Notified(q, "OK")
    /\ fromQC' = [fromQC EXCEPT ![q] = Tail(@)]
    /\ UNCHANGED <<running_list, workerTable, toWorker, fromWorker,
                   workerClosed, qcClosed>>

\* The try_dispatch at the end of manage_query_file_path.
QueryThreadDispatch(q) ==
    /\ QueryThreadAt(q, "dispatch", "recv")
    /\ try_dispatch
    /\ UNCHANGED <<fromWorker, workerClosed, fromQC, toQC, qcClosed>>

\* handle_query_control_disconnection, and the end of the thread.  A query
\* that is off query_list was finished before; a CANCELED one cannot be met
\* here, for only this handler leaves a query CANCELED.
handle_query_control_disconnection(q) ==
    /\ qcClosed[q]
    /\ fromQC[q] = <<>>
    /\ QueryThreadAt(q, "recv", "gone")
    /\ \/ /\ qcb[q].state = "NONE"
          /\ UNCHANGED <<queryTable, toWorker, toQC>>
       \/ /\ qcb[q].state = "READY"
          /\ FinalizeWithError(q)
          /\ UNCHANGED toWorker
       \/ /\ qcb[q].state = "RUNNING"
          /\ preempt_query_in_exec(q, [qcb[q] EXCEPT !.state = "CANCELED"])
    /\ UNCHANGED <<workerTable, fromWorker, workerClosed, fromQC, qcClosed>>

-----------------------------------------------------------------------------
(* handle_client for a Worker.                                             *)

WorkerThreadAt(w, from, to) ==
    /\ workerThread[w] = from
    /\ workerThread' = [workerThread EXCEPT ![w] = to]
    /\ UNCHANGED <<queryThread, agingThread>>

\* The thread of w receives a package of kind op.
Receive(w, op) ==
    /\ fromWorker[w] # <<>>
    /\ Head(fromWorker[w]).op = op
    /\ fromWorker' = [fromWorker EXCEPT ![w] = Tail(@)]
    /\ UNCHANGED <<workerClosed, fromQC, qcClosed>>

\* manage_worker_handshake, first part: create_worker.  The worker can be
\* given a query from here on.
create_worker(w) ==
    /\ Receive(w, "HANDSHAKE")
    /\ WorkerThreadAt(w, "recv", "ack")
    /\ wcb' = [wcb EXCEPT ![w] = [query |-> NoQuery, state |-> "IDLE"]]
    /\ worker_list' = worker_list \cup {w}
    /\ idle_list' = Append(idle_list, w)
    /\ UNCHANGED <<queryTable, busy_list, is_worker, toWorker, toQC>>

\* manage_worker_handshake, second part, outside the mutexes: the ACK.  If
\* it cannot be sent the handler returns without try_dispatch and the
\* client stays unidentified, but the worker stays registered.
SendAck(w) ==
    /\ \/ /\ SendSucceeds(w)
          /\ WorkerThreadAt(w, "ack", "dispatch")
          /\ is_worker' = [is_worker EXCEPT ![w] = TRUE]
          /\ toWorker' = SentToWorker(w, [op |-> "ACK"])
       \/ /\ SendFails(w)
          /\ WorkerThreadAt(w, "ack", "recv")
          /\ UNCHANGED <<is_worker, toWorker>>
    /\ UNCHANGED <<queryTable, workerTable, fromWorker, workerClosed,
                   fromQC, toQC, qcClosed>>

\* The try_dispatch at the end of the handlers of a Worker's packages.
WorkerThreadDispatch(w) ==
    /\ WorkerThreadAt(w, "dispatch", "recv")
    /\ try_dispatch
    /\ UNCHANGED <<is_worker, fromWorker, workerClosed, fromQC, toQC, qcClosed>>

\* manage_read_message_from_worker: the data goes to the Query Control if
\* the query is running, else the handler only calls try_dispatch.
manage_read_message_from_worker(w) ==
    /\ Receive(w, "READ")
    /\ LET q == Head(fromWorker[w]).q
       IN  \/ /\ q \in running_list
              /\ WorkerThreadAt(w, "recv", "recv")
              /\ toQC' = Notified(q, "READ_DATA")
           \/ /\ q \notin running_list
              /\ WorkerThreadAt(w, "recv", "dispatch")
              /\ UNCHANGED toQC
    /\ UNCHANGED <<queryTable, workerTable, is_worker, toWorker>>

\* Mutant: the program counter of the eviction response is dropped.
RequeuedBlockSamePc(block, pc) ==
    [block EXCEPT !.state = "READY", !.worker = NoWorker, !.pending = FALSE]

\* The block of an evicted query that goes back to READY.
RequeuedBlock(block, pc) ==
    [block EXCEPT !.pc = pc, !.state = "READY", !.worker = NoWorker,
                  !.pending = FALSE]

\* manage_worker_evict_response: a query that is not running leaves the
\* worker as it is; a cancelled one is freed; any other returns to the ready
\* queue, by priority whatever the algorithm.  Only a worker found in
\* busy_list joins idle_list.
manage_worker_evict_response(w) ==
    /\ Receive(w, "EVICTED")
    /\ WorkerThreadAt(w, "recv", "dispatch")
    /\ LET q == Head(fromWorker[w]).q
       IN  \/ /\ q \notin running_list
              /\ UNCHANGED <<queryTable, wcb, idle_list, busy_list>>
           \/ /\ q \in running_list
              /\ \/ /\ qcb[q].state = "CANCELED"
                    /\ cleanup_query_resources(q)
                 \/ /\ qcb[q].state # "CANCELED"
                    /\ qcb' = [qcb EXCEPT
                                  ![q] = RequeuedBlock(@, Head(fromWorker[w]).pc)]
                    /\ running_list' = running_list \ {q}
                    /\ ready_queue' =
                          insert_query_by_priority(ready_queue, q, PriorityOf)
                    /\ UNCHANGED query_list
              /\ \/ w \in busy_list /\ FreeWorker(w)
                 \/ /\ w \notin busy_list
                    /\ wcb' = [wcb EXCEPT ![w] = [query |-> NoQuery,
                                                  state |-> "IDLE"]]
                    /\ UNCHANGED <<idle_list, busy_list>>
    /\ UNCHANGED <<worker_list, is_worker, toWorker, toQC>>

\* Mutant: the query is not looked up, so the END that follows an ERROR is
\* taken for the end of a query that runs.
manage_worker_end_query_unchecked(w) ==
    /\ Receive(w, "END")
    /\ WorkerThreadAt(w, "recv", "dispatch")
    /\ FreeWorker(w)
    /\ toQC' = Notified(Head(fromWorker[w]).q, "END_QUERY")
    /\ cleanup_query_resources(Head(fromWorker[w]).q)
    /\ UNCHANGED <<worker_list, is_worker, toWorker>>

\* manage_worker_end_query: a query that is not running only resets the
\* worker's block, without moving it to idle_list and without try_dispatch;
\* a running one is completed, its Query Control told, the worker freed.
manage_worker_end_query(w) ==
    /\ Receive(w, "END")
    /\ LET q == Head(fromWorker[w]).q
       IN  \/ /\ q \notin running_list
              /\ WorkerThreadAt(w, "recv", "recv")
              /\ wcb' = [wcb EXCEPT ![w] = [query |-> NoQuery, state |-> "IDLE"]]
              /\ UNCHANGED <<queryTable, idle_list, busy_list, toQC>>
           \/ /\ q \in running_list
              /\ WorkerThreadAt(w, "recv", "dispatch")
              /\ FreeWorker(w)
              /\ toQC' = Notified(q, "END_QUERY")
              /\ cleanup_query_resources(q)
    /\ UNCHANGED <<worker_list, is_worker, toWorker>>

\* handle_error_from_storage: ends the query the Master believes the worker
\* is executing, whichever query the package is about.
handle_error_from_storage(w) ==
    /\ Receive(w, "ERROR")
    /\ WorkerThreadAt(w, "recv", "dispatch")
    /\ \/ /\ wcb[w].query \notin running_list
          /\ UNCHANGED <<queryTable, wcb, idle_list, busy_list, toQC>>
       \/ /\ wcb[w].query \in running_list
          /\ FreeWorker(w)
          /\ FinalizeWithError(wcb[w].query)
    /\ UNCHANGED <<worker_list, is_worker, toWorker>>

\* Mutant: a worker that is gone stays in idle_list.
cleanup_worker_resources_partly(w) ==
    /\ worker_list' = worker_list \ {w}
    /\ busy_list' = busy_list \ {w}
    /\ wcb' = [wcb EXCEPT ![w] = [query |-> NoQuery, state |-> "DISCONNECTED"]]
    /\ UNCHANGED idle_list

\* cleanup_worker_resources: off every list, and freed.
cleanup_worker_resources(w) ==
    /\ worker_list' = worker_list \ {w}
    /\ idle_list' = list_remove_element(idle_list, w)
    /\ busy_list' = busy_list \ {w}
    /\ wcb' = [wcb EXCEPT ![w] = [query |-> NoQuery, state |-> "DISCONNECTED"]]

\* Mutant: the query of a worker that is gone is left alone.
EndQueryOfForgotten(w) == UNCHANGED <<queryTable, toQC>>

\* The query the worker was executing, if it is still listed, ends too.
EndQueryOf(w) ==
    \/ /\ wcb[w].query \notin ToSet(query_list)
       /\ UNCHANGED <<queryTable, toQC>>
    \/ /\ wcb[w].query \in ToSet(query_list)
       /\ FinalizeWithError(wcb[w].query)

\* The end of a Worker's connection: handle_worker_disconnection ends the
\* query the Master believes it was executing and removes the worker.  It
\* calls no try_dispatch.  A client that was never identified is only closed.
handle_worker_disconnection(w) ==
    /\ workerClosed[w]
    /\ fromWorker[w] = <<>>
    /\ WorkerThreadAt(w, "recv", "gone")
    /\ \/ /\ ~is_worker[w]
          /\ UNCHANGED <<queryTable, workerTable, toQC>>
       \/ /\ is_worker[w]
          /\ EndQueryOf(w)
          /\ cleanup_worker_resources(w)
    /\ UNCHANGED <<is_worker, toWorker, fromWorker, workerClosed, fromQC, qcClosed>>

-----------------------------------------------------------------------------
(* aging_thread_func, started only under PRIORITY.                         *)

\* Mutant: the priority is not stopped at 0.
AgedPastZero(priority, intervals) == priority - intervals

\* The priority after so many aging intervals, 0 being the best.
Aged(priority, intervals) ==
    IF intervals >= priority THEN 0 ELSE priority - intervals

\* One pass over the ready queue: each query has spent some whole number of
\* aging intervals there since its timestamp and gains that much priority,
\* down to 0; the queue is sorted again if any priority changed.
AgeReadyQueue ==
    /\ Algorithm = "PRIORITY"
    /\ agingThread = "sleep"
    /\ ready_queue # <<>>
    /\ \E intervals \in [ToSet(ready_queue) -> 0..MaxIntervals] :
          LET newPriorityOf == [q \in Queries |->
                    IF q \in ToSet(ready_queue)
                    THEN Aged(qcb[q].priority, intervals[q])
                    ELSE qcb[q].priority]
          IN  /\ qcb' = [q \in Queries |->
                            [qcb[q] EXCEPT !.priority = newPriorityOf[q]]]
              /\ IF newPriorityOf = PriorityOf
                 THEN UNCHANGED ready_queue
                 ELSE ready_queue' \in list_sort(ready_queue, newPriorityOf)
    /\ agingThread' = "check"
    /\ UNCHANGED <<query_list, running_list, workerTable, wire,
                   queryThread, workerThread, is_worker>>

\* check_preemption: the running query of worst priority is preempted if the
\* first ready query is strictly better.
check_preemption ==
    /\ agingThread = "check"
    /\ LET Worst == {q \in running_list : \A r \in running_list :
                        qcb[r].priority <= qcb[q].priority}
           Preemptible == {q \in Worst :
                        /\ busy_list # {}
                        /\ ready_queue # <<>>
                        /\ qcb[Head(ready_queue)].priority < qcb[q].priority}
       IN  \/ /\ Preemptible = {}
              /\ UNCHANGED <<queryTable, toWorker, toQC>>
           \/ \E q \in Preemptible : preempt_query_in_exec(q, qcb[q])
    /\ agingThread' = "sleep"
    /\ UNCHANGED <<workerTable, fromWorker, workerClosed, fromQC, qcClosed,
                   queryThread, workerThread, is_worker>>

-----------------------------------------------------------------------------
QueryThread(q) ==
    \/ manage_query_file_path(q)
    \/ QueryThreadDispatch(q)
    \/ handle_query_control_disconnection(q)

WorkerThread(w) ==
    \/ create_worker(w)
    \/ SendAck(w)
    \/ WorkerThreadDispatch(w)
    \/ manage_read_message_from_worker(w)
    \/ manage_worker_evict_response(w)
    \/ manage_worker_end_query(w)
    \/ handle_error_from_storage(w)
    \/ handle_worker_disconnection(w)

AgingThread == AgeReadyQueue \/ check_preemption

MasterNext ==
    \/ \E q \in Queries : QueryThread(q)
    \/ \E w \in Workers : WorkerThread(w)
    \/ AgingThread

-----------------------------------------------------------------------------
(* Safety of the tables, whoever the peers are.                            *)

\* Whenever the mutexes are free, each query is on exactly the lists its
\* state says, once: READY ones on ready_queue, RUNNING ones and CANCELED
\* ones awaiting their eviction on running_list, all of them on query_list.
QueryTables ==
    /\ IsInjective(query_list)
    /\ IsInjective(ready_queue)
    /\ ToSet(query_list) = {q \in Queries : qcb[q].state # "NONE"}
    /\ ToSet(ready_queue) = {q \in Queries : qcb[q].state = "READY"}
    /\ running_list = {q \in Queries : qcb[q].state \in {"RUNNING", "CANCELED"}}

\* Each registered worker is either idle or busy, and listed once; an idle
\* one has no query; the query a worker block names, if it still runs, was
\* assigned to that worker; the worker of a running query is not idle.
WorkerTables ==
    /\ IsInjective(idle_list)
    /\ ToSet(idle_list) \cap busy_list = {}
    /\ ToSet(idle_list) \cup busy_list = worker_list
    /\ \A w \in ToSet(idle_list) : wcb[w] = [query |-> NoQuery, state |-> "IDLE"]
    /\ \A w \in worker_list : wcb[w].query \in running_list
                              => qcb[wcb[w].query].worker = w
    /\ \A q \in running_list : qcb[q].worker \in Workers \ ToSet(idle_list)

\* A Query Control hears of the end of its query once, as the last thing,
\* and no query leaves the tables without its Query Control hearing of it.
EndReported ==
    \A q \in Queries :
        /\ TerminalNotices(q) \subseteq {Len(toQC[q])}
        /\ (toQC[q] # <<>> /\ ~qcClosed[q])
           => (TerminalNotices(q) # {} <=> qcb[q].state = "NONE")

\* While a query runs, the worker it was assigned to is registered: the end
\* of a worker's connection ends the query it was executing.
RunningHasWorker == \A q \in running_list : qcb[q].worker \in worker_list

\* Under PRIORITY the ready queue is in priority order whenever the mutexes
\* are free: after insertions, agings and failed dispatches alike.
ReadyByPriority ==
    Algorithm = "PRIORITY" =>
        \A i, j \in DOMAIN ready_queue :
            i < j => qcb[ready_queue[i]].priority <= qcb[ready_queue[j]].priority

Position(q) == CHOOSE i \in DOMAIN query_list : query_list[i] = q

\* Under FIFO the queries wait in the order in which they were created.
ReadyByArrival ==
    Algorithm = "FIFO" =>
        \A i, j \in DOMAIN ready_queue :
            i < j => Position(ready_queue[i]) < Position(ready_queue[j])

SomeoneWillDispatch ==
    \/ \E q \in Queries : queryThread[q] = "dispatch"
    \/ \E w \in Workers : workerThread[w] \in {"ack", "dispatch"}

\* An idle worker and a ready query do not wait for each other: unless an
\* eviction is pending, some thread is on its way to try_dispatch.
WorkConserving ==
    (idle_list # <<>> /\ ready_queue # <<>> /\ ~PreemptionPending)
        => SomeoneWillDispatch

-----------------------------------------------------------------------------
(* Liveness.                                                               *)

\* Every submitted query ends: its Query Control hears of it, or has left.
EveryQueryEnds ==
    \A q \in Queries :
        (fromQC[q] # <<>>) ~> (TerminalNotices(q) # {} \/ qcClosed[q])
=============================================================================
