------------------------------- MODULE Cluster -------------------------------
(***************************************************************************)
(* The Master, the Query Controls and the Workers with both their threads. *)
(***************************************************************************)
EXTENDS Master, QueryControl, Worker

CONSTANT InOrder  \* the Workers are up before the first Query Control

ASSUME ClusterAssumption == InOrder \in BOOLEAN

vars == <<master, wire, workers>>

\* Every variable has the type the code's declarations give it.
TypeOK == WireTypeOK /\ MasterTypeOK /\ WorkerTypeOK

Init == WireInit /\ MasterInit /\ WorkerInit

Client(q) ==
    /\ QueryControl(q)
    /\ (InOrder /\ NotSubmitted(q)) => \A w \in Workers : phase[w] = "up"

Next ==
    \/ MasterNext /\ UNCHANGED workers
    \/ \E q \in Queries : Client(q) /\ UNCHANGED <<master, workers>>
    \/ \E w \in Workers : WorkerProcess(w) /\ UNCHANGED master

Spec == Init /\ [][Next]_vars

\* No thread is denied the processor or a mutex for ever, packages arrive,
\* and every Worker is started sooner or later.
Fairness ==
    /\ \A q \in Queries : /\ WF_vars(QueryThread(q) /\ UNCHANGED workers)
                          /\ WF_vars(Leave(q) /\ UNCHANGED <<master, workers>>)
    /\ \A w \in Workers : /\ WF_vars(WorkerThread(w) /\ UNCHANGED workers)
                          /\ WF_vars(Handshake(w) /\ UNCHANGED master)
                          /\ WF_vars(Refused(w) /\ Disconnect(w) /\ UNCHANGED master)
                          /\ WF_vars(Listener(w) /\ UNCHANGED master)
                          /\ WF_vars(Executor(w) /\ UNCHANGED master)
    /\ WF_vars(AgingThread /\ UNCHANGED workers)

FairSpec == Spec /\ Fairness

-----------------------------------------------------------------------------
(* Safety.                                                                 *)

\* Packages about q that are on their way from or to w.
Reported(w, q) ==
    \E i \in DOMAIN fromWorker[w] :
        /\ fromWorker[w][i].op \in {"END", "ERROR", "EVICTED"}
        /\ fromWorker[w][i].q = q
Ordered(w, op, q) ==
    \E i \in DOMAIN toWorker[w] : toWorker[w][i].op = op /\ toWorker[w][i].q = q

\* The executor of w is at work on q.
Executing(w, q) ==
    executor[w].at \notin {"fetch", "load"} /\ executor[w].ctx.q = q

\* A query the Master has running on a live Worker is known to that Worker
\* or reported back: no thread of the Worker erases an assignment that the
\* other one has just received.
AssignmentKept ==
    \A q \in running_list :
        LET w == qcb[q].worker
        IN  ~workerClosed[w] =>
                \/ Ordered(w, "START", q)
                \/ state[w].has_query /\ state[w].current_query.q = q
                \/ Executing(w, q)
                \/ Reported(w, q)

\* Each instruction a Worker executes is the first of its query that nobody
\* has executed yet, over all evictions and all Workers.
ExecutesInOrder ==
    \A w \in Workers : executor[w].at = "execute"
                       => executor[w].ctx.pc = executed[executor[w].ctx.q]

\* A query that waits is executed by no Worker, and a running one by its own
\* at most: a late package never lets two Workers run the same query.
ExecutesOnce ==
    \A w \in Workers, q \in Queries :
        (executor[w].at \in {"check", "execute", "commit"} /\ executor[w].ctx.q = q)
            => /\ qcb[q].state # "READY"
               /\ q \in running_list => qcb[q].worker = w

\* The program counter kept for a waiting query counts the instructions
\* executed so far.
PcPreserved ==
    \A q \in Queries : qcb[q].state = "READY" => qcb[q].pc = executed[q]
=============================================================================
