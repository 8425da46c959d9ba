-------------------------------- MODULE Wire --------------------------------
(***************************************************************************)
(* The TCP connections the Master serves: one per Worker and one per Query *)
(* Control.  A connection is a FIFO of packages in each direction          *)
(* (package_send / package_receive) plus the fact that the peer has closed *)
(* its end, which package_receive reports only after the packages sent     *)
(* before it.  Query ids are the members of Queries: each Query Control    *)
(* submits one query, so a query stands for its connection too.            *)
(***************************************************************************)
EXTENDS Integers, Sequences, SequencesExt

CONSTANTS
    Queries,     \* the Query Controls, each with the query it submits
    Workers,     \* the Worker processes
    NoQuery,     \* current_query_id = -1
    NoWorker,    \* assigned_worker_id = -1
    MaxPriority, \* largest priority a Query Control asks for
    ProgramLength \* instructions of a query before its END

ASSUME WireAssumption ==
    /\ NoQuery \notin Queries
    /\ NoWorker \notin Workers
    /\ MaxPriority \in Nat
    /\ ProgramLength \in Nat

VARIABLES
    toWorker,     \* packages the Master sent and the Worker has not received
    fromWorker,   \* packages the Worker sent and the Master has not received
    workerClosed, \* the Worker has closed (or lost) its end
    fromQC,       \* packages from the Query Control
    toQC,         \* every package sent to the Query Control, oldest first
    qcClosed      \* the Query Control has closed its end

wire == <<toWorker, fromWorker, workerClosed, fromQC, toQC, qcClosed>>

Priorities == 0..MaxPriority
\* The instructions, the END that follows them, and the place after it.
ProgramCounters == 0..ProgramLength + 1

\* OP_WORKER_ACK, OP_WORKER_START_QUERY and OP_WORKER_PREEMPT_REQ.
MasterPackages ==
    [op : {"ACK"}]
    \cup [op : {"START"}, q : Queries, pc : ProgramCounters]
    \cup [op : {"PREEMPT"}, q : Queries]

\* OP_WORKER_HANDSHAKE_REQ, OP_WORKER_READ_MESSAGE_REQ, OP_WORKER_END_QUERY,
\* STORAGE_OP_ERROR and OP_WORKER_EVICT_RES.
WorkerPackages ==
    [op : {"HANDSHAKE"}]
    \cup [op : {"READ", "END", "ERROR"}, q : Queries]
    \cup [op : {"EVICTED"}, q : Queries, pc : ProgramCounters]

ErrorPackage(q) == [op |-> "ERROR", q |-> q]
EndPackage(q) == [op |-> "END", q |-> q]
EvictedPackage(q, pc) == [op |-> "EVICTED", q |-> q, pc |-> pc]

\* OP_QUERY_FILE_PATH (sent once the OP_QUERY_HANDSHAKE was answered).
QCPackages == [op : {"FILE_PATH"}, priority : Priorities]

\* QC_OP_MASTER_CONNECTION_OK, QC_OP_READ_DATA, OP_END_QUERY and
\* QC_OP_MASTER_FIN_DESCONEXION.
Notices == {"OK", "READ_DATA", "END_QUERY", "FIN_DESCONEXION"}

WireTypeOK ==
    /\ toWorker \in [Workers -> Seq(MasterPackages)]
    /\ fromWorker \in [Workers -> Seq(WorkerPackages)]
    /\ workerClosed \in [Workers -> BOOLEAN]
    /\ fromQC \in [Queries -> Seq(QCPackages)]
    /\ toQC \in [Queries -> Seq(Notices)]
    /\ qcClosed \in [Queries -> BOOLEAN]

WireInit ==
    /\ toWorker = [w \in Workers |-> <<>>]
    /\ fromWorker = [w \in Workers |-> <<>>]
    /\ workerClosed = [w \in Workers |-> FALSE]
    /\ fromQC = [q \in Queries |-> <<>>]
    /\ toQC = [q \in Queries |-> <<>>]
    /\ qcClosed = [q \in Queries |-> FALSE]

\* Notices after which the receive loop of a Query Control ends.
Terminal == {"END_QUERY", "FIN_DESCONEXION"}

TerminalNotices(q) == {i \in DOMAIN toQC[q] : toQC[q][i] \in Terminal}

\* package_send to a Worker: bytes written to a connection the peer has
\* closed are never received.
SentToWorker(w, package) ==
    IF workerClosed[w] THEN toWorker
                       ELSE [toWorker EXCEPT ![w] = Append(@, package)]

\* package_send to a Query Control.
Notified(q, notice) ==
    IF qcClosed[q] THEN toQC ELSE [toQC EXCEPT ![q] = Append(@, notice)]
=============================================================================
