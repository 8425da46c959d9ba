-------------------------------- MODULE Peers --------------------------------
(***************************************************************************)
(* The Master with the peers it expects: Query Controls that submit one    *)
(* query each and wait for its end, and Workers that keep the protocol of  *)
(* query_executor.c and worker_listener.c.  A Worker is abstracted to what *)
(* it says about a query it holds: any instruction may succeed, fail, or   *)
(* be refused by the Storage, and the packages one outcome produces are    *)
(* sent together, as nothing the same Worker sends comes between them.     *)
(***************************************************************************)
EXTENDS Master, QueryControl, WorkerLink

CONSTANT InOrder  \* the Workers are up before the first Query Control is started

ASSUME PeersAssumption == InOrder \in BOOLEAN

VARIABLES
    holding,   \* queries the Worker was started on and has not given up
    position,  \* the program counter at which the Worker is in a query
    eject,     \* queries the Worker was asked to give up
    executed   \* instructions of the query executed so far, by anyone

peers == <<phase, holding, position, eject, executed>>
vars == <<master, wire, peers>>

PeersTypeOK ==
    /\ LinkTypeOK
    /\ holding \in [Workers -> SUBSET Queries]
    /\ position \in [Workers -> [Queries -> ProgramCounters]]
    /\ eject \in [Workers -> SUBSET Queries]
    /\ executed \in [Queries -> Nat]

\* Every variable has the type the code's declarations give it.
TypeOK == WireTypeOK /\ MasterTypeOK /\ PeersTypeOK

Init ==
    /\ WireInit
    /\ MasterInit
    /\ LinkInit
    /\ holding = [w \in Workers |-> {}]
    /\ position = [w \in Workers |-> [q \in Queries |-> 0]]
    /\ eject = [w \in Workers |-> {}]
    /\ executed = [q \in Queries |-> 0]

-----------------------------------------------------------------------------
(* Worker.                                                                 *)

Handshake(w) ==
    /\ Connect(w) \/ Accepted(w)
    /\ UNCHANGED <<master, holding, position, eject, executed>>

\* The Worker is gone, with the queries it held.
Disconnect(w) ==
    /\ Refused(w) \/ Crash(w)
    /\ holding' = [holding EXCEPT ![w] = {}]
    /\ eject' = [eject EXCEPT ![w] = {}]
    /\ UNCHANGED <<master, position, executed>>

\* master_listener_thread: assign_query or eject_query.  Assignments may be
\* erased without a word: a START that comes between the eviction response and
\* the end of the executor's loop, or one not begun that the next replaces.  So
\* may a request to eject, when it comes before the executor has loaded the query.
Listen(w) ==
    /\ Running(w)
    /\ toWorker[w] # <<>>
    /\ LET m == Head(toWorker[w])
       IN  \/ /\ m.op = "START"
              /\ \E erased \in SUBSET (holding[w] \cup {m.q}) :
                    /\ holding' = [holding EXCEPT ![w] = (@ \cup {m.q}) \ erased]
                    /\ eject' = [eject EXCEPT ![w] = @ \ (erased \cup {m.q})]
              /\ position' = [position EXCEPT ![w][m.q] = m.pc]
           \/ /\ m.op = "PREEMPT"
              /\ \E heard \in SUBSET ({m.q} \cap holding[w]) :
                    eject' = [eject EXCEPT ![w] = @ \cup heard]
              /\ UNCHANGED <<holding, position>>
    /\ toWorker' = [toWorker EXCEPT ![w] = Tail(@)]
    /\ UNCHANGED <<fromWorker, workerClosed, fromQC, toQC, qcClosed, master,
                   phase, executed>>

Send(w, packages) ==
    /\ fromWorker' = [fromWorker EXCEPT ![w] = @ \o packages]
    /\ UNCHANGED <<toWorker, workerClosed, fromQC, toQC, qcClosed, master, phase>>

\* The Worker executes the instruction at its program counter, a READ among
\* them, and writes the next program counter into its one current_query, which
\* may by then be another that it holds.
Execute(w, q) ==
    /\ Running(w)
    /\ q \in holding[w]
    /\ position[w][q] < ProgramLength
    /\ \E packages \in {<<>>, <<[op |-> "READ", q |-> q]>>} : Send(w, packages)
    /\ \E others \in SUBSET holding[w] :
          position' = [position EXCEPT ![w] =
             [r \in Queries |-> IF r \in others \cup {q} THEN @[q] + 1 ELSE @[r]]]
    /\ executed' = [executed EXCEPT ![q] = @ + 1]
    /\ UNCHANGED <<holding, eject>>

\* The Worker gives up q and says so.
GiveUp(w, q, packages) ==
    /\ Running(w)
    /\ q \in holding[w]
    /\ Send(w, packages)
    /\ holding' = [holding EXCEPT ![w] = @ \ {q}]
    /\ eject' = [eject EXCEPT ![w] = @ \ {q}]
    /\ UNCHANGED <<position, executed>>

Refusals(q, n) == [i \in 1..n |-> ErrorPackage(q)]

\* The END instruction.  If the ejection was requested by then, an eviction
\* response follows it, with the program counter after the END and after a
\* flush the Storage may refuse.
Finish(w, q) ==
    /\ position[w][q] = ProgramLength
    /\ \/ q \notin eject[w] /\ GiveUp(w, q, <<EndPackage(q)>>)
       \/ /\ q \in eject[w]
          /\ \E errors \in 0..(IF w \in Fallible THEN 1 ELSE 0) :
                GiveUp(w, q, <<EndPackage(q)>> \o Refusals(q, errors)
                             \o <<EvictedPackage(q, ProgramLength + 1)>>)

\* An instruction fails.  If the Storage refused it the Master is told by an
\* ERROR; a refused write-back while the memory is flushed gives another
\* one; the END of notify_master_query_error closes every case.
Fail(w, q) ==
    /\ w \in Fallible
    /\ \E errors \in 0..2 :
          GiveUp(w, q, Refusals(q, errors) \o <<EndPackage(q)>>)

\* The ejection takes effect, after a flush the Storage may refuse.
Evict(w, q) ==
    /\ q \in eject[w]
    /\ \E errors \in 0..(IF w \in Fallible THEN 1 ELSE 0) :
          GiveUp(w, q, Refusals(q, errors)
                       \o <<EvictedPackage(q, position[w][q])>>)

WorkerExecutor(w) ==
    \E q \in Queries : Execute(w, q) \/ Finish(w, q) \/ Fail(w, q) \/ Evict(w, q)

-----------------------------------------------------------------------------
Client(q) ==
    /\ QueryControl(q)
    /\ (InOrder /\ NotSubmitted(q)) => \A w \in Workers : phase[w] = "up"
    /\ UNCHANGED <<master, peers>>

PeersNext ==
    \/ \E q \in Queries : Client(q)
    \/ \E w \in Workers : Handshake(w) \/ Disconnect(w)
                       \/ Listen(w) \/ WorkerExecutor(w)

Next == (MasterNext /\ UNCHANGED peers) \/ PeersNext

Spec == Init /\ [][Next]_vars

-----------------------------------------------------------------------------
(* Safety.                                                                 *)

\* The workers that execute q or will when they receive their START.
Executors(q) ==
    {w \in Workers : \/ q \in holding[w]
                     \/ \E i \in DOMAIN toWorker[w] :
                            toWorker[w][i].op = "START" /\ toWorker[w][i].q = q}

\* No query is executed by two workers, and none while it waits in READY:
\* evictions, storage errors and late packages never duplicate a query.
SingleExecution ==
    \A q \in Queries :
        /\ qcb[q].state = "READY" => Executors(q) = {}
        /\ q \in running_list => Executors(q) \subseteq {qcb[q].worker}
        /\ \A v, w \in Executors(q) : v = w

\* The program counter of a waiting query counts the instructions executed
\* so far, so that each is executed once over all of the query's evictions.
PcPreserved ==
    \A q \in Queries : qcb[q].state = "READY" => qcb[q].pc = executed[q]

PreemptsOf(w, q) ==
    {i \in DOMAIN toWorker[w] : toWorker[w][i].op = "PREEMPT" /\ toWorker[w][i].q = q}

\* An eviction request is outstanding at most once, is marked pending while
\* its query runs, and is consumed before the query is started anew.
PreemptOnce ==
    \A w \in Workers, q \in Queries :
        /\ \A i, j \in PreemptsOf(w, q) : i = j
        /\ (PreemptsOf(w, q) # {} /\ q \in running_list)
           => qcb[q].pending /\ qcb[q].worker = w
        /\ qcb[q].state = "READY" => PreemptsOf(w, q) = {}
=============================================================================
