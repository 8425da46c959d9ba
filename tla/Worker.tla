------------------------------- MODULE Worker -------------------------------
(***************************************************************************)
(* The two threads of a Worker and the worker_state_t they share.  The     *)
(* listener (worker_listener.c) takes the Master's packages; the executor  *)
(* (query_executor.c) runs the query.  Each takes state->mux for a few     *)
(* assignments at a time: a step here is one such critical section with    *)
(* the local work and the packages up to the next one, so the listener can *)
(* act between any two critical sections of the executor.                  *)
(*                                                                         *)
(* A program is ProgramLength instructions and an END.  What instructions  *)
(* do to memory and Storage is abstracted to whether they fail, and to the *)
(* packages the Master gets of it.                                         *)
(***************************************************************************)
EXTENDS WorkerLink

VARIABLES
    state,    \* worker_state_t of each Worker
    executor, \* query_executor_thread: where it is, ctx and result
    executed  \* instructions of each query executed so far, by anyone

workers == <<phase, state, executor, executed>>

\* query_context_t, without the path.
Contexts == [q : Queries \cup {NoQuery}, pc : ProgramCounters]
NoContext == [q |-> NoQuery, pc |-> 0]

ExecutorPlaces == {"fetch", "load", "check", "execute", "executed", "commit",
                   "finish"}
Results == {"OK", "END", "EJECT", "ERROR"}

WorkerTypeOK ==
    /\ LinkTypeOK
    /\ state \in [Workers -> [has_query : BOOLEAN, ejection_requested : BOOLEAN,
                              is_executing : BOOLEAN, current_query : Contexts]]
    /\ executor \in [Workers -> [at : ExecutorPlaces, ctx : Contexts,
                                 result : Results]]
    /\ executed \in [Queries -> Nat]

WorkerInit ==
    /\ LinkInit
    /\ state = [w \in Workers |->
                  [has_query |-> FALSE, ejection_requested |-> FALSE,
                   is_executing |-> FALSE, current_query |-> NoContext]]
    /\ executor = [w \in Workers |->
                     [at |-> "fetch", ctx |-> NoContext, result |-> "OK"]]
    /\ executed = [q \in Queries |-> 0]

-----------------------------------------------------------------------------
(* Packages to the Master.                                                 *)

SendToMaster(w, packages) ==
    fromWorker' = [fromWorker EXCEPT ![w] = @ \o packages]

\* mm_flush_all_dirty stops at the first write-back the Storage refuses, and
\* that one is reported to the Master: at most one ERROR.
FlushReports(w, q) == {<<>>} \cup (IF w \in Fallible THEN {<<ErrorPackage(q)>>} ELSE {})

-----------------------------------------------------------------------------
(* master_listener_thread.                                                 *)

\* The listener of w takes a package of kind op.
Take(w, op) ==
    /\ Running(w)
    /\ toWorker[w] # <<>>
    /\ Head(toWorker[w]).op = op
    /\ toWorker' = [toWorker EXCEPT ![w] = Tail(@)]
    /\ UNCHANGED <<workerClosed, fromQC, toQC, qcClosed, phase, executor, executed>>

assign_query(w) ==
    /\ Take(w, "START")
    /\ state' = [state EXCEPT
                   ![w].current_query = [q |-> Head(toWorker[w]).q,
                                         pc |-> Head(toWorker[w]).pc],
                   ![w].has_query = TRUE]
    /\ UNCHANGED fromWorker

\* The request counts only for the current query.  If that is executing the
\* executor is told; if not, the listener itself gives it up.
eject_query(w) ==
    /\ Take(w, "PREEMPT")
    /\ LET s == state[w]
           matches == s.has_query /\ s.current_query.q = Head(toWorker[w]).q
       IN  \/ /\ ~matches
              /\ UNCHANGED <<state, fromWorker>>
           \/ /\ matches
              /\ s.is_executing
              /\ state' = [state EXCEPT ![w].ejection_requested = TRUE]
              /\ UNCHANGED fromWorker
           \/ /\ matches
              /\ ~s.is_executing
              /\ state' = [state EXCEPT ![w].has_query = FALSE]
              /\ \E reports \in FlushReports(w, s.current_query.q) :
                    SendToMaster(w, reports
                        \o <<EvictedPackage(s.current_query.q, s.current_query.pc)>>)

Listener(w) == assign_query(w) \/ eject_query(w)

-----------------------------------------------------------------------------
(* query_executor_thread.                                                  *)

ExecutorAt(w, place) ==
    /\ Running(w)
    /\ executor[w].at = place
    /\ UNCHANGED <<toWorker, workerClosed, fromQC, toQC, qcClosed, phase>>

\* Waits on new_query_cond until there is a query.
fetch_next_query(w) ==
    /\ ExecutorAt(w, "fetch")
    /\ state[w].has_query
    /\ state' = [state EXCEPT ![w].is_executing = TRUE]
    /\ executor' = [executor EXCEPT ![w].at = "load"]
    /\ UNCHANGED <<fromWorker, executed>>

\* Mutant: the program counter of the Master's package is ignored.
LoadContextFromStart(w) ==
    /\ ExecutorAt(w, "load")
    /\ state' = [state EXCEPT ![w].ejection_requested = FALSE]
    /\ executor' = [executor EXCEPT ![w] = [at |-> "check", result |-> "OK",
                         ctx |-> [q |-> state[w].current_query.q, pc |-> 0]]]
    /\ UNCHANGED <<fromWorker, executed>>

\* The query is copied to ctx and ejection_requested is lowered.
LoadContext(w) ==
    /\ ExecutorAt(w, "load")
    /\ state' = [state EXCEPT ![w].ejection_requested = FALSE]
    /\ executor' = [executor EXCEPT ![w] = [at |-> "check", result |-> "OK",
                                            ctx |-> state[w].current_query]]
    /\ UNCHANGED <<fromWorker, executed>>

\* Mutant: the response counts an instruction more.
EjectedNext(w, pc) ==
    LET q == executor[w].ctx.q
    IN  /\ state[w].ejection_requested
        /\ \E reports \in FlushReports(w, q) :
              SendToMaster(w, reports \o <<EvictedPackage(q, pc + 1)>>)
        /\ executor' = [executor EXCEPT ![w].at = "finish", ![w].result = "EJECT"]

\* Mutant: the response is sent and the query executed all the same.
EjectedGoesOn(w, pc) ==
    LET q == executor[w].ctx.q
    IN  /\ state[w].ejection_requested
        /\ \E reports \in FlushReports(w, q) :
              SendToMaster(w, reports \o <<EvictedPackage(q, pc)>>)
        /\ executor' = [executor EXCEPT ![w].at = "execute"]

\* The eviction response, after the write-back of the modified pages.
Ejected(w, pc) ==
    LET q == executor[w].ctx.q
    IN  /\ state[w].ejection_requested
        /\ \E reports \in FlushReports(w, q) :
              SendToMaster(w, reports \o <<EvictedPackage(q, pc)>>)
        /\ executor' = [executor EXCEPT ![w].at = "finish", ![w].result = "EJECT"]

\* execute_single_instruction, eject_before_fetch.
CheckBefore(w) ==
    /\ ExecutorAt(w, "check")
    /\ \/ Ejected(w, executor[w].ctx.pc)
       \/ /\ ~state[w].ejection_requested
          /\ executor' = [executor EXCEPT ![w].at = "execute"]
          /\ UNCHANGED fromWorker
    /\ UNCHANGED <<state, executed>>

\* The instruction of the program counter is done: one that may READ, or the
\* END, which tells the Master.
Executes(w) ==
    /\ ExecutorAt(w, "execute")
    /\ LET ctx == executor[w].ctx
       IN  \/ /\ ctx.pc < ProgramLength
              /\ \E packages \in {<<>>, <<[op |-> "READ", q |-> ctx.q]>>} :
                    SendToMaster(w, packages)
              /\ executor' = [executor EXCEPT ![w].at = "executed"]
              /\ executed' = [executed EXCEPT ![ctx.q] = @ + 1]
           \/ /\ ctx.pc = ProgramLength
              /\ SendToMaster(w, <<EndPackage(ctx.q)>>)
              /\ executor' = [executor EXCEPT ![w].at = "executed",
                                              ![w].result = "END"]
              /\ UNCHANGED executed
    /\ UNCHANGED state

\* The instruction cannot be fetched, decoded or executed; if the Storage
\* refused it the Master is told.  Past the END the fetch always fails.
Fails(w) ==
    /\ ExecutorAt(w, "execute")
    /\ w \in Fallible \/ executor[w].ctx.pc > ProgramLength
    /\ \E packages \in {<<>>, <<ErrorPackage(executor[w].ctx.q)>>} :
          SendToMaster(w, packages)
    /\ executor' = [executor EXCEPT ![w].at = "finish", ![w].result = "ERROR"]
    /\ UNCHANGED <<state, executed>>

\* execute_single_instruction, eject_after_execute: it overrides the END.
CheckAfter(w) ==
    /\ ExecutorAt(w, "executed")
    /\ \/ Ejected(w, executor[w].ctx.pc + 1)
       \/ /\ ~state[w].ejection_requested
          /\ executor' = [executor EXCEPT
                ![w].at = IF executor[w].result = "END" THEN "finish" ELSE "commit"]
          /\ UNCHANGED fromWorker
    /\ UNCHANGED <<state, executed>>

\* The new program counter, in ctx and in the query of the shared state.
Commit(w) ==
    /\ ExecutorAt(w, "commit")
    /\ LET next_pc == executor[w].ctx.pc + 1
       IN  /\ state' = [state EXCEPT ![w].current_query.pc = next_pc]
           /\ executor' = [executor EXCEPT ![w].ctx.pc = next_pc, ![w].at = "check"]
    /\ UNCHANGED <<fromWorker, executed>>

\* Mutant: has_query is lowered whatever query the listener has put there.
FinishQueryAlways(w) ==
    /\ ExecutorAt(w, "finish")
    /\ LET q == executor[w].ctx.q
           result == executor[w].result
       IN  /\ state' = [state EXCEPT ![w].is_executing = FALSE,
                                     ![w].has_query = FALSE]
           /\ \/ /\ result = "ERROR"
                 /\ \E reports \in FlushReports(w, q) :
                       SendToMaster(w, reports \o <<EndPackage(q)>>)
              \/ /\ result # "ERROR"
                 /\ UNCHANGED fromWorker
    /\ executor' = [executor EXCEPT ![w].at = "fetch"]
    /\ UNCHANGED executed

\* The end of the outer loop, one critical section with the write-back and
\* notify_master_query_error in it.
FinishQuery(w) ==
    /\ ExecutorAt(w, "finish")
    /\ LET q == executor[w].ctx.q
           result == executor[w].result
           ours == state[w].current_query.q = q
       IN  /\ state' = [state EXCEPT ![w].is_executing = FALSE,
                          ![w].has_query = @ /\ result # "EJECT" /\ ~ours]
           /\ \/ /\ result = "ERROR"
                 /\ \E reports \in FlushReports(w, q) :
                       SendToMaster(w, reports \o <<EndPackage(q)>>)
              \/ /\ result # "ERROR"
                 /\ UNCHANGED fromWorker
    /\ executor' = [executor EXCEPT ![w].at = "fetch"]
    /\ UNCHANGED executed

Executor(w) ==
    \/ fetch_next_query(w)
    \/ LoadContext(w)
    \/ CheckBefore(w)
    \/ Executes(w)
    \/ Fails(w)
    \/ CheckAfter(w)
    \/ Commit(w)
    \/ FinishQuery(w)

-----------------------------------------------------------------------------
(* The process.                                                            *)

Handshake(w) == (Connect(w) \/ Accepted(w)) /\ UNCHANGED <<state, executor, executed>>

Disconnect(w) == (Refused(w) \/ Crash(w)) /\ UNCHANGED <<state, executor, executed>>

WorkerProcess(w) == Handshake(w) \/ Disconnect(w) \/ Listener(w) \/ Executor(w)
=============================================================================
