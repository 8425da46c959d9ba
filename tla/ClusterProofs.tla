--------------------------- MODULE ClusterProofs ---------------------------
(***************************************************************************)
(* Proofs about the Master with the Workers of Worker, whose two threads   *)
(* share worker_state_t: the types; that each instruction is executed      *)
(* once, in order and by the Worker the query runs on; and that a waiting  *)
(* query keeps its program counter.  What the Master does in each step is  *)
(* in MasterProofs; here the critical sections of the two threads are      *)
(* shown to take the steps those lemmas are about.                         *)
(***************************************************************************)
EXTENDS Cluster, MasterProofs

-----------------------------------------------------------------------------
(* The critical sections.                                                  *)

\* A worker_state_t and what the executor keeps on its stack.
States ==
    [has_query : BOOLEAN, ejection_requested : BOOLEAN, is_executing : BOOLEAN,
     current_query : Contexts]
Threads == [at : ExecutorPlaces, ctx : Contexts, result : Results]

\* What the two threads of a Worker rely on: the executor is outside fetch
\* exactly while is_executing is up, there is a query to load, the contexts in
\* use are queries, and what was executed was an instruction or the END.
Fit(s, e) ==
    /\ s.is_executing <=> e.at # "fetch"
    /\ e.at = "load" => s.has_query
    /\ s.has_query => s.current_query.q \in Queries
    /\ e.at \notin {"fetch", "load"} => e.ctx.q \in Queries
    /\ e.at \in {"executed", "commit"} => e.ctx.pc <= ProgramLength

ThreadsFit == \A w \in Workers : Fit(state[w], executor[w])

\* A critical section of v takes the Worker from s and e to t and f.
Section(v, s, e, t, f) ==
    /\ s \in States /\ e \in Threads /\ t \in States /\ f \in Threads
    /\ s = state[v] /\ e = executor[v] /\ Fit(s, e)
    /\ state' = [state EXCEPT ![v] = t] /\ executor' = [executor EXCEPT ![v] = f]
    /\ Running(v) /\ UNCHANGED <<workerClosed, fromQC, toQC, qcClosed, phase>>

\* The Worker before a step.
LEMMA Before ==
    ASSUME TypeOK, ThreadsFit, NEW v \in Workers
    PROVE  /\ state[v] \in States /\ executor[v] \in Threads
           /\ Fit(state[v], executor[v])
           /\ state \in [Workers -> States] /\ executor \in [Workers -> Threads]
BY DEF TypeOK, WorkerTypeOK, States, Threads, ThreadsFit

\* The fields of the records.
LEMMA Fields ==
    /\ \A s \in States : /\ s.has_query \in BOOLEAN /\ s.ejection_requested \in BOOLEAN
                         /\ s.is_executing \in BOOLEAN /\ s.current_query \in Contexts
    /\ \A e \in Threads : e.at \in ExecutorPlaces /\ e.ctx \in Contexts /\ e.result \in Results
    /\ \A c \in Contexts : c.q \in Queries \cup {NoQuery} /\ c.pc \in ProgramCounters
BY DEF States, Threads, Contexts

\* assign_query.
LEMMA AssignSection ==
    ASSUME TypeOK, ThreadsFit, NEW v \in Workers, assign_query(v)
    PROVE  \E s, e, t : LET m == Head(toWorker[v]) IN
              /\ Section(v, s, e, t, e) /\ Takes(v) /\ UNCHANGED <<fromWorker, executed>>
              /\ m.op = "START" /\ m.q \in Queries /\ m.pc \in ProgramCounters
              /\ t = [s EXCEPT !.current_query = [q |-> m.q, pc |-> m.pc], !.has_query = TRUE]
<1> DEFINE m == Head(toWorker[v])
<1>1. PICK s, e : s = state[v] /\ e = executor[v]
  OBVIOUS
<1>2. /\ s \in States /\ e \in Threads /\ Fit(s, e)
      /\ state \in [Workers -> States] /\ executor \in [Workers -> Threads]
  BY <1>1, Before
<1>3. m \in MasterPackages /\ m.op = "START"
  BY HeadTailProperties DEF TypeOK, WireTypeOK, assign_query, Take
<1>4. m.q \in Queries /\ m.pc \in ProgramCounters
  BY <1>3, PackageFields
<1> DEFINE c == [q |-> m.q, pc |-> m.pc]
           t == [s EXCEPT !.current_query = c, !.has_query = TRUE]
<1>5. c \in Contexts
  BY <1>4 DEF Contexts
<1>6. /\ state' = [state EXCEPT ![v].current_query = c, ![v].has_query = TRUE]
      /\ Running(v) /\ UNCHANGED <<workerClosed, fromQC, toQC, qcClosed, phase>>
      /\ Takes(v) /\ UNCHANGED <<fromWorker, executed, executor>>
  BY DEF assign_query, Take, Takes
<1> HIDE DEF m, c
<1>7. t \in States
  BY <1>2, <1>5 DEF States
<1>8. state' = [state EXCEPT ![v] = t]
  BY <1>1, <1>2, <1>6
<1>9. executor' = [executor EXCEPT ![v] = e]
  BY <1>1, <1>2, <1>6
<1> HIDE DEF t
<1>10. Section(v, s, e, t, e)
  BY <1>1, <1>2, <1>6, <1>7, <1>8, <1>9 DEF Section
<1> QED
  BY <1>3, <1>4, <1>6, <1>10 DEF t, c, m

\* eject_query.
Ignoring(s, t, m) == ~(s.has_query /\ s.current_query.q = m.q) /\ t = s
Asking(s, t, m) ==
    /\ s.has_query /\ s.current_query.q = m.q /\ s.is_executing
    /\ t = [s EXCEPT !.ejection_requested = TRUE]
Declining(s, t, m) ==
    /\ s.has_query /\ s.current_query.q = m.q /\ ~s.is_executing
    /\ t = [s EXCEPT !.has_query = FALSE]

\* What eject_query does to the Worker and says.
LEMMA RequestSection ==
    ASSUME TypeOK, ThreadsFit, NEW v \in Workers, eject_query(v)
    PROVE  \E s, e, t : LET m == Head(toWorker[v]) IN
              /\ Section(v, s, e, t, e) /\ Takes(v) /\ UNCHANGED executed
              /\ m.op = "PREEMPT" /\ m.q \in Queries
              /\ \/ Ignoring(s, t, m) /\ UNCHANGED fromWorker
                 \/ Asking(s, t, m) /\ UNCHANGED fromWorker
                 \/ /\ Declining(s, t, m)
                    /\ \E p \in FlushReports(v, m.q) :
                          Says(v, p \o <<EvictedPackage(m.q, s.current_query.pc)>>)
<1> DEFINE m == Head(toWorker[v])
<1>1. PICK s, e : s = state[v] /\ e = executor[v]
  OBVIOUS
<1>2. /\ s \in States /\ e \in Threads /\ Fit(s, e)
      /\ state \in [Workers -> States] /\ executor \in [Workers -> Threads]
  BY <1>1, Before
<1>3. m \in MasterPackages /\ m.op = "PREEMPT"
  BY HeadTailProperties DEF TypeOK, WireTypeOK, eject_query, Take
<1>4. m.q \in Queries
  BY <1>3, PackageFields
<1>5. /\ Running(v) /\ UNCHANGED <<workerClosed, fromQC, toQC, qcClosed, phase>>
      /\ Takes(v) /\ UNCHANGED <<executed, executor>>
  BY DEF eject_query, Take, Takes
<1>6. executor' = [executor EXCEPT ![v] = e]
  BY <1>1, <1>2, <1>5
<1>7. ASSUME NEW t \in States, state' = [state EXCEPT ![v] = t]
      PROVE  Section(v, s, e, t, e)
  BY <1>1, <1>2, <1>5, <1>6, <1>7 DEF Section
<1>8. \/ ~(s.has_query /\ s.current_query.q = m.q) /\ UNCHANGED <<state, fromWorker>>
      \/ /\ s.has_query /\ s.current_query.q = m.q /\ s.is_executing
         /\ state' = [state EXCEPT ![v].ejection_requested = TRUE]
         /\ UNCHANGED fromWorker
      \/ /\ s.has_query /\ s.current_query.q = m.q /\ ~s.is_executing
         /\ state' = [state EXCEPT ![v].has_query = FALSE]
         /\ \E p \in FlushReports(v, m.q) :
               Says(v, p \o <<EvictedPackage(m.q, s.current_query.pc)>>)
  BY <1>1 DEF eject_query, SendToMaster, Says
<1> HIDE DEF m
<1>9. CASE ~(s.has_query /\ s.current_query.q = m.q) /\ UNCHANGED <<state, fromWorker>>
  <2>1. state' = [state EXCEPT ![v] = s]
    BY <1>1, <1>2, <1>9
  <2>2. Section(v, s, e, s, e) /\ Ignoring(s, s, m)
    BY <1>2, <1>7, <1>9, <2>1 DEF Ignoring
  <2> QED
    BY <1>3, <1>4, <1>5, <1>9, <2>2 DEF m
<1>10. CASE /\ s.has_query /\ s.current_query.q = m.q /\ s.is_executing
            /\ state' = [state EXCEPT ![v].ejection_requested = TRUE]
            /\ UNCHANGED fromWorker
  <2> DEFINE t == [s EXCEPT !.ejection_requested = TRUE]
  <2>1. t \in States /\ state' = [state EXCEPT ![v] = t]
    BY <1>1, <1>2, <1>10 DEF States
  <2>2. Asking(s, t, m)
    BY <1>10 DEF Asking
  <2> HIDE DEF t
  <2>3. Section(v, s, e, t, e)
    BY <1>7, <2>1
  <2> QED
    BY <1>3, <1>4, <1>5, <1>10, <2>2, <2>3 DEF m
<1>11. CASE /\ s.has_query /\ s.current_query.q = m.q /\ ~s.is_executing
            /\ state' = [state EXCEPT ![v].has_query = FALSE]
            /\ \E p \in FlushReports(v, m.q) :
                  Says(v, p \o <<EvictedPackage(m.q, s.current_query.pc)>>)
  <2> DEFINE t == [s EXCEPT !.has_query = FALSE]
  <2>1. t \in States /\ state' = [state EXCEPT ![v] = t]
    BY <1>1, <1>2, <1>11 DEF States
  <2>2. Declining(s, t, m)
    BY <1>11 DEF Declining
  <2> HIDE DEF t
  <2>3. Section(v, s, e, t, e)
    BY <1>7, <2>1
  <2> QED
    BY <1>3, <1>4, <1>5, <1>11, <2>2, <2>3 DEF m
<1> QED
  BY <1>8, <1>9, <1>10, <1>11

\* The critical sections of query_executor_thread.
Fetching(s, e, t, f) ==
    /\ e.at = "fetch" /\ s.has_query
    /\ t = [s EXCEPT !.is_executing = TRUE] /\ f = [e EXCEPT !.at = "load"]
Loading(s, e, t, f) ==
    /\ e.at = "load" /\ t = [s EXCEPT !.ejection_requested = FALSE]
    /\ f = [at |-> "check", result |-> "OK", ctx |-> s.current_query]
GoingOn(s, e, t, f) ==
    /\ e.at = "check" /\ ~s.ejection_requested
    /\ t = s /\ f = [e EXCEPT !.at = "execute"]
Working(s, e, t, f) ==
    /\ e.at = "execute" /\ e.ctx.pc < ProgramLength
    /\ t = s /\ f = [e EXCEPT !.at = "executed"]
Ending(s, e, t, f) ==
    /\ e.at = "execute" /\ e.ctx.pc = ProgramLength
    /\ t = s /\ f = [e EXCEPT !.at = "executed", !.result = "END"]
Failing(s, e, t, f) ==
    /\ e.at = "execute"
    /\ t = s /\ f = [e EXCEPT !.at = "finish", !.result = "ERROR"]
Leaving(s, e, t, f) ==
    /\ e.at \in {"check", "executed"} /\ s.ejection_requested
    /\ t = s /\ f = [e EXCEPT !.at = "finish", !.result = "EJECT"]
Passing(s, e, t, f) ==
    /\ e.at = "executed" /\ ~s.ejection_requested
    /\ t = s /\ f = [e EXCEPT !.at = IF e.result = "END" THEN "finish" ELSE "commit"]
Committing(s, e, t, f) ==
    /\ e.at = "commit" /\ t = [s EXCEPT !.current_query.pc = e.ctx.pc + 1]
    /\ f = [e EXCEPT !.ctx.pc = e.ctx.pc + 1, !.at = "check"]
Finishing(s, e, t, f) ==
    /\ e.at = "finish" /\ f = [e EXCEPT !.at = "fetch"]
    /\ t = [s EXCEPT !.is_executing = FALSE,
                     !.has_query = @ /\ e.result # "EJECT" /\ s.current_query.q # e.ctx.q]

\* The ones that neither say anything nor count as execution.
Silent(s, e, t, f) ==
    \/ Fetching(s, e, t, f)
    \/ Loading(s, e, t, f)
    \/ GoingOn(s, e, t, f)
    \/ Passing(s, e, t, f)
    \/ Committing(s, e, t, f)
    \/ Finishing(s, e, t, f) /\ e.result # "ERROR"

\* The program counter of an eviction response.
ResumeAt(e) == IF e.at = "check" THEN e.ctx.pc ELSE e.ctx.pc + 1

\* What the others say.
Speaking(v, s, e, t, f) ==
    \/ /\ Working(s, e, t, f)
       /\ \E p \in {<<>>, <<[op |-> "READ", q |-> e.ctx.q]>>} : Says(v, p)
       /\ executed' = [executed EXCEPT ![e.ctx.q] = @ + 1]
    \/ Ending(s, e, t, f) /\ Says(v, <<EndPackage(e.ctx.q)>>) /\ UNCHANGED executed
    \/ /\ Failing(s, e, t, f)
       /\ v \in Fallible \/ e.ctx.pc > ProgramLength
       /\ \E p \in {<<>>, <<ErrorPackage(e.ctx.q)>>} : Says(v, p)
       /\ UNCHANGED executed
    \/ /\ Leaving(s, e, t, f)
       /\ \E p \in FlushReports(v, e.ctx.q) :
             Says(v, p \o <<EvictedPackage(e.ctx.q, ResumeAt(e))>>)
       /\ UNCHANGED executed
    \/ /\ Finishing(s, e, t, f) /\ e.result = "ERROR"
       /\ \E p \in FlushReports(v, e.ctx.q) : Says(v, p \o <<EndPackage(e.ctx.q)>>)
       /\ UNCHANGED executed

\* Every step of the executor is one of them.
LEMMA ExecutorSection ==
    ASSUME TypeOK, ThreadsFit, NEW v \in Workers, Executor(v)
    PROVE  \E s, e, t, f :
              /\ Section(v, s, e, t, f) /\ UNCHANGED toWorker
              /\ \/ Silent(s, e, t, f) /\ UNCHANGED <<fromWorker, executed>>
                 \/ Speaking(v, s, e, t, f)
<1>1. PICK s, e : s = state[v] /\ e = executor[v]
  OBVIOUS
<1>2. /\ s \in States /\ e \in Threads /\ Fit(s, e)
      /\ state \in [Workers -> States] /\ executor \in [Workers -> Threads]
  BY <1>1, Before
<1>3. /\ s.current_query \in Contexts /\ e.ctx \in Contexts
      /\ e.ctx.pc \in ProgramCounters /\ s.has_query \in BOOLEAN
  BY <1>2, Fields
<1>4. /\ Running(v) /\ UNCHANGED <<toWorker, workerClosed, fromQC, toQC, qcClosed, phase>>
  BY DEF Executor, fetch_next_query, LoadContext, CheckBefore, Executes, Fails, CheckAfter,
         Commit, FinishQuery, ExecutorAt
<1>5. ASSUME NEW t \in States, NEW f \in Threads,
             state' = [state EXCEPT ![v] = t], executor' = [executor EXCEPT ![v] = f],
             \/ Silent(s, e, t, f) /\ UNCHANGED <<fromWorker, executed>>
             \/ Speaking(v, s, e, t, f)
      PROVE  \E a, b, c, d :
                /\ Section(v, a, b, c, d) /\ UNCHANGED toWorker
                /\ \/ Silent(a, b, c, d) /\ UNCHANGED <<fromWorker, executed>>
                   \/ Speaking(v, a, b, c, d)
  <2>1. Section(v, s, e, t, f)
    BY <1>1, <1>2, <1>4, <1>5 DEF Section
  <2> QED
    BY <1>4, <1>5, <2>1
<1>6. UNCHANGED state => state' = [state EXCEPT ![v] = s]
  BY <1>1, <1>2
<1>7. CASE fetch_next_query(v)
  <2> DEFINE t == [s EXCEPT !.is_executing = TRUE]
             f == [e EXCEPT !.at = "load"]
  <2>1. t \in States /\ f \in Threads
    BY <1>2 DEF States, Threads, ExecutorPlaces
  <2>2. state' = [state EXCEPT ![v] = t] /\ executor' = [executor EXCEPT ![v] = f]
    BY <1>1, <1>7 DEF fetch_next_query
  <2>3. Silent(s, e, t, f) /\ UNCHANGED <<fromWorker, executed>>
    BY <1>1, <1>7 DEF fetch_next_query, ExecutorAt, Silent, Fetching
  <2> HIDE DEF t, f
  <2> QED
    BY <1>5, <2>1, <2>2, <2>3
<1>8. CASE LoadContext(v)
  <2> DEFINE t == [s EXCEPT !.ejection_requested = FALSE]
             f == [at |-> "check", result |-> "OK", ctx |-> s.current_query]
  <2>1. t \in States /\ f \in Threads
    BY <1>2, <1>3 DEF States, Threads, ExecutorPlaces, Results
  <2>2. state' = [state EXCEPT ![v] = t] /\ executor' = [executor EXCEPT ![v] = f]
    BY <1>1, <1>8 DEF LoadContext
  <2>3. Silent(s, e, t, f) /\ UNCHANGED <<fromWorker, executed>>
    BY <1>1, <1>8 DEF LoadContext, ExecutorAt, Silent, Loading
  <2> HIDE DEF t, f
  <2> QED
    BY <1>5, <2>1, <2>2, <2>3
<1>9. ASSUME NEW pc, Ejected(v, pc), pc = ResumeAt(e), e.at \in {"check", "executed"},
             UNCHANGED <<state, executed>>
      PROVE  \E a, b, c, d :
                /\ Section(v, a, b, c, d) /\ UNCHANGED toWorker
                /\ \/ Silent(a, b, c, d) /\ UNCHANGED <<fromWorker, executed>>
                   \/ Speaking(v, a, b, c, d)
  <2> DEFINE f == [e EXCEPT !.at = "finish", !.result = "EJECT"]
  <2>1. f \in Threads
    BY <1>2 DEF Threads, ExecutorPlaces, Results
  <2>2. executor' = [executor EXCEPT ![v] = f]
    BY <1>1, <1>2, <1>9 DEF Ejected
  <2>3. Leaving(s, e, s, f)
    BY <1>1, <1>9 DEF Ejected, Leaving
  <2>4. \E p \in FlushReports(v, e.ctx.q) :
           Says(v, p \o <<EvictedPackage(e.ctx.q, ResumeAt(e))>>)
    BY <1>1, <1>9 DEF Ejected, SendToMaster, Says
  <2> HIDE DEF f
  <2>5. Speaking(v, s, e, s, f)
    BY <1>9, <2>3, <2>4 DEF Speaking
  <2> QED
    BY <1>2, <1>5, <1>6, <1>9, <2>1, <2>2, <2>5
<1>10. CASE CheckBefore(v)
  <2>1. e.at = "check" /\ UNCHANGED <<state, executed>>
    BY <1>1, <1>10 DEF CheckBefore, ExecutorAt
  <2>2. CASE Ejected(v, executor[v].ctx.pc)
    BY <1>1, <1>9, <2>1, <2>2 DEF ResumeAt
  <2>3. CASE /\ ~state[v].ejection_requested
             /\ executor' = [executor EXCEPT ![v].at = "execute"]
             /\ UNCHANGED fromWorker
    <3> DEFINE f == [e EXCEPT !.at = "execute"]
    <3>1. f \in Threads
      BY <1>2 DEF Threads, ExecutorPlaces
    <3>2. executor' = [executor EXCEPT ![v] = f]
      BY <1>1, <2>3
    <3>3. Silent(s, e, s, f)
      BY <1>1, <2>1, <2>3 DEF Silent, GoingOn
    <3> HIDE DEF f
    <3> QED
      BY <1>2, <1>5, <1>6, <2>1, <2>3, <3>1, <3>2, <3>3
  <2> QED
    BY <1>10, <2>2, <2>3 DEF CheckBefore
<1>11. CASE Executes(v)
  <2>1. e.at = "execute" /\ UNCHANGED state
    BY <1>1, <1>11 DEF Executes, ExecutorAt
  <2>2. CASE e.ctx.pc < ProgramLength
    <3> DEFINE f == [e EXCEPT !.at = "executed"]
    <3>1. f \in Threads
      BY <1>2 DEF Threads, ExecutorPlaces
    <3>2. /\ executor' = [executor EXCEPT ![v] = f]
          /\ \E p \in {<<>>, <<[op |-> "READ", q |-> e.ctx.q]>>} : Says(v, p)
          /\ executed' = [executed EXCEPT ![e.ctx.q] = @ + 1]
      BY <1>1, <1>3, <1>11, <2>2, WireAssumption
         DEF Executes, SendToMaster, Says, ProgramCounters
    <3>3. Working(s, e, s, f)
      BY <2>1, <2>2 DEF Working
    <3> HIDE DEF f
    <3>4. Speaking(v, s, e, s, f)
      BY <3>2, <3>3 DEF Speaking
    <3> QED
      BY <1>2, <1>5, <1>6, <2>1, <3>1, <3>2, <3>4
  <2>3. CASE ~(e.ctx.pc < ProgramLength)
    <3> DEFINE f == [e EXCEPT !.at = "executed", !.result = "END"]
    <3>1. f \in Threads
      BY <1>2 DEF Threads, ExecutorPlaces, Results
    <3>2. /\ executor' = [executor EXCEPT ![v] = f] /\ e.ctx.pc = ProgramLength
          /\ Says(v, <<EndPackage(e.ctx.q)>>) /\ UNCHANGED executed
      BY <1>1, <1>2, <1>11, <2>3 DEF Executes, SendToMaster, Says
    <3>3. Ending(s, e, s, f)
      BY <2>1, <3>2 DEF Ending
    <3> HIDE DEF f
    <3>4. Speaking(v, s, e, s, f)
      BY <3>2, <3>3 DEF Speaking
    <3> QED
      BY <1>2, <1>5, <1>6, <2>1, <3>1, <3>2, <3>4
  <2> QED
    BY <2>2, <2>3
<1>12. CASE Fails(v)
  <2> DEFINE f == [e EXCEPT !.at = "finish", !.result = "ERROR"]
  <2>1. f \in Threads
    BY <1>2 DEF Threads, ExecutorPlaces, Results
  <2>2. /\ executor' = [executor EXCEPT ![v] = f] /\ UNCHANGED <<state, executed>>
        /\ \E p \in {<<>>, <<ErrorPackage(e.ctx.q)>>} : Says(v, p)
        /\ v \in Fallible \/ e.ctx.pc > ProgramLength
    BY <1>1, <1>2, <1>12 DEF Fails, SendToMaster, Says
  <2>3. Failing(s, e, s, f)
    BY <1>1, <1>12 DEF Failing, Fails, ExecutorAt
  <2> HIDE DEF f
  <2>4. Speaking(v, s, e, s, f)
    BY <2>2, <2>3 DEF Speaking
  <2> QED
    BY <1>2, <1>5, <1>6, <2>1, <2>2, <2>4
<1>13. CASE CheckAfter(v)
  <2>1. e.at = "executed" /\ UNCHANGED <<state, executed>>
    BY <1>1, <1>13 DEF CheckAfter, ExecutorAt
  <2>2. CASE Ejected(v, executor[v].ctx.pc + 1)
    BY <1>1, <1>9, <2>1, <2>2 DEF ResumeAt
  <2>3. CASE /\ ~state[v].ejection_requested
             /\ executor' = [executor EXCEPT
                   ![v].at = IF executor[v].result = "END" THEN "finish" ELSE "commit"]
             /\ UNCHANGED fromWorker
    <3> DEFINE f == [e EXCEPT !.at = IF e.result = "END" THEN "finish" ELSE "commit"]
    <3>1. f \in Threads
      BY <1>2 DEF Threads, ExecutorPlaces
    <3>2. executor' = [executor EXCEPT ![v] = f]
      BY <1>1, <2>3
    <3>3. Silent(s, e, s, f)
      BY <1>1, <2>1, <2>3 DEF Silent, Passing
    <3> HIDE DEF f
    <3> QED
      BY <1>2, <1>5, <1>6, <2>1, <2>3, <3>1, <3>2, <3>3
  <2> QED
    BY <1>13, <2>2, <2>3 DEF CheckAfter
<1>14. CASE Commit(v)
  <2> DEFINE t == [s EXCEPT !.current_query.pc = e.ctx.pc + 1]
             f == [e EXCEPT !.ctx.pc = e.ctx.pc + 1, !.at = "check"]
  <2>1. e.at = "commit"
    BY <1>1, <1>14 DEF Commit, ExecutorAt
  <2>2. e.ctx.pc + 1 \in ProgramCounters
    BY <1>2, <1>3, <2>1, WireAssumption DEF Fit, ProgramCounters
  <2>3. /\ [s.current_query EXCEPT !.pc = e.ctx.pc + 1] \in Contexts
        /\ [e.ctx EXCEPT !.pc = e.ctx.pc + 1] \in Contexts
    BY <1>3, <2>2 DEF Contexts
  <2>4. t \in States /\ f \in Threads
    BY <1>2, <2>3 DEF States, Threads, ExecutorPlaces
  <2>5. state' = [state EXCEPT ![v] = t] /\ executor' = [executor EXCEPT ![v] = f]
    BY <1>1, <1>2, <1>14 DEF Commit
  <2>6. Silent(s, e, t, f) /\ UNCHANGED <<fromWorker, executed>>
    BY <1>14, <2>1 DEF Commit, Silent, Committing
  <2> HIDE DEF t, f
  <2> QED
    BY <1>5, <2>4, <2>5, <2>6
<1>15. CASE FinishQuery(v)
  <2> DEFINE t == [s EXCEPT !.is_executing = FALSE,
                            !.has_query = @ /\ e.result # "EJECT"
                                            /\ s.current_query.q # e.ctx.q]
             f == [e EXCEPT !.at = "fetch"]
  <2>1. t \in States /\ f \in Threads
    BY <1>2, <1>3 DEF States, Threads, ExecutorPlaces
  <2>2. state' = [state EXCEPT ![v] = t] /\ executor' = [executor EXCEPT ![v] = f]
    BY <1>1, <1>2, <1>15 DEF FinishQuery
  <2>3. Finishing(s, e, t, f)
    BY <1>1, <1>15 DEF FinishQuery, ExecutorAt, Finishing
  <2> HIDE DEF t, f
  <2>4. CASE e.result = "ERROR"
    <3>1. /\ \E p \in FlushReports(v, e.ctx.q) : Says(v, p \o <<EndPackage(e.ctx.q)>>)
          /\ UNCHANGED executed
      BY <1>1, <1>15, <2>4 DEF FinishQuery, SendToMaster, Says
    <3>2. Speaking(v, s, e, t, f)
      BY <2>3, <2>4, <3>1 DEF Speaking
    <3> QED
      BY <1>5, <2>1, <2>2, <3>2
  <2>5. CASE e.result # "ERROR"
    <3>1. UNCHANGED <<fromWorker, executed>>
      BY <1>1, <1>15, <2>5 DEF FinishQuery
    <3>2. Silent(s, e, t, f)
      BY <2>3, <2>5 DEF Silent
    <3> QED
      BY <1>5, <2>1, <2>2, <3>1, <3>2
  <2> QED
    BY <2>4, <2>5
<1> QED
  BY <1>7, <1>8, <1>10, <1>11, <1>12, <1>13, <1>14, <1>15 DEF Executor

-----------------------------------------------------------------------------
(* Types.                                                                  *)

\* The packages a Worker sends are packages.
LEMMA SaidPackages ==
    ASSUME NEW v, NEW q \in Queries
    PROVE  /\ <<EndPackage(q)>> \in Seq(WorkerPackages)
           /\ \A p \in {<<>>, <<[op |-> "READ", q |-> q]>>} : p \in Seq(WorkerPackages)
           /\ \A p \in {<<>>, <<ErrorPackage(q)>>} : p \in Seq(WorkerPackages)
           /\ \A p \in FlushReports(v, q) :
                 /\ p \o <<EndPackage(q)>> \in Seq(WorkerPackages)
                 /\ \A pc \in ProgramCounters :
                       p \o <<EvictedPackage(q, pc)>> \in Seq(WorkerPackages)
<1>1. /\ EndPackage(q) \in WorkerPackages /\ ErrorPackage(q) \in WorkerPackages
      /\ [op |-> "READ", q |-> q] \in WorkerPackages
  BY DEF WorkerPackages, EndPackage, ErrorPackage
<1>2. \A pc \in ProgramCounters : EvictedPackage(q, pc) \in WorkerPackages
  BY PackageKinds DEF EvictedPackage
<1>3. \A m \in WorkerPackages : <<m>> \in Seq(WorkerPackages)
  OBVIOUS
<1>4. <<>> \in Seq(WorkerPackages)
  OBVIOUS
<1>5. ASSUME NEW p \in FlushReports(v, q) PROVE p \in Seq(WorkerPackages)
  BY <1>1, <1>3, <1>4, <1>5 DEF FlushReports
<1>6. \A p, r \in Seq(WorkerPackages) : p \o r \in Seq(WorkerPackages)
  BY ConcatProperties
<1> QED
  BY <1>1, <1>2, <1>3, <1>4, <1>5, <1>6, Zenon

\* What the threads rely on is kept by the listener ...
LEMMA ListenerFit ==
    ASSUME NEW s \in States, NEW e \in Threads, NEW t \in States, Fit(s, e), NEW m,
           \/ Ignoring(s, t, m) \/ Asking(s, t, m) \/ Declining(s, t, m)
           \/ /\ t = [s EXCEPT !.current_query = [q |-> m.q, pc |-> m.pc], !.has_query = TRUE]
              /\ m.q \in Queries
    PROVE  Fit(t, e)
<1>1. CASE Ignoring(s, t, m)
  BY <1>1 DEF Ignoring
<1>2. CASE Asking(s, t, m)
  BY <1>2 DEF Asking, Fit, States
<1>3. CASE Declining(s, t, m)
  BY <1>3 DEF Declining, Fit, States
<1>4. CASE /\ t = [s EXCEPT !.current_query = [q |-> m.q, pc |-> m.pc], !.has_query = TRUE]
           /\ m.q \in Queries
  <2>1. /\ t.has_query = TRUE /\ t.current_query = [q |-> m.q, pc |-> m.pc]
        /\ t.is_executing = s.is_executing
    BY <1>4 DEF States
  <2> QED
    BY <1>4, <2>1 DEF Fit
<1> QED
  BY <1>1, <1>2, <1>3, <1>4

\* ... and by the executor.
LEMMA ExecutorFit ==
    ASSUME NEW v, NEW s \in States, NEW e \in Threads, NEW t \in States, NEW f \in Threads,
           Fit(s, e), Silent(s, e, t, f) \/ Speaking(v, s, e, t, f)
    PROVE  Fit(t, f)
<1>0. e.ctx.pc \in ProgramCounters /\ ProgramLength \in Nat
  BY Fields, WireAssumption
<1>1. CASE Fetching(s, e, t, f)
  BY <1>1 DEF Fetching, Fit, States, Threads
<1>2. CASE Loading(s, e, t, f)
  BY <1>2 DEF Loading, Fit, States, Threads
<1>3. CASE GoingOn(s, e, t, f) \/ Failing(s, e, t, f) \/ Leaving(s, e, t, f)
  BY <1>3 DEF GoingOn, Failing, Leaving, Fit, States, Threads
<1>4. CASE Working(s, e, t, f) \/ Ending(s, e, t, f)
  <2>1. f.at = "executed" /\ f.ctx = e.ctx /\ t = s /\ e.at = "execute"
    BY <1>4 DEF Working, Ending, Threads
  <2>2. e.ctx.pc < ProgramLength \/ e.ctx.pc = ProgramLength
    BY <1>4 DEF Working, Ending
  <2>3. e.ctx.pc <= ProgramLength
    BY <1>0, <2>2 DEF ProgramCounters
  <2> QED
    BY <2>1, <2>3 DEF Fit
<1>5. CASE Passing(s, e, t, f)
  BY <1>5 DEF Passing, Fit, States, Threads
<1>6. CASE Committing(s, e, t, f)
  <2>1. /\ f.at = "check" /\ f.ctx.q = e.ctx.q /\ t.current_query.q = s.current_query.q
        /\ t.has_query = s.has_query /\ t.is_executing = s.is_executing /\ e.at = "commit"
    BY <1>6 DEF Committing, States, Threads, Contexts
  <2> QED
    BY <2>1 DEF Fit
<1>7. CASE Finishing(s, e, t, f)
  <2>1. /\ f.at = "fetch" /\ t.is_executing = FALSE /\ t.current_query = s.current_query
        /\ t.has_query => s.has_query
    BY <1>7 DEF Finishing, States, Threads
  <2> QED
    BY <2>1 DEF Fit
<1> QED
  BY <1>1, <1>2, <1>3, <1>4, <1>5, <1>6, <1>7 DEF Silent, Speaking

\* A critical section keeps the types, given that of what is sent.
LEMMA SectionTyped ==
    ASSUME TypeOK, ThreadsFit, NEW v \in Workers, NEW s, NEW e, NEW t, NEW f,
           Section(v, s, e, t, f), Fit(t, f), UNCHANGED toWorker \/ Takes(v),
           UNCHANGED fromWorker \/ \E p \in Seq(WorkerPackages) : Says(v, p),
           executed' \in [Queries -> Nat]
    PROVE  WireTypeOK' /\ WorkerTypeOK' /\ ThreadsFit'
<1>1. /\ state \in [Workers -> States] /\ executor \in [Workers -> Threads]
      /\ WireTypeOK /\ LinkTypeOK
  BY Before DEF TypeOK, WorkerTypeOK
<1>2. state' \in [Workers -> States] /\ executor' \in [Workers -> Threads]
  BY <1>1 DEF Section
<1>3. WorkerTypeOK'
  <2>1. LinkTypeOK'
    BY <1>1 DEF LinkTypeOK, Section
  <2> QED
    BY <1>2, <2>1 DEF WorkerTypeOK, States, Threads
<1>4. ThreadsFit'
  <2> SUFFICES ASSUME NEW w \in Workers PROVE Fit(state'[w], executor'[w])
    BY DEF ThreadsFit
  <2>1. CASE w = v
    <3>1. state'[w] = t /\ executor'[w] = f
      BY <1>1, <2>1 DEF Section
    <3> QED
      BY <3>1
  <2>2. CASE w # v
    <3>1. state'[w] = state[w] /\ executor'[w] = executor[w]
      BY <1>1, <2>2 DEF Section
    <3> QED
      BY <3>1 DEF ThreadsFit
  <2> QED
    BY <2>1, <2>2
<1>5. toWorker' \in [Workers -> Seq(MasterPackages)]
  <2>1. toWorker[v] # <<>> => Tail(toWorker[v]) \in Seq(MasterPackages)
    BY <1>1, HeadTailProperties DEF WireTypeOK
  <2> QED
    BY <1>1, <2>1 DEF WireTypeOK, Takes
<1>6. fromWorker' \in [Workers -> Seq(WorkerPackages)]
  <2>1. CASE UNCHANGED fromWorker
    BY <1>1, <2>1 DEF WireTypeOK
  <2>2. ASSUME NEW p \in Seq(WorkerPackages), Says(v, p)
        PROVE  fromWorker' \in [Workers -> Seq(WorkerPackages)]
    <3>1. fromWorker[v] \o p \in Seq(WorkerPackages)
      BY <1>1, ConcatProperties DEF WireTypeOK
    <3> QED
      BY <1>1, <2>2, <3>1 DEF WireTypeOK, Says
  <2> QED
    BY <2>1, <2>2
<1>7. WireTypeOK'
  BY <1>1, <1>5, <1>6 DEF WireTypeOK, Section
<1> QED
  BY <1>3, <1>4, <1>7

\* What a critical section says is made of packages.
LEMMA SpeakingTyped ==
    ASSUME NEW v, NEW s \in States, NEW e \in Threads, NEW t, NEW f, Fit(s, e),
           executed \in [Queries -> Nat], Speaking(v, s, e, t, f)
    PROVE  /\ \E p \in Seq(WorkerPackages) : Says(v, p)
           /\ executed' \in [Queries -> Nat]
<1>1. e.at \in {"check", "execute", "executed", "finish"}
  BY DEF Speaking, Working, Ending, Failing, Leaving, Finishing
<1>2. e.ctx.q \in Queries
  BY <1>1 DEF Fit
<1>3. e.at \in {"check", "executed"} => ResumeAt(e) \in ProgramCounters
  BY Fields, WireAssumption DEF ResumeAt, Fit, ProgramCounters
<1>4. \E p \in Seq(WorkerPackages) : Says(v, p)
  BY <1>2, <1>3, SaidPackages, Zenon DEF Speaking, Leaving
<1>5. executed' \in [Queries -> Nat]
  BY <1>2 DEF Speaking
<1> QED
  BY <1>4, <1>5

\* The steps of a Worker.
LEMMA WorkerTyped ==
    ASSUME TypeOK, ThreadsFit, NEW v \in Workers, WorkerProcess(v)
    PROVE  WireTypeOK' /\ WorkerTypeOK' /\ ThreadsFit'
<1>0. WireTypeOK /\ LinkTypeOK /\ WorkerTypeOK /\ executed \in [Queries -> Nat]
  BY DEF TypeOK, WorkerTypeOK
<1>1. CASE Handshake(v) \/ Disconnect(v)
  <2>1. WireTypeOK' /\ LinkTypeOK' /\ UNCHANGED <<state, executor, executed>>
    BY <1>0, <1>1, LinkTyped DEF Handshake, Disconnect
  <2> QED
    BY <1>0, <2>1 DEF WorkerTypeOK, ThreadsFit
<1>2. CASE assign_query(v)
  <2>1. PICK s, e, t : LET m == Head(toWorker[v]) IN
              /\ Section(v, s, e, t, e) /\ Takes(v) /\ UNCHANGED <<fromWorker, executed>>
              /\ m.op = "START" /\ m.q \in Queries /\ m.pc \in ProgramCounters
              /\ t = [s EXCEPT !.current_query = [q |-> m.q, pc |-> m.pc], !.has_query = TRUE]
    BY <1>2, AssignSection
  <2>2. Fit(t, e)
    BY <2>1, ListenerFit DEF Section
  <2> QED
    BY <1>0, <2>1, <2>2, SectionTyped
<1>3. CASE eject_query(v)
  <2> DEFINE m == Head(toWorker[v])
  <2>1. PICK s, e, t :
              /\ Section(v, s, e, t, e) /\ Takes(v) /\ UNCHANGED executed
              /\ m.op = "PREEMPT" /\ m.q \in Queries
              /\ \/ Ignoring(s, t, m) /\ UNCHANGED fromWorker
                 \/ Asking(s, t, m) /\ UNCHANGED fromWorker
                 \/ /\ Declining(s, t, m)
                    /\ \E p \in FlushReports(v, m.q) :
                          Says(v, p \o <<EvictedPackage(m.q, s.current_query.pc)>>)
    BY <1>3, RequestSection
  <2> HIDE DEF m
  <2>2. Fit(t, e) /\ s.current_query.pc \in ProgramCounters
    BY <2>1, Fields, ListenerFit DEF Section
  <2>3. UNCHANGED fromWorker \/ \E p \in Seq(WorkerPackages) : Says(v, p)
    BY <2>1, <2>2, SaidPackages, Zenon
  <2> QED
    BY <1>0, <2>1, <2>2, <2>3, SectionTyped
<1>4. CASE Executor(v)
  <2>1. PICK s, e, t, f :
              /\ Section(v, s, e, t, f) /\ UNCHANGED toWorker
              /\ \/ Silent(s, e, t, f) /\ UNCHANGED <<fromWorker, executed>>
                 \/ Speaking(v, s, e, t, f)
    BY <1>4, ExecutorSection
  <2>2. Fit(t, f)
    BY <2>1, ExecutorFit DEF Section
  <2>3. /\ UNCHANGED fromWorker \/ \E p \in Seq(WorkerPackages) : Says(v, p)
        /\ executed' \in [Queries -> Nat]
    BY <1>0, <2>1, SpeakingTyped DEF Section
  <2> QED
    BY <2>1, <2>2, <2>3, SectionTyped
<1> QED
  BY <1>1, <1>2, <1>3, <1>4 DEF WorkerProcess, Listener

\* At the start.
LEMMA InitTyped ==
    ASSUME Init
    PROVE  TypeOK /\ ThreadsFit
<1>1. Typed
  BY MasterInitTyped DEF Init
<1>2. NoContext \in Contexts
  BY WireAssumption DEF NoContext, Contexts, ProgramCounters
<1>3. WorkerTypeOK
  BY <1>2 DEF Init, WorkerInit, WorkerTypeOK, LinkInit, LinkTypeOK, ExecutorPlaces, Results
<1>4. ThreadsFit
  BY DEF Init, WorkerInit, ThreadsFit, Fit
<1> QED
  BY <1>1, <1>3, <1>4 DEF TypeOK, Typed

\* Every step.
LEMMA StepTyped ==
    ASSUME TypeOK, ThreadsFit, [Next]_vars
    PROVE  TypeOK' /\ ThreadsFit'
<1>0. WireTypeOK /\ MasterTypeOK /\ WorkerTypeOK /\ Typed
  BY DEF TypeOK, Typed
<1>1. CASE UNCHANGED workers /\ UNCHANGED <<master, wire>>
  <2>1. Typed'
    BY <1>0, <1>1, MasterTyped
  <2> QED
    BY <1>0, <1>1, <2>1 DEF TypeOK, Typed, WorkerTypeOK, LinkTypeOK, workers, ThreadsFit
<1>2. CASE MasterNext /\ UNCHANGED workers
  <2>1. Typed'
    BY <1>0, <1>2, MasterTyped
  <2> QED
    BY <1>0, <1>2, <2>1 DEF TypeOK, Typed, WorkerTypeOK, LinkTypeOK, workers, ThreadsFit
<1>3. ASSUME NEW q \in Queries, Client(q), UNCHANGED <<master, workers>>
      PROVE  TypeOK' /\ ThreadsFit'
  <2>1. WireTypeOK'
    BY <1>0, <1>3, QueryControlTyped DEF Client
  <2>2. MasterTypeOK'
    BY <1>0, <1>3, PeersOutside
  <2> QED
    BY <1>0, <1>3, <2>1, <2>2 DEF TypeOK, WorkerTypeOK, LinkTypeOK, workers, ThreadsFit
<1>4. ASSUME NEW v \in Workers, WorkerProcess(v), UNCHANGED master
      PROVE  TypeOK' /\ ThreadsFit'
  <2>1. MasterTypeOK'
    BY <1>0, <1>4, PeersOutside
  <2> QED
    BY <1>4, <2>1, WorkerTyped DEF TypeOK
<1> QED
  BY <1>1, <1>2, <1>3, <1>4 DEF Next, vars

\* Every variable keeps its type in every behaviour: no thread of a Worker
\* loads a query that is not there, counts further than the place after the
\* END of its program or reports a query it does not have, wherever the other
\* thread comes between.
THEOREM ClusterTypeCorrect == Spec => []TypeOK
<1>1. Init => TypeOK /\ ThreadsFit
  BY InitTyped
<1>2. TypeOK /\ ThreadsFit /\ [Next]_vars => TypeOK' /\ ThreadsFit'
  BY StepTyped
<1> QED
  BY <1>1, <1>2, PTL DEF Spec

-----------------------------------------------------------------------------
(* The Workers of Worker in the terms of MasterProofs, where no instruction *)
(* fails.                                                                   *)

\* The executor is at work on its query; it has executed the END of it.
Active(e) ==
    e.at \in {"check", "execute", "commit"} \/ (e.at = "executed" /\ e.result = "OK")
Ended(e) == e.at = "executed" /\ e.result = "END"

\* The query of the shared state will be executed when the executor is done
\* with its own: it is not that one, and FinishQuery will not drop it.
Claimed(s, e) ==
    /\ s.has_query /\ ~Active(e)
    /\ ~(e.at = "finish" /\ e.result = "EJECT")
    /\ ~(e.at \in {"executed", "finish"} /\ e.ctx.q = s.current_query.q)

\* What the Worker holds, has ended and was asked to give up, and where it is.
Held(s, e) ==
    {q \in Queries : \/ Active(e) /\ q = e.ctx.q
                     \/ Claimed(s, e) /\ q = s.current_query.q}
Late(e) == {q \in Queries : Ended(e) /\ q = e.ctx.q}
Asked(s, e) ==
    {q \in Queries : (Active(e) \/ Ended(e)) /\ s.ejection_requested /\ q = e.ctx.q}
Place(s, e) ==
    IF e.at \in {"check", "execute"} THEN e.ctx.pc
    ELSE IF Active(e) THEN e.ctx.pc + 1
    ELSE s.current_query.pc

Known ==
    [holding  |-> [w \in Workers |-> Held(state[w], executor[w])],
     late     |-> [w \in Workers |-> Late(executor[w])],
     eject    |-> [w \in Workers |-> Asked(state[w], executor[w])],
     position |-> [w \in Workers |-> [q \in Queries |-> Place(state[w], executor[w])]],
     executed |-> executed]

\* While the executor is at work the shared state has its query, and no
\* instruction fails.
Steady(s, e) ==
    /\ Active(e) => s.has_query /\ s.current_query.q = e.ctx.q
    /\ e.at \in {"check", "execute", "commit"} => e.result = "OK"
    /\ e.at = "executed" => e.result \in {"OK", "END"}
    /\ e.at = "finish" => e.result \in {"EJECT", "END"}
    /\ e.at \in {"check", "execute"} => e.ctx.pc <= ProgramLength
    /\ Active(e) /\ e.at \in {"executed", "commit"} => e.ctx.pc < ProgramLength

\* What was executed of a query is where its Worker is in it.
Counted(k) ==
    \A q \in Queries :
        /\ k.executed[q] <= ProgramLength
        /\ \A w \in Workers : q \in k.holding[w] => k.position[w][q] = k.executed[q]

\* The inductive invariant.
ClusterInv ==
    /\ TypeOK /\ ThreadsFit
    /\ \A w \in Workers : Steady(state[w], executor[w])
    /\ \A k : k = Known => SystemInv(k, {}) /\ Counted(k)

\* k and l are what is known before and after a critical section of v.
Knows(v, s, e, t, f, k, l) ==
    /\ k.holding[v] = Held(s, e) /\ k.late[v] = Late(e) /\ k.eject[v] = Asked(s, e)
    /\ l.holding[v] = Held(t, f) /\ l.late[v] = Late(f) /\ l.eject[v] = Asked(t, f)
    /\ \A q \in Queries : k.position[v][q] = Place(s, e) /\ l.position[v][q] = Place(t, f)
    /\ \A w \in Workers : w # v =>
          /\ l.holding[w] = k.holding[w] /\ l.late[w] = k.late[w] /\ l.eject[w] = k.eject[w]
          /\ \A q \in Queries : l.position[w][q] = k.position[w][q]
    /\ k.executed = executed /\ l.executed = executed'

\* A critical section changes what is known of its Worker only.
LEMMA SectionKnows ==
    ASSUME TypeOK, ThreadsFit, NEW v \in Workers, NEW s, NEW e, NEW t, NEW f,
           Section(v, s, e, t, f), NEW k, NEW l, k = Known, l = Known'
    PROVE  Knows(v, s, e, t, f, k, l)
<1>1. state \in [Workers -> States] /\ executor \in [Workers -> Threads]
  BY Before
<1>2. /\ state'[v] = t /\ executor'[v] = f /\ state[v] = s /\ executor[v] = e
      /\ \A w \in Workers : w # v => state'[w] = state[w] /\ executor'[w] = executor[w]
  BY <1>1 DEF Section
<1>3. /\ \A w \in Workers : /\ k.holding[w] = Held(state[w], executor[w])
                            /\ k.late[w] = Late(executor[w])
                            /\ k.eject[w] = Asked(state[w], executor[w])
                            /\ \A q \in Queries :
                                  k.position[w][q] = Place(state[w], executor[w])
      /\ k.executed = executed
  BY DEF Known
<1>4. /\ \A w \in Workers : /\ l.holding[w] = Held(state'[w], executor'[w])
                            /\ l.late[w] = Late(executor'[w])
                            /\ l.eject[w] = Asked(state'[w], executor'[w])
                            /\ \A q \in Queries :
                                  l.position[w][q] = Place(state'[w], executor'[w])
      /\ l.executed = executed'
  BY DEF Known
<1>5. ASSUME NEW w \in Workers, w # v
      PROVE  /\ l.holding[w] = k.holding[w] /\ l.late[w] = k.late[w] /\ l.eject[w] = k.eject[w]
             /\ \A q \in Queries : l.position[w][q] = k.position[w][q]
  <2>1. state'[w] = state[w] /\ executor'[w] = executor[w]
    BY <1>2, <1>5
  <2> QED
    BY <1>3, <1>4, <2>1
<1> QED
  BY <1>2, <1>3, <1>4, <1>5 DEF Knows

\* The Worker knows no more of x.
Forgets(x, s, e, t, f) ==
    /\ \/ /\ x \in Held(t, f) <=> x \in Held(s, e)
          /\ x \in Late(f) <=> x \in Late(e)
          /\ x \in Asked(t, f) <=> x \in Asked(s, e)
       \/ x \notin Held(t, f) /\ x \notin Late(f) /\ x \notin Asked(t, f)
    /\ x \in Held(t, f) => Place(t, f) = Place(s, e)

\* A critical section about one query at most.
LEMMA KnowsFades ==
    ASSUME NEW v \in Workers, NEW s, NEW e, NEW t, NEW f, NEW k, NEW l,
           Knows(v, s, e, t, f, k, l), NEW x \in Queries, NEW w \in Workers,
           w # v \/ Forgets(x, s, e, t, f)
    PROVE  Fades(w, x, k, l)
<1>1. CASE w = v
  BY <1>1 DEF Knows, Forgets, Fades, Agree
<1>2. CASE w # v
  BY <1>2 DEF Knows, Fades, Agree
<1> QED
  BY <1>1, <1>2

\* What was executed stays what the Workers count.
LEMMA CountedKept ==
    ASSUME Fallible = {}, NEW k, NEW l, NEW v \in Workers, NEW q \in Queries, Counted(k),
           OnlyFades(v, q, k, l), l.executed[q] <= ProgramLength,
           q \in l.holding[v] => l.position[v][q] = l.executed[q],
           \/ l.executed[q] = k.executed[q]
           \/ \A w \in Workers : w # v => q \notin k.holding[w]
    PROVE  Counted(l)
<1> SUFFICES ASSUME NEW x \in Queries
             PROVE  /\ l.executed[x] <= ProgramLength
                    /\ \A w \in Workers : x \in l.holding[w] => l.position[w][x] = l.executed[x]
  BY DEF Counted
<1>1. \A w \in Workers : w # v \/ x # q => Fades(w, x, k, l)
  BY DEF OnlyFades
<1>2. /\ k.executed[x] <= ProgramLength
      /\ \A w \in Workers : x \in k.holding[w] => k.position[w][x] = k.executed[x]
  BY DEF Counted
<1>3. CASE x = q
  BY <1>1, <1>2, <1>3 DEF Fades, Agree
<1>4. CASE x # q
  BY <1>1, <1>2, <1>4 DEF Fades, OnlyFades, Agree
<1> QED
  BY <1>3, <1>4

\* So too where nobody knows more.
LEMMA CountedFaded ==
    ASSUME Fallible = {}, NEW k, NEW l, Counted(k),
           \A w \in Workers, q \in Queries : Fades(w, q, k, l), l.executed = k.executed
    PROVE  Counted(l)
BY DEF Counted, Fades, Agree

-----------------------------------------------------------------------------
(* Queries that run.                                                       *)

\* Where no instruction fails, a query that is on its way to a Worker, or
\* that a live Worker holds, runs on it.
LEMMA OutstandingRuns ==
    ASSUME NEW k, SystemInv(k, {}), NEW v \in Workers, NEW q \in Queries, Outstanding(v, q, k)
    PROVE  q \in running_list /\ qcb[q].worker = v /\ RunningAt(v, q, k)
<1>1. {} \cap Crashers = {} /\ v \notin {}
  OBVIOUS
<1>2. q \in running_list
  BY <1>1 DEF SystemInv, RetainInv, Retained
<1>3. RunningAt(v, q, k)
  BY <1>2 DEF SystemInv, Assigned, QueryAssigned, PairInv
<1>4. Involved(v, q, k)
  BY DEF Outstanding, Involved, About, Has, Concerns, Matches
<1> QED
  BY <1>2, <1>3, <1>4 DEF RunningAt

\* One Worker runs one query.
LEMMA OneRuns ==
    ASSUME NEW k, SystemInv(k, {}), NEW v \in Workers,
           NEW q \in Queries, Outstanding(v, q, k), NEW r \in Queries, r \in running_list,
           Involved(v, r, k)
    PROVE  q = r
<1>1. q \in running_list /\ qcb[q].worker = v
  BY OutstandingRuns
<1>2. RunningAt(v, r, k)
  BY DEF SystemInv, Assigned, QueryAssigned, PairInv
<1>3. qcb[r].worker = v
  BY <1>2 DEF RunningAt
<1> QED
  BY <1>1, <1>3 DEF SystemInv, WorkerInv, TablesInv

\* A request for the eviction of a query that does not run changes nothing.
LEMMA MootRequest ==
    ASSUME NEW k, NEW l, NEW F, SystemInv(k, F),
           \A w \in Workers, x \in Queries :
               /\ x \in l.holding[w] <=> x \in k.holding[w]
               /\ x \in l.late[w] <=> x \in k.late[w]
               /\ l.position[w][x] = k.position[w][x]
               /\ x \in l.eject[w] => \/ x \in k.eject[w]
                                      \/ x \in k.holding[w] \cup k.late[w] /\ x \notin running_list,
           \A x \in Queries : l.executed[x] = k.executed[x]
    PROVE  SystemInv(l, F)
<1>1. ASSUME NEW w \in Workers, NEW x \in Queries PROVE Involved(w, x, l) <=> Involved(w, x, k)
  BY DEF Involved
<1>2. ASSUME NEW w \in Workers, NEW x \in Queries PROVE Outstanding(w, x, l) => Outstanding(w, x, k)
  BY DEF Outstanding
<1>3. ASSUME NEW x \in Queries PROVE QueryAssigned(x, l)
  <2>1. QueryAssigned(x, k)
    BY DEF SystemInv, Assigned
  <2>2. ASSUME NEW w \in Workers PROVE PairInv(w, x, l)
    <3>1. PairInv(w, x, k) /\ (Involved(w, x, l) <=> Involved(w, x, k))
      BY <1>1, <2>1 DEF QueryAssigned
    <3>2. x \in running_list => RunningAt(w, x, l)
      BY <3>1 DEF PairInv, RunningAt
    <3> QED
      BY <3>1, <3>2 DEF PairInv
  <2> QED
    BY <1>1, <2>1, <2>2 DEF QueryAssigned
<1>4. F \cap Crashers = {} => RetainInv(l, F)
  BY <1>2 DEF SystemInv, RetainInv, Retained
<1> QED
  BY <1>3, <1>4 DEF SystemInv, Assigned

-----------------------------------------------------------------------------
(* The critical sections, seen from their Worker.                          *)

\* The ones of the executor that say nothing.
LEMMA SilentForgets ==
    ASSUME NEW s \in States, NEW e \in Threads, NEW t \in States, NEW f \in Threads,
           Fit(s, e), Steady(s, e), Silent(s, e, t, f),
           \A q \in Held(s, e) : Place(s, e) <= ProgramLength
    PROVE  Steady(t, f) /\ \A x \in Queries : Forgets(x, s, e, t, f)
<1>0. e.ctx.pc \in Nat /\ s.current_query.pc \in Nat /\ ProgramLength \in Nat
  BY Fields, WireAssumption DEF ProgramCounters
<1>1. CASE Fetching(s, e, t, f)
  <2>1. /\ e.at = "fetch" /\ f.at = "load" /\ f.ctx = e.ctx /\ f.result = e.result
        /\ t.has_query = s.has_query /\ t.current_query = s.current_query
        /\ t.ejection_requested = s.ejection_requested
    BY <1>1 DEF Fetching, States, Threads
  <2> QED
    BY <2>1 DEF Steady, Forgets, Held, Late, Asked, Place, Active, Ended, Claimed
<1>2. CASE Loading(s, e, t, f)
  <2>1. /\ e.at = "load" /\ f.at = "check" /\ f.ctx = s.current_query /\ f.result = "OK"
        /\ t.has_query = s.has_query /\ t.current_query = s.current_query
        /\ t.ejection_requested = FALSE /\ s.has_query /\ s.current_query.q \in Queries
    BY <1>2 DEF Loading, States, Threads, Fit
  <2>2. s.current_query.q \in Held(s, e) /\ Place(s, e) = s.current_query.pc
    BY <2>1 DEF Held, Place, Active, Claimed
  <2>3. s.current_query.pc <= ProgramLength
    BY <2>2
  <2> QED
    BY <2>1, <2>3 DEF Steady, Forgets, Held, Late, Asked, Place, Active, Ended, Claimed
<1>3. CASE GoingOn(s, e, t, f)
  <2>1. /\ e.at = "check" /\ f.at = "execute" /\ f.ctx = e.ctx /\ f.result = e.result /\ t = s
    BY <1>3 DEF GoingOn, States, Threads
  <2> QED
    BY <2>1 DEF Steady, Forgets, Held, Late, Asked, Place, Active, Ended, Claimed
<1>4. CASE Passing(s, e, t, f)
  <2>1. /\ e.at = "executed" /\ f.ctx = e.ctx /\ f.result = e.result /\ t = s
        /\ e.result = "END" => f.at = "finish"
        /\ e.result # "END" => f.at = "commit"
        /\ ~s.ejection_requested
    BY <1>4 DEF Passing, States, Threads
  <2> QED
    BY <2>1 DEF Steady, Forgets, Held, Late, Asked, Place, Active, Ended, Claimed
<1>5. CASE Committing(s, e, t, f)
  <2>1. /\ e.at = "commit" /\ f.at = "check" /\ f.ctx.q = e.ctx.q /\ f.ctx.pc = e.ctx.pc + 1
        /\ f.result = e.result /\ t.has_query = s.has_query
        /\ t.current_query.q = s.current_query.q /\ t.ejection_requested = s.ejection_requested
    BY <1>5 DEF Committing, States, Threads, Contexts
  <2>2. e.ctx.pc < ProgramLength
    BY <2>1 DEF Steady, Active
  <2>3. e.ctx.pc + 1 <= ProgramLength
    BY <1>0, <2>2
  <2> QED
    BY <2>1, <2>3 DEF Steady, Forgets, Held, Late, Asked, Place, Active, Ended, Claimed
<1>6. CASE Finishing(s, e, t, f)
  <2>1. /\ e.at = "finish" /\ f.at = "fetch" /\ f.ctx = e.ctx /\ f.result = e.result
        /\ t.has_query <=> s.has_query /\ e.result # "EJECT" /\ s.current_query.q # e.ctx.q
        /\ t.current_query = s.current_query /\ t.ejection_requested = s.ejection_requested
    BY <1>6 DEF Finishing, States, Threads
  <2> QED
    BY <2>1 DEF Steady, Forgets, Held, Late, Asked, Place, Active, Ended, Claimed
<1> QED
  BY <1>1, <1>2, <1>3, <1>4, <1>5, <1>6 DEF Silent

\* An instruction is executed.
LEMMA WorkingKnows ==
    ASSUME NEW s \in States, NEW e \in Threads, NEW t \in States, NEW f \in Threads,
           Fit(s, e), Steady(s, e), Working(s, e, t, f)
    PROVE  LET q == e.ctx.q IN
           /\ Steady(t, f) /\ \A x \in Queries : x # q => Forgets(x, s, e, t, f)
           /\ q \in Queries /\ q \in Held(s, e) /\ q \in Held(t, f)
           /\ q \in Late(f) <=> q \in Late(e)
           /\ q \in Asked(t, f) <=> q \in Asked(s, e)
           /\ Place(s, e) = e.ctx.pc /\ Place(t, f) = e.ctx.pc + 1
<1>1. /\ e.at = "execute" /\ f.at = "executed" /\ f.ctx = e.ctx /\ f.result = e.result /\ t = s
      /\ e.ctx.pc < ProgramLength /\ e.result = "OK"
  BY DEF Working, States, Threads, Steady
<1>2. e.ctx.q \in Queries
  BY <1>1 DEF Fit
<1> QED
  BY <1>1, <1>2 DEF Steady, Forgets, Held, Late, Asked, Place, Active, Ended, Claimed

\* The END is executed.
LEMMA EndingKnows ==
    ASSUME NEW s \in States, NEW e \in Threads, NEW t \in States, NEW f \in Threads,
           Fit(s, e), Steady(s, e), Ending(s, e, t, f)
    PROVE  LET q == e.ctx.q IN
           /\ Steady(t, f) /\ \A x \in Queries : x # q => Forgets(x, s, e, t, f)
           /\ q \in Queries /\ q \in Held(s, e) /\ q \notin Held(t, f) /\ q \in Late(f)
           /\ q \in Asked(t, f) => q \in Asked(s, e)
<1>1. /\ e.at = "execute" /\ f.at = "executed" /\ f.ctx = e.ctx /\ f.result = "END" /\ t = s
      /\ e.result = "OK"
  BY DEF Ending, States, Threads, Steady
<1>2. e.ctx.q \in Queries
  BY <1>1 DEF Fit
<1> QED
  BY <1>1, <1>2 DEF Steady, Forgets, Held, Late, Asked, Place, Active, Ended, Claimed

\* The executor answers a request for the eviction of its query.
LEMMA LeavingKnows ==
    ASSUME NEW s \in States, NEW e \in Threads, NEW t \in States, NEW f \in Threads,
           Fit(s, e), Steady(s, e), Leaving(s, e, t, f)
    PROVE  LET q == e.ctx.q IN
           /\ Steady(t, f) /\ \A x \in Queries : Forgets(x, s, e, t, f)
           /\ q \in Queries /\ q \in Held(s, e) \cup Late(e) /\ q \in Asked(s, e)
           /\ q \notin Held(t, f) /\ q \notin Late(f) /\ q \notin Asked(t, f)
           /\ q \in Held(s, e) => Place(s, e) = ResumeAt(e)
<1>1. /\ e.at \in {"check", "executed"} /\ f.at = "finish" /\ f.ctx = e.ctx
      /\ f.result = "EJECT" /\ t = s /\ s.ejection_requested
  BY DEF Leaving, States, Threads
<1>2. e.ctx.q \in Queries
  BY <1>1 DEF Fit
<1>3. Held(t, f) = {} /\ Late(f) = {} /\ Asked(t, f) = {}
  BY <1>1 DEF Held, Late, Asked, Active, Ended, Claimed
<1>4. e.at = "check" => e.result = "OK"
  BY <1>1 DEF Steady
<1>5. e.at = "executed" => e.result \in {"OK", "END"}
  BY <1>1 DEF Steady
<1>6. Active(e) \/ Ended(e)
  BY <1>1, <1>5 DEF Active, Ended
<1>7. e.ctx.q \in Held(s, e) \cup Late(e) /\ e.ctx.q \in Asked(s, e)
  BY <1>1, <1>2, <1>6 DEF Held, Late, Asked
<1>8. e.ctx.q \in Held(s, e) => Place(s, e) = ResumeAt(e)
  BY <1>1 DEF Held, Place, ResumeAt, Active, Claimed
<1>9. Steady(t, f)
  BY <1>1 DEF Steady, Active
<1> QED
  BY <1>2, <1>3, <1>7, <1>8, <1>9 DEF Forgets

\* The listener gives up a query that the executor has not fetched.
LEMMA DecliningKnows ==
    ASSUME NEW s \in States, NEW e \in Threads, NEW t \in States, NEW m,
           Fit(s, e), Steady(s, e), Declining(s, t, m)
    PROVE  LET q == m.q IN
           /\ Steady(t, e) /\ \A x \in Queries : Forgets(x, s, e, t, e)
           /\ q \in Held(s, e) /\ Place(s, e) = s.current_query.pc
           /\ q \notin Held(t, e) /\ q \notin Late(e) /\ q \notin Asked(t, e)
<1>1. /\ e.at = "fetch" /\ t.has_query = FALSE /\ t.current_query = s.current_query
      /\ s.has_query /\ s.current_query.q = m.q /\ m.q \in Queries
      /\ t.ejection_requested = s.ejection_requested
  BY DEF Declining, States, Fit
<1> QED
  BY <1>1 DEF Steady, Forgets, Held, Late, Asked, Place, Active, Ended, Claimed

\* The listener passes a request on to the executor.
LEMMA AskingKnows ==
    ASSUME NEW s \in States, NEW e \in Threads, NEW t \in States, NEW m,
           Fit(s, e), Steady(s, e), Asking(s, t, m)
    PROVE  /\ Steady(t, e) /\ Held(t, e) = Held(s, e) /\ Place(t, e) = Place(s, e)
           /\ \A x \in Queries : x \in Asked(t, e)
                 => x \in Asked(s, e) \/ (x \in Held(s, e) \cup Late(e) /\ x = e.ctx.q)
           /\ Ended(e) /\ e.ctx.q # m.q => m.q \in Held(s, e)
           /\ Active(e) => e.ctx.q = m.q
           /\ Asked(t, e) # {} => Active(e) \/ Ended(e)
           /\ \A x \in Queries : x \in Asked(s, e) => x \in Asked(t, e)
<1>1. /\ t.has_query = s.has_query /\ t.current_query = s.current_query
      /\ s.has_query /\ s.current_query.q = m.q /\ m.q \in Queries
      /\ t.ejection_requested = TRUE
  BY DEF Asking, States, Fit
<1> QED
  BY <1>1 DEF Steady, Held, Late, Asked, Place, Active, Ended, Claimed

\* The listener puts a query where there is none.
LEMMA AssignKnows ==
    ASSUME NEW s \in States, NEW e \in Threads, NEW t \in States, NEW m,
           Fit(s, e), Steady(s, e), Held(s, e) = {}, m.q \in Queries,
           t = [s EXCEPT !.current_query = [q |-> m.q, pc |-> m.pc], !.has_query = TRUE]
    PROVE  LET q == m.q IN
           /\ Steady(t, e) /\ \A x \in Queries : x # q => Forgets(x, s, e, t, e)
           /\ Claimed(t, e) => /\ Place(t, e) = m.pc
                               /\ q \notin Late(e) /\ q \notin Asked(t, e)
           /\ ~Claimed(t, e) => Forgets(q, s, e, t, e)
<1>1. /\ t.has_query = TRUE /\ t.current_query.q = m.q /\ t.current_query.pc = m.pc
      /\ t.ejection_requested = s.ejection_requested
  BY DEF States
<1>2. ~Active(e)
  <2>1. Active(e) => e.ctx.q \in Held(s, e)
    BY DEF Held, Active, Fit
  <2> QED
    BY <2>1
<1> QED
  BY <1>1, <1>2 DEF Steady, Forgets, Held, Late, Asked, Place, Active, Ended, Claimed

-----------------------------------------------------------------------------
(* The critical sections, seen from the Master.                            *)

\* p is one eviction response.
EvictsAlone(p, q, pc) ==
    /\ p \in Seq(WorkerPackages) /\ Farewell(p, q, pc) /\ ~Has(p, "END", q)
    /\ \A i \in DOMAIN p : p[i].op = "EVICTED" /\ p[i].q = q

\* So a Worker that never fails answers a request.
LEMMA EvictedAlone ==
    ASSUME Fallible = {}, NEW v, NEW q \in Queries, NEW pc \in ProgramCounters,
           NEW r \in FlushReports(v, q)
    PROVE  EvictsAlone(r \o <<EvictedPackage(q, pc)>>, q, pc)
<1>0. PICK p : p = r \o <<EvictedPackage(q, pc)>>
  OBVIOUS
<1>1. /\ EvictedPackage(q, pc) \in WorkerPackages
      /\ EvictedPackage(q, pc).op = "EVICTED" /\ EvictedPackage(q, pc).q = q
      /\ EvictedPackage(q, pc).pc = pc
  BY PackageKinds DEF EvictedPackage
<1>2. r = <<>>
  BY DEF FlushReports
<1> DEFINE m == EvictedPackage(q, pc)
<1>3. <<m>> \in Seq(WorkerPackages) /\ DOMAIN <<m>> = {1} /\ <<m>>[1] = m
  BY <1>1
<1>4. p = <<m>>
  BY <1>0, <1>2, <1>3, ConcatEmptySeq
<1> HIDE DEF m
<1>5. p \in Seq(WorkerPackages) /\ DOMAIN p = {1} /\ p[1] = m
  BY <1>3, <1>4
<1>6. m.op = "EVICTED" /\ m.q = q /\ m.pc = pc
  BY <1>1 DEF m
<1>7. ~Has(p, "END", q) /\ Once(p, "END", q) /\ EvictedLast(p, q) /\ PcIs(p, "EVICTED", q, pc)
  BY <1>5, <1>6 DEF Has, Once, EvictedLast, PcIs, Matches, Agree
<1>8. EvictsAlone(p, q, pc)
  BY <1>5, <1>6, <1>7 DEF EvictsAlone, Farewell
<1> QED
  BY <1>0, <1>8

\* The END of a query.
LEMMA EndAlone ==
    ASSUME NEW q \in Queries, NEW pc, NEW p, p = <<EndPackage(q)>>
    PROVE  /\ p \in Seq(WorkerPackages) /\ Farewell(p, q, pc)
           /\ Has(p, "END", q) /\ ~Has(p, "EVICTED", q)
           /\ \A i \in DOMAIN p : p[i].op = "END" /\ p[i].q = q
<1>1. /\ EndPackage(q) \in WorkerPackages /\ EndPackage(q).op = "END" /\ EndPackage(q).q = q
  BY DEF EndPackage, WorkerPackages
<1> DEFINE m == EndPackage(q)
<1>2. p \in Seq(WorkerPackages) /\ DOMAIN p = {1} /\ p[1] = m
  BY <1>1
<1> HIDE DEF m
<1>3. m.op = "END" /\ m.q = q
  BY <1>1 DEF m
<1>4. Has(p, "END", q) /\ ~Has(p, "EVICTED", q) /\ Once(p, "END", q) /\ EvictedLast(p, q)
  BY <1>2, <1>3 DEF Has, Once, EvictedLast, Matches
<1> QED
  BY <1>2, <1>3, <1>4 DEF Farewell

\* The two invariants after a step.
Kept(l) == SystemInv(l, {})' /\ Counted(l)

\* A Worker in its critical section.
LEMMA SectionThread ==
    ASSUME NEW v, NEW s, NEW e, NEW t, NEW f, Section(v, s, e, t, f), UNCHANGED master
    PROVE  ThreadOf(v)
BY DEF Section, ThreadOf

\* The Worker learns nothing and says nothing.
LEMMA ForgottenKept ==
    ASSUME Fallible = {}, NEW k, NEW l, SystemInv(k, {}), Counted(k),
           NEW v \in Workers, NEW s, NEW e, NEW t, NEW f, ThreadOf(v),
           Knows(v, s, e, t, f, k, l), \A x \in Queries : Forgets(x, s, e, t, f),
           UNCHANGED toWorker \/ Takes(v), UNCHANGED <<fromWorker, executed>>
    PROVE  Kept(l)
<1>1. \A w \in Workers, x \in Queries : Fades(w, x, k, l)
  BY KnowsFades
<1>2. l.executed = k.executed
  BY DEF Knows
<1>3. Counted(l)
  BY <1>1, <1>2, CountedFaded
<1>4. SystemInv(l, {})'
  BY <1>1, <1>2, SystemFades
<1> QED
  BY <1>3, <1>4 DEF Kept

\* assign_query.
LEMMA AssignKept ==
    ASSUME Fallible = {}, TypeOK, ThreadsFit, NEW v \in Workers, assign_query(v),
           UNCHANGED master,
           NEW k, NEW l, k = Known, l = Known', SystemInv(k, {}), Counted(k),
           Steady(state[v], executor[v])
    PROVE  Kept(l) /\ Steady(state'[v], executor'[v])
<1> DEFINE m == Head(toWorker[v])
           q == m.q
<1>1. PICK s, e, t :
              /\ Section(v, s, e, t, e) /\ Takes(v) /\ UNCHANGED <<fromWorker, executed>>
              /\ m.op = "START" /\ m.q \in Queries /\ m.pc \in ProgramCounters
              /\ t = [s EXCEPT !.current_query = [q |-> m.q, pc |-> m.pc], !.has_query = TRUE]
  BY AssignSection
<1>2. /\ s \in States /\ e \in Threads /\ t \in States /\ Fit(s, e) /\ Steady(s, e)
      /\ Running(v)
  BY <1>1 DEF Section
<1>3. Knows(v, s, e, t, e, k, l) /\ ThreadOf(v)
  BY <1>1, SectionKnows, SectionThread
<1>4. toWorker[v] \in Seq(MasterPackages) /\ toWorker[v] # <<>> /\ Matches(m, "START", q)
  BY <1>1 DEF TypeOK, WireTypeOK, Takes, Matches
<1>5. state'[v] = t /\ executor'[v] = e
  BY <1>1, Before DEF Section
<1> HIDE DEF m
<1>6. Has(toWorker[v], "START", q)
  BY <1>4, TailChannel DEF m
<1>7. Outstanding(v, q, k) /\ RunningAt(v, q, k) /\ q \in Queries
  BY <1>1, <1>6, OutstandingRuns DEF Outstanding
<1>8. Held(s, e) = {}
  <2> SUFFICES ASSUME NEW r \in Held(s, e) PROVE FALSE
    OBVIOUS
  <2>1. r \in Queries /\ r \in k.holding[v]
    BY <1>3 DEF Held, Knows
  <2>2. Outstanding(v, r, k) /\ Involved(v, r, k)
    BY <1>2, <2>1 DEF Outstanding, Involved, Running
  <2>3. r \in running_list
    BY <2>1, <2>2, OutstandingRuns
  <2>4. r = q
    BY <1>7, <2>1, <2>2, <2>3, OneRuns
  <2> QED
    BY <1>6, <1>7, <2>1, <2>4 DEF RunningAt
<1>9. /\ Steady(t, e) /\ \A x \in Queries : x # q => Forgets(x, s, e, t, e)
      /\ Claimed(t, e) => Place(t, e) = m.pc /\ q \notin Late(e) /\ q \notin Asked(t, e)
      /\ ~Claimed(t, e) => Forgets(q, s, e, t, e)
  BY <1>1, <1>2, <1>8, AssignKnows
<1>10. CASE ~Claimed(t, e)
  <2>1. \A x \in Queries : Forgets(x, s, e, t, e)
    BY <1>9, <1>10
  <2>2. Kept(l)
    BY <1>1, <1>3, <2>1, ForgottenKept
  <2> QED
    BY <1>5, <1>9, <2>2
<1>11. CASE Claimed(t, e)
  <2>1. OnlyFades(v, q, k, l)
    <3>1. \A w \in Workers, x \in Queries : w # v \/ x # q => Fades(w, x, k, l)
      BY <1>3, <1>9, KnowsFades
    <3>2. l.executed = k.executed
      BY <1>1, <1>3 DEF Knows
    <3> QED
      BY <3>1, <3>2 DEF OnlyFades
  <2>2. /\ l.position[v][q] = m.pc /\ q \notin l.eject[v] /\ q \notin l.late[v]
        /\ l.executed[q] = k.executed[q]
    BY <1>1, <1>3, <1>7, <1>9, <1>11 DEF Knows
  <2>3. SystemInv(l, {})'
    BY <1>1, <1>3, <1>4, <1>7, <2>1, <2>2, SystemStart DEF m
  <2>4. m.pc = k.executed[q]
    <3>1. PcIs(toWorker[v], "START", q, k.executed[q])
      BY <1>7 DEF RunningAt
    <3> HIDE DEF q
    <3>2. \A pc : PcIs(toWorker[v], "START", q, pc) /\ Matches(Head(toWorker[v]), "START", q)
                  => Head(toWorker[v]).pc = pc
      BY <1>4, TailChannel DEF Agree
    <3> QED
      BY <1>4, <3>1, <3>2 DEF m
  <2>5. Counted(l)
    <3>1. l.executed[q] <= ProgramLength
      BY <1>7, <2>2 DEF Counted
    <3> QED
      BY <1>7, <2>1, <2>2, <2>4, <3>1, CountedKept
  <2> QED
    BY <1>5, <1>9, <2>3, <2>5 DEF Kept
<1> QED
  BY <1>10, <1>11

\* A request for the eviction of a query is passed on.
LEMMA AskingKept ==
    ASSUME Fallible = {}, TypeOK, NEW v \in Workers,
           NEW k, NEW l, SystemInv(k, {}), Counted(k),
           NEW s \in States, NEW e \in Threads, NEW t \in States, Fit(s, e), Steady(s, e),
           ThreadOf(v), Knows(v, s, e, t, e, k, l), Takes(v), UNCHANGED <<fromWorker, executed>>,
           NEW m, m = Head(toWorker[v]), m.op = "PREEMPT", m.q \in Queries, Asking(s, t, m)
    PROVE  Kept(l) /\ Steady(t, e)
<1>1. /\ Steady(t, e) /\ Held(t, e) = Held(s, e) /\ Place(t, e) = Place(s, e)
      /\ \A x \in Queries : x \in Asked(t, e)
            => x \in Asked(s, e) \/ (x \in Held(s, e) \cup Late(e) /\ x = e.ctx.q)
      /\ Ended(e) /\ e.ctx.q # m.q => m.q \in Held(s, e)
      /\ Active(e) => e.ctx.q = m.q
      /\ Asked(t, e) # {} => Active(e) \/ Ended(e)
      /\ \A x \in Queries : x \in Asked(s, e) => x \in Asked(t, e)
  BY AskingKnows
<1>2. Counted(l)
  BY <1>1 DEF Counted, Knows
<1>3. \A x \in Queries : l.executed[x] = k.executed[x]
  BY DEF Knows
<1>4. CASE e.ctx.q = m.q
  <2> DEFINE q == m.q
  <2>1. \A x \in Queries : x # q => Forgets(x, s, e, t, e)
    BY <1>1, <1>4 DEF Forgets
  <2>2. OnlyFades(v, q, k, l)
    BY <1>3, <2>1, KnowsFades DEF OnlyFades
  <2>3. /\ q \in l.holding[v] <=> q \in k.holding[v]
        /\ q \in l.late[v] <=> q \in k.late[v]
        /\ q \in l.eject[v] => q \in k.eject[v] \/ q \in k.holding[v] \cup k.late[v]
        /\ l.position[v][q] = k.position[v][q]
    BY <1>1 DEF Knows
  <2>4. Matches(Head(toWorker[v]), "PREEMPT", q)
    BY DEF Matches
  <2>5. SystemInv(l, {})'
    BY <1>3, <2>2, <2>3, <2>4, SystemRequest
  <2> QED
    BY <1>1, <1>2, <2>5 DEF Kept
<1>5. CASE e.ctx.q # m.q
  <2>1. ASSUME NEW x \in Queries, x \in Asked(t, e), x \notin Asked(s, e)
        PROVE  x \in k.late[v] \cup k.holding[v] /\ x \notin running_list
    <3>1. x \in k.late[v] \cup k.holding[v] /\ x = e.ctx.q /\ m.q \in k.holding[v]
      BY <1>1, <1>5, <2>1 DEF Knows
    <3>2. Outstanding(v, m.q, k) /\ Involved(v, x, k)
      BY <3>1 DEF Outstanding, Involved, ThreadOf, Running
    <3> QED
      BY <1>5, <3>1, <3>2, OneRuns
  <2>2. \A w \in Workers, x \in Queries :
               /\ x \in l.holding[w] <=> x \in k.holding[w]
               /\ x \in l.late[w] <=> x \in k.late[w]
               /\ l.position[w][x] = k.position[w][x]
               /\ x \in l.eject[w] => \/ x \in k.eject[w]
                                      \/ x \in k.holding[w] \cup k.late[w] /\ x \notin running_list
    BY <1>1, <2>1 DEF Knows
  <2>3. SystemInv(l, {})
    BY <1>3, <2>2, MootRequest
  <2>4. \A w \in Workers, x \in Queries : Fades(w, x, l, l)
    BY SameFades
  <2>5. SystemInv(l, {})'
    BY <2>3, <2>4, SystemFades
  <2> QED
    BY <1>1, <1>2, <2>5 DEF Kept
<1> QED
  BY <1>4, <1>5

\* A Worker answers a request for the eviction of a query.
LEMMA AnswerKept ==
    ASSUME Fallible = {}, NEW v \in Workers, NEW k, NEW l, SystemInv(k, {}), Counted(k),
           NEW s, NEW e, NEW t, NEW f, ThreadOf(v), Knows(v, s, e, t, f, k, l),
           UNCHANGED toWorker \/ Takes(v), UNCHANGED executed,
           NEW q \in Queries, NEW pc \in ProgramCounters, NEW r \in FlushReports(v, q),
           Says(v, r \o <<EvictedPackage(q, pc)>>),
           \A x \in Queries : Forgets(x, s, e, t, f),
           q \in Held(s, e) \cup Late(e),
           q \notin Held(t, f), q \notin Late(f), q \notin Asked(t, f),
           q \in Held(s, e) => Place(s, e) = pc,
           q \in running_list => qcb[q].pending /\ ~Has(toWorker'[v], "PREEMPT", q)
    PROVE  Kept(l)
<1>1. PICK p : p = r \o <<EvictedPackage(q, pc)>>
  OBVIOUS
<1>2. /\ p \in Seq(WorkerPackages) /\ Farewell(p, q, pc) /\ ~Has(p, "END", q)
      /\ \A i \in DOMAIN p : p[i].op = "EVICTED" /\ p[i].q = q
  BY <1>1, EvictedAlone DEF EvictsAlone
<1>3. \A w \in Workers, x \in Queries : Fades(w, x, k, l)
  BY KnowsFades
<1>4. l.executed = k.executed
  BY DEF Knows
<1>5. OnlyFades(v, q, k, l)
  BY <1>3, <1>4 DEF OnlyFades
<1>6. Counted(l)
  BY <1>3, <1>4, CountedFaded
<1>7. /\ q \in k.holding[v] \cup k.late[v]
      /\ q \notin l.holding[v] /\ q \notin l.late[v] /\ q \notin l.eject[v]
      /\ q \in k.holding[v] => k.position[v][q] = pc
  BY DEF Knows
<1>8. Farewell(p, q, k.position[v][q]) \/ q \notin k.holding[v]
  BY <1>2, <1>7
<1>9. /\ Once(p, "END", q) /\ EvictedLast(p, q) /\ Says(v, p)
      /\ \A i \in DOMAIN p : p[i].op \in {"END", "ERROR", "EVICTED"} /\ p[i].q = q
      /\ \A i \in DOMAIN p : p[i].op # "ERROR"
  BY <1>1, <1>2 DEF Farewell
<1>10. l.executed[q] = k.executed[q]
  BY <1>4
<1>11. q \in running_list /\ Has(p, "EVICTED", q)
       => qcb[q].pending /\ ~Has(toWorker'[v], "PREEMPT", q)
  OBVIOUS
<1>12. SystemInv(l, {})'
  BY <1>2, <1>5, <1>7, <1>8, <1>9, <1>10, <1>11, SystemFarewell
<1> QED
  BY <1>6, <1>12 DEF Kept

\* eject_query.
LEMMA RequestKept ==
    ASSUME Fallible = {}, TypeOK, ThreadsFit, NEW v \in Workers, eject_query(v),
           UNCHANGED master, NEW k, NEW l, k = Known, l = Known', SystemInv(k, {}), Counted(k),
           Steady(state[v], executor[v])
    PROVE  Kept(l) /\ Steady(state'[v], executor'[v])
<1>0. PICK m : m = Head(toWorker[v])
  OBVIOUS
<1>1. PICK s, e, t :
              /\ Section(v, s, e, t, e) /\ Takes(v) /\ UNCHANGED executed
              /\ m.op = "PREEMPT" /\ m.q \in Queries
              /\ \/ Ignoring(s, t, m) /\ UNCHANGED fromWorker
                 \/ Asking(s, t, m) /\ UNCHANGED fromWorker
                 \/ /\ Declining(s, t, m)
                    /\ \E r \in FlushReports(v, m.q) :
                          Says(v, r \o <<EvictedPackage(m.q, s.current_query.pc)>>)
  BY <1>0, RequestSection
<1>2. /\ s \in States /\ e \in Threads /\ t \in States /\ Fit(s, e) /\ Steady(s, e)
      /\ Running(v)
  BY <1>1 DEF Section
<1>3. Knows(v, s, e, t, e, k, l) /\ ThreadOf(v)
  BY <1>1, SectionKnows, SectionThread
<1>4. state'[v] = t /\ executor'[v] = e
  BY <1>1, Before DEF Section
<1>5. CASE Ignoring(s, t, m) /\ UNCHANGED fromWorker
  <2>1. t = s
    BY <1>5 DEF Ignoring
  <2>2. \A x \in Queries : Forgets(x, s, e, t, e)
    BY <2>1 DEF Forgets
  <2>3. Kept(l)
    BY <1>1, <1>3, <1>5, <2>2, ForgottenKept
  <2> QED
    BY <1>2, <1>4, <2>1, <2>3
<1>6. CASE Asking(s, t, m) /\ UNCHANGED fromWorker
  BY <1>0, <1>1, <1>2, <1>3, <1>4, <1>6, AskingKept
<1>7. CASE /\ Declining(s, t, m)
           /\ \E r \in FlushReports(v, m.q) :
                 Says(v, r \o <<EvictedPackage(m.q, s.current_query.pc)>>)
  <2> DEFINE q == m.q
             pc == s.current_query.pc
  <2>1. PICK r \in FlushReports(v, q) : Says(v, r \o <<EvictedPackage(q, pc)>>)
    BY <1>7
  <2>2. /\ Steady(t, e) /\ \A x \in Queries : Forgets(x, s, e, t, e)
        /\ q \in Held(s, e) /\ Place(s, e) = pc
        /\ q \notin Held(t, e) /\ q \notin Late(e) /\ q \notin Asked(t, e)
    BY <1>2, <1>7, DecliningKnows
  <2>3. pc \in ProgramCounters /\ q \in Queries
    BY <1>1, <1>2, Fields
  <2>4. Matches(Head(toWorker[v]), "PREEMPT", q)
    BY <1>0, <1>1 DEF Matches
  <2> HIDE DEF q, pc
  <2>5. q \in running_list => qcb[q].pending /\ ~Has(toWorker'[v], "PREEMPT", q)
    <3>1. /\ toWorker[v] \in Seq(MasterPackages) /\ toWorker[v] # <<>>
          /\ toWorker'[v] = Tail(toWorker[v])
      BY <1>1 DEF TypeOK, WireTypeOK, Takes
    <3>2. PairInv(v, q, k)
      BY <2>3 DEF SystemInv, Assigned, QueryAssigned
    <3>3. Has(toWorker[v], "PREEMPT", q) /\ ~Has(toWorker'[v], "PREEMPT", q)
      BY <2>4, <3>1, <3>2, TailChannel DEF PairInv
    <3> QED
      BY <3>2, <3>3 DEF PairInv, RunningAt
  <2>6. Kept(l)
    BY <1>1, <1>3, <2>1, <2>2, <2>3, <2>5, AnswerKept
  <2> QED
    BY <1>4, <2>2, <2>6
<1> QED
  BY <1>1, <1>5, <1>6, <1>7

\* query_executor_thread.
LEMMA ExecutorKept ==
    ASSUME Fallible = {}, TypeOK, ThreadsFit, NEW v \in Workers, Executor(v),
           UNCHANGED master, NEW k, NEW l, k = Known, l = Known', SystemInv(k, {}), Counted(k),
           Steady(state[v], executor[v])
    PROVE  Kept(l) /\ Steady(state'[v], executor'[v])
<1>1. PICK s, e, t, f :
              /\ Section(v, s, e, t, f) /\ UNCHANGED toWorker
              /\ \/ Silent(s, e, t, f) /\ UNCHANGED <<fromWorker, executed>>
                 \/ Speaking(v, s, e, t, f)
  BY ExecutorSection
<1>2. /\ s \in States /\ e \in Threads /\ t \in States /\ f \in Threads
      /\ Fit(s, e) /\ Steady(s, e) /\ Running(v)
  BY <1>1 DEF Section
<1>3. Knows(v, s, e, t, f, k, l) /\ ThreadOf(v)
  BY <1>1, SectionKnows, SectionThread
<1>4. state'[v] = t /\ executor'[v] = f
  BY <1>1, Before DEF Section
<1>5. \A q \in Held(s, e) : Place(s, e) = k.executed[q] /\ Place(s, e) <= ProgramLength
  BY <1>3 DEF Knows, Counted, Held
<1>6. CASE Silent(s, e, t, f) /\ UNCHANGED <<fromWorker, executed>>
  <2>1. Steady(t, f) /\ \A x \in Queries : Forgets(x, s, e, t, f)
    BY <1>2, <1>5, <1>6, SilentForgets
  <2>2. Kept(l)
    BY <1>1, <1>3, <1>6, <2>1, ForgottenKept
  <2> QED
    BY <1>4, <2>1, <2>2
<1>7. CASE /\ Working(s, e, t, f)
           /\ \E p \in {<<>>, <<[op |-> "READ", q |-> e.ctx.q]>>} : Says(v, p)
           /\ executed' = [executed EXCEPT ![e.ctx.q] = @ + 1]
  <2> DEFINE q == e.ctx.q
  <2>1. PICK p \in {<<>>, <<[op |-> "READ", q |-> q]>>} : Says(v, p)
    BY <1>7
  <2>2. /\ Steady(t, f) /\ \A x \in Queries : x # q => Forgets(x, s, e, t, f)
        /\ q \in Queries /\ q \in Held(s, e) /\ q \in Held(t, f)
        /\ q \in Late(f) <=> q \in Late(e)
        /\ q \in Asked(t, f) <=> q \in Asked(s, e)
        /\ Place(s, e) = e.ctx.pc /\ Place(t, f) = e.ctx.pc + 1
    BY <1>2, <1>7, WorkingKnows
  <2>3. e.ctx.pc < ProgramLength /\ executed' = [executed EXCEPT ![q] = @ + 1]
    BY <1>7 DEF Working
  <2>4. e.ctx.pc \in Nat /\ ProgramLength \in Nat
    BY <1>2, Fields, WireAssumption DEF ProgramCounters
  <2> HIDE DEF q
  <2>5. p \in Seq(WorkerPackages) /\ \A i \in DOMAIN p : p[i].op = "READ" /\ p[i].q = q
    <3>1. [op |-> "READ", q |-> q] \in WorkerPackages
      BY <2>2 DEF WorkerPackages
    <3>2. CASE p = <<>>
      BY <3>2
    <3>3. CASE p = <<[op |-> "READ", q |-> q]>>
      BY <3>1, <3>3
    <3> QED
      BY <3>2, <3>3
  <2>6. /\ executed \in [Queries -> Nat] /\ k.executed = executed /\ l.executed = executed'
    BY <1>3 DEF Knows, TypeOK, WorkerTypeOK
  <2>7. l.executed[q] = k.executed[q] + 1 /\ \A x \in Queries : x # q => l.executed[x] = k.executed[x]
    BY <2>2, <2>3, <2>6
  <2>8. OnlyFades(v, q, k, l)
    <3>1. \A w \in Workers, x \in Queries : w # v \/ x # q => Fades(w, x, k, l)
      BY <1>3, <2>2, KnowsFades
    <3> QED
      BY <2>7, <3>1 DEF OnlyFades
  <2>9. /\ q \in k.holding[v] /\ q \in l.holding[v]
        /\ q \in l.late[v] <=> q \in k.late[v]
        /\ q \in l.eject[v] <=> q \in k.eject[v]
        /\ l.position[v][q] = k.position[v][q] + 1
    BY <1>3, <2>2 DEF Knows
  <2>10. SystemInv(l, {})'
    BY <1>1, <1>3, <2>1, <2>2, <2>5, <2>7, <2>8, <2>9, SystemExecute
  <2>11. k.executed[q] = e.ctx.pc /\ k.position[v][q] = e.ctx.pc
    BY <1>3, <1>5, <2>2 DEF Knows
  <2>12. l.executed[q] <= ProgramLength /\ l.position[v][q] = l.executed[q]
    BY <2>3, <2>4, <2>7, <2>9, <2>11
  <2>13. \A w \in Workers : w # v => q \notin k.holding[w]
    <3>1. QueryAssigned(q, k)
      BY <2>2 DEF SystemInv, Assigned
    <3> QED
      BY <2>9, <3>1 DEF QueryAssigned, Involved
  <2>14. Counted(l)
    BY <2>2, <2>8, <2>12, <2>13, CountedKept
  <2> QED
    BY <1>4, <2>2, <2>10, <2>14 DEF Kept
<1>8. CASE Ending(s, e, t, f) /\ Says(v, <<EndPackage(e.ctx.q)>>) /\ UNCHANGED executed
  <2> DEFINE q == e.ctx.q
  <2>1. PICK p : p = <<EndPackage(q)>>
    OBVIOUS
  <2>2. /\ Steady(t, f) /\ \A x \in Queries : x # q => Forgets(x, s, e, t, f)
        /\ q \in Queries /\ q \in Held(s, e) /\ q \notin Held(t, f) /\ q \in Late(f)
        /\ q \in Asked(t, f) => q \in Asked(s, e)
    BY <1>2, <1>8, EndingKnows
  <2>3. Says(v, p)
    BY <1>8, <2>1
  <2> HIDE DEF q
  <2>4. /\ p \in Seq(WorkerPackages) /\ Farewell(p, q, k.position[v][q])
        /\ Has(p, "END", q) /\ ~Has(p, "EVICTED", q)
        /\ \A i \in DOMAIN p : p[i].op = "END" /\ p[i].q = q
    BY <2>1, <2>2, EndAlone
  <2>5. l.executed = k.executed
    BY <1>3, <1>8 DEF Knows
  <2>6. OnlyFades(v, q, k, l)
    <3>1. \A w \in Workers, x \in Queries : w # v \/ x # q => Fades(w, x, k, l)
      BY <1>3, <2>2, KnowsFades
    <3> QED
      BY <2>5, <3>1 DEF OnlyFades
  <2>7. /\ q \in k.holding[v] /\ q \notin l.holding[v] /\ q \in l.late[v]
        /\ q \in l.eject[v] => q \in k.eject[v]
    BY <1>3, <2>2 DEF Knows
  <2>8. /\ Once(p, "END", q) /\ EvictedLast(p, q)
        /\ \A i \in DOMAIN p : p[i].op \in {"END", "ERROR", "EVICTED"} /\ p[i].q = q
        /\ \A i \in DOMAIN p : p[i].op # "ERROR"
    BY <2>4 DEF Farewell
  <2>9. SystemInv(l, {})'
    BY <1>1, <1>3, <2>2, <2>3, <2>4, <2>5, <2>6, <2>7, <2>8, SystemFarewell
  <2>10. Counted(l)
    <3>1. l.executed[q] <= ProgramLength
      BY <2>2, <2>5 DEF Counted
    <3> QED
      BY <2>2, <2>5, <2>6, <2>7, <3>1, CountedKept
  <2> QED
    BY <1>4, <2>2, <2>9, <2>10 DEF Kept
<1>9. CASE /\ Leaving(s, e, t, f)
           /\ \E r \in FlushReports(v, e.ctx.q) :
                 Says(v, r \o <<EvictedPackage(e.ctx.q, ResumeAt(e))>>)
           /\ UNCHANGED executed
  <2> DEFINE q == e.ctx.q
             pc == ResumeAt(e)
  <2>1. PICK r \in FlushReports(v, q) : Says(v, r \o <<EvictedPackage(q, pc)>>)
    BY <1>9
  <2>2. /\ Steady(t, f) /\ \A x \in Queries : Forgets(x, s, e, t, f)
        /\ q \in Queries /\ q \in Held(s, e) \cup Late(e) /\ q \in Asked(s, e)
        /\ q \notin Held(t, f) /\ q \notin Late(f) /\ q \notin Asked(t, f)
        /\ q \in Held(s, e) => Place(s, e) = pc
    BY <1>2, <1>9, LeavingKnows
  <2>3. pc \in ProgramCounters
    BY <1>2, <1>9, Fields, WireAssumption DEF Leaving, ResumeAt, Fit, ProgramCounters
  <2> HIDE DEF q, pc
  <2>4. q \in running_list => qcb[q].pending /\ ~Has(toWorker'[v], "PREEMPT", q)
    <3>1. PairInv(v, q, k) /\ q \in k.eject[v]
      BY <1>3, <2>2 DEF SystemInv, Assigned, QueryAssigned, Knows
    <3> QED
      BY <1>1, <3>1 DEF PairInv, RunningAt
  <2>5. Kept(l)
    BY <1>1, <1>3, <1>9, <2>1, <2>2, <2>3, <2>4, AnswerKept
  <2> QED
    BY <1>4, <2>2, <2>5
<1>10. ~(Failing(s, e, t, f) /\ (v \in Fallible \/ e.ctx.pc > ProgramLength))
  <2>1. e.ctx.pc \in Nat /\ ProgramLength \in Nat
    BY <1>2, Fields, WireAssumption DEF ProgramCounters
  <2> QED
    BY <1>2, <2>1 DEF Failing, Steady
<1>11. ~(Finishing(s, e, t, f) /\ e.result = "ERROR")
  BY <1>2 DEF Finishing, Steady
<1> QED
  BY <1>1, <1>6, <1>7, <1>8, <1>9, <1>10, <1>11 DEF Speaking

\* A step of a Worker leaves the others steady.
LEMMA OthersSteady ==
    ASSUME TypeOK, ThreadsFit, NEW v \in Workers, WorkerProcess(v), NEW w \in Workers, w # v
    PROVE  state'[w] = state[w] /\ executor'[w] = executor[w]
<1>1. state \in [Workers -> States] /\ executor \in [Workers -> Threads]
  BY Before
<1>2. CASE Handshake(v) \/ Disconnect(v)
  BY <1>2 DEF Handshake, Disconnect
<1>3. ASSUME NEW s, NEW e, NEW t, NEW f, Section(v, s, e, t, f)
      PROVE  state'[w] = state[w] /\ executor'[w] = executor[w]
  BY <1>1, <1>3 DEF Section
<1>4. CASE assign_query(v)
  BY <1>3, <1>4, AssignSection
<1>5. CASE eject_query(v)
  BY <1>3, <1>5, RequestSection
<1>6. CASE Executor(v)
  BY <1>3, <1>6, ExecutorSection
<1> QED
  BY <1>2, <1>4, <1>5, <1>6 DEF WorkerProcess, Listener

\* Every step keeps the invariants.
LEMMA ClusterKept ==
    ASSUME Fallible = {}, ClusterInv, [Next]_vars
    PROVE  /\ \A w \in Workers : Steady(state'[w], executor'[w])
           /\ \A l : l = Known' => Kept(l)
<1>0. PICK k : k = Known
  OBVIOUS
<1>1. /\ TypeOK /\ ThreadsFit /\ \A w \in Workers : Steady(state[w], executor[w])
      /\ SystemInv(k, {}) /\ Counted(k)
  BY <1>0 DEF ClusterInv
<1>2. ASSUME UNCHANGED <<state, executor, executed>>
      PROVE  /\ \A w \in Workers : Steady(state'[w], executor'[w])
             /\ \A l : l = Known' => l = k
  BY <1>0, <1>1, <1>2 DEF Known
<1>3. ASSUME SystemInv(k, {})', UNCHANGED <<state, executor, executed>>
      PROVE  /\ \A w \in Workers : Steady(state'[w], executor'[w])
             /\ \A l : l = Known' => Kept(l)
  <2>1. Kept(k)
    BY <1>1, <1>3 DEF Kept
  <2> QED
    BY <1>2, <1>3, <2>1
<1>4. CASE MasterNext /\ UNCHANGED workers
  <2>1. SystemInv(k, {})'
    BY <1>1, <1>4, SystemMaster DEF workers
  <2> QED
    BY <1>3, <1>4, <2>1 DEF workers
<1>5. CASE UNCHANGED vars
  <2>1. SystemInv(k, {})'
    BY <1>1, <1>5, SystemUnmoved DEF vars, wire, workers
  <2> QED
    BY <1>3, <1>5, <2>1 DEF vars, workers
<1>6. ASSUME NEW q \in Queries, Client(q), UNCHANGED <<master, workers>>
      PROVE  /\ \A w \in Workers : Steady(state'[w], executor'[w])
             /\ \A l : l = Known' => Kept(l)
  <2>1. UNCHANGED <<master, toWorker, fromWorker, workerClosed, phase>>
        /\ QueryControl(q) /\ UNCHANGED <<state, executor, executed>>
    BY <1>6 DEF Client, workers, QueryControl, Submit, Leave, Quit, CloseQC
  <2>2. SystemInv(k, {})'
    BY <1>1, <2>1, SystemUnmoved
  <2> QED
    BY <1>3, <2>1, <2>2
<1>7. ASSUME NEW v \in Workers, Handshake(v) \/ Disconnect(v), UNCHANGED master
      PROVE  /\ \A w \in Workers : Steady(state'[w], executor'[w])
             /\ \A l : l = Known' => Kept(l)
  <2>1. /\ Connect(v) \/ Accepted(v) \/ Refused(v) \/ Crash(v)
        /\ UNCHANGED <<state, executor, executed>> /\ LinkTypeOK
    BY <1>1, <1>7 DEF Handshake, Disconnect, TypeOK, WorkerTypeOK
  <2>2. \A w \in Workers, q \in Queries : Fades(w, q, k, k)
    BY SameFades
  <2>3. SystemInv(k, {})'
    BY <1>1, <1>7, <2>1, <2>2, SystemLink
  <2> QED
    BY <1>3, <2>1, <2>3
<1>8. ASSUME NEW v \in Workers, Listener(v) \/ Executor(v), UNCHANGED master
      PROVE  /\ \A w \in Workers : Steady(state'[w], executor'[w])
             /\ \A l : l = Known' => Kept(l)
  <2>1. ASSUME NEW l, l = Known' PROVE Kept(l) /\ Steady(state'[v], executor'[v])
    <3>1. CASE assign_query(v)
      BY <1>0, <1>1, <1>8, <2>1, <3>1, AssignKept
    <3>2. CASE eject_query(v)
      BY <1>0, <1>1, <1>8, <2>1, <3>2, RequestKept
    <3>3. CASE Executor(v)
      BY <1>0, <1>1, <1>8, <2>1, <3>3, ExecutorKept
    <3> QED
      BY <1>8, <3>1, <3>2, <3>3 DEF Listener
  <2>2. Steady(state'[v], executor'[v])
    BY <2>1
  <2>3. ASSUME NEW w \in Workers PROVE Steady(state'[w], executor'[w])
    <3>1. CASE w # v
      <4>1. state'[w] = state[w] /\ executor'[w] = executor[w]
        BY <1>1, <1>8, <3>1, OthersSteady DEF WorkerProcess
      <4> QED
        BY <1>1, <4>1
    <3> QED
      BY <2>2, <3>1
  <2> QED
    BY <2>1, <2>3
<1> QED
  BY <1>4, <1>5, <1>6, <1>7, <1>8 DEF Next, WorkerProcess

\* The invariant of the Master and Workers that never fail.
LEMMA ClusterInvariant ==
    ASSUME Fallible = {}
    PROVE  Spec => []ClusterInv
<1>1. Init => ClusterInv
  <2> SUFFICES ASSUME Init PROVE ClusterInv
    OBVIOUS
  <2>1. TypeOK /\ ThreadsFit /\ WireInit /\ MasterInit /\ LinkInit
    BY InitTyped DEF Init, WorkerInit
  <2>2. ASSUME NEW w \in Workers
        PROVE  /\ Steady(state[w], executor[w]) /\ Held(state[w], executor[w]) = {}
               /\ Late(executor[w]) = {} /\ Asked(state[w], executor[w]) = {}
    <3>1. executor[w].at = "fetch" /\ ~state[w].has_query
      BY DEF Init, WorkerInit
    <3> QED
      BY <3>1 DEF Steady, Held, Late, Asked, Active, Ended, Claimed
  <2>3. ASSUME NEW k, k = Known PROVE SystemInv(k, {}) /\ Counted(k)
    <3>1. /\ \A w \in Workers : k.holding[w] = {} /\ k.late[w] = {} /\ k.eject[w] = {}
          /\ \A q \in Queries : k.executed[q] = 0
      BY <2>2, <2>3 DEF Known, Init, WorkerInit
    <3>2. SystemInv(k, {})
      BY <2>1, <3>1, SystemInit
    <3>3. Counted(k)
      BY <3>1, WireAssumption DEF Counted
    <3> QED
      BY <3>2, <3>3
  <2> QED
    BY <2>1, <2>2, <2>3 DEF ClusterInv
<1>2. ClusterInv /\ [Next]_vars => ClusterInv'
  <2> SUFFICES ASSUME ClusterInv, [Next]_vars PROVE ClusterInv'
    OBVIOUS
  <2>1. TypeOK' /\ ThreadsFit'
    BY StepTyped DEF ClusterInv
  <2>2. /\ \A w \in Workers : Steady(state'[w], executor'[w])
        /\ \A l : l = Known' => SystemInv(l, {})' /\ Counted(l)
    BY ClusterKept DEF Kept
  <2> QED
    BY <2>1, <2>2 DEF ClusterInv
<1> QED
  BY <1>1, <1>2, PTL DEF Spec

\* What a theorem takes from it.
LEMMA ClusterSystem ==
    ASSUME ClusterInv
    PROVE  \E k : k = Known /\ SystemInv(k, {}) /\ Counted(k)
BY DEF ClusterInv

-----------------------------------------------------------------------------
(* What is executed.                                                       *)

\* The query of an executor that is at work is held by its Worker.
LEMMA AtWork ==
    ASSUME ClusterInv, NEW w \in Workers, executor[w].at \in {"check", "execute", "commit"},
           NEW k, k = Known
    PROVE  LET q == executor[w].ctx.q IN
           /\ q \in Queries /\ q \in k.holding[w]
           /\ executor[w].at = "execute" => k.position[w][q] = executor[w].ctx.pc
<1>1. executor[w].ctx.q \in Queries
  BY DEF ClusterInv, ThreadsFit, Fit
<1>2. /\ k.holding[w] = Held(state[w], executor[w])
      /\ \A q \in Queries : k.position[w][q] = Place(state[w], executor[w])
  BY DEF Known
<1> QED
  BY <1>1, <1>2 DEF Held, Place, Active

\* Where no instruction fails, each instruction a Worker executes is the
\* first of its query that nobody has executed, whatever evictions, Worker
\* crashes and departures of Query Controls come between and however the two
\* threads of each Worker interleave.
THEOREM ExecutesInOrderCorrect ==
    ASSUME Fallible = {}
    PROVE  Spec => []ExecutesInOrder
<1>1. ASSUME ClusterInv PROVE ExecutesInOrder
  <2> SUFFICES ASSUME NEW w \in Workers, executor[w].at = "execute"
               PROVE  executor[w].ctx.pc = executed[executor[w].ctx.q]
    BY DEF ExecutesInOrder
  <2>1. PICK k : k = Known /\ Counted(k)
    BY <1>1, ClusterSystem
  <2>2. k.executed = executed
    BY <2>1 DEF Known
  <2> QED
    BY <1>1, <2>1, <2>2, AtWork DEF Counted
<1> QED
  BY <1>1, ClusterInvariant, PTL

\* Where no instruction fails, a query that waits is executed by no Worker
\* and a running one by its own only: no late package, and no race between the
\* listener and the executor, lets two Workers run the same query.
THEOREM ExecutesOnceCorrect ==
    ASSUME Fallible = {}
    PROVE  Spec => []ExecutesOnce
<1>1. ASSUME ClusterInv PROVE ExecutesOnce
  <2> SUFFICES ASSUME NEW w \in Workers, NEW q \in Queries,
                      executor[w].at \in {"check", "execute", "commit"}, executor[w].ctx.q = q
               PROVE  /\ qcb[q].state # "READY"
                      /\ q \in running_list => qcb[q].worker = w
    BY DEF ExecutesOnce
  <2>1. PICK k : k = Known /\ SystemInv(k, {})
    BY <1>1, ClusterSystem
  <2>2. Involved(w, q, k)
    BY <1>1, <2>1, AtWork DEF Involved
  <2>3. PairInv(w, q, k)
    BY <2>1 DEF SystemInv, Assigned, QueryAssigned
  <2> QED
    BY <2>2, <2>3 DEF PairInv, RunningAt
<1> QED
  BY <1>1, ClusterInvariant, PTL

\* Where no instruction fails, the Master keeps for a waiting query the
\* number of instructions executed, so that it resumes after the last one.
THEOREM ClusterPcPreservedCorrect ==
    ASSUME Fallible = {}
    PROVE  Spec => []PcPreserved
<1>1. ClusterInv => PcPreserved
  BY ClusterSystem DEF Known, SystemInv, Assigned, QueryAssigned, PcPreserved, Agree
<1> QED
  BY <1>1, ClusterInvariant, PTL
=============================================================================
