----------------------------- MODULE MasterLocks -----------------------------
(***************************************************************************)
(* The order in which the Master's threads take its two mutexes.  The      *)
(* module Master takes each critical section as one step; here a section   *)
(* is only the mutexes it locks, one at a time, in the order of the code.  *)
(* Every section unlocks them in the opposite order.                       *)
(***************************************************************************)
EXTENDS Integers, Sequences

CONSTANTS
    QueryThreads,  \* handle_client threads of Query Controls
    WorkerThreads, \* handle_client threads of Workers
    AgingThreads,  \* aging_thread_func: one under PRIORITY, none under FIFO
    Cancellers     \* Query Controls that may disconnect while their query runs

ASSUME MasterLocksAssumption == Cancellers \subseteq QueryThreads

VARIABLES
    section,   \* the mutexes of the critical section a thread is in
    locked,    \* how many of them it holds
    releasing  \* its work is done: it is unlocking

vars == <<section, locked, releasing>>

Threads == QueryThreads \cup WorkerThreads \cup AgingThreads

\* worker_table_mutex and query_table_mutex.
Mutexes == {"workers", "queries"}

-----------------------------------------------------------------------------
(* The critical sections.                                                  *)

\* try_dispatch, manage_worker_evict_response, manage_worker_end_query and
\* handle_error_from_storage.
BothTables == <<"workers", "queries">>
create_query == <<"queries">>
create_worker == <<"workers">>
\* handle_query_control_disconnection of a query that does not run, and of a
\* running one.
cancel_query_in_ready == <<"queries">>
cancel_query_in_exec == <<"queries", "workers">>
\* handle_worker_disconnection of an idle Worker, and of a busy one.
disconnect_idle == <<"workers">>
disconnect_busy == <<"workers", "queries">>
\* The two critical sections of aging_thread_func.
age_ready_queue == <<"queries">>

\* Mutant: the two mutexes in the other order.
check_preemption_inverted == <<"queries", "workers">>
check_preemption == <<"workers", "queries">>

\* The sections a thread may enter.
Sections(t) ==
    UNION {IF t \in QueryThreads
           THEN {create_query, BothTables, cancel_query_in_ready} ELSE {},
           IF t \in Cancellers THEN {cancel_query_in_exec} ELSE {},
           IF t \in WorkerThreads
           THEN {create_worker, BothTables, disconnect_idle, disconnect_busy} ELSE {},
           IF t \in AgingThreads THEN {age_ready_queue, check_preemption} ELSE {}}

-----------------------------------------------------------------------------
Held(t) == {section[t][i] : i \in 1..locked[t]}
Free(m) == \A t \in Threads : m \notin Held(t)

\* Every thread holds a prefix of the mutexes of its section.
TypeOK ==
    /\ section \in [Threads -> {<<>>} \cup UNION {Sections(t) : t \in Threads}]
    /\ locked \in [Threads -> 0..2]
    /\ releasing \in [Threads -> BOOLEAN]
    /\ \A t \in Threads : locked[t] <= Len(section[t])

Init ==
    /\ section = [t \in Threads |-> <<>>]
    /\ locked = [t \in Threads |-> 0]
    /\ releasing = [t \in Threads |-> FALSE]

Enter(t) ==
    /\ section[t] = <<>>
    /\ \E s \in Sections(t) : section' = [section EXCEPT ![t] = s]
    /\ UNCHANGED <<locked, releasing>>

Wants(t) == section[t][locked[t] + 1]
Acquiring(t) == locked[t] < Len(section[t]) /\ ~releasing[t]

\* pthread_mutex_lock.
Lock(t) ==
    /\ Acquiring(t)
    /\ Free(Wants(t))
    /\ locked' = [locked EXCEPT ![t] = @ + 1]
    /\ UNCHANGED <<section, releasing>>

\* Mutant: the section ends with a mutex still held.
UnlockOne(t) ==
    /\ locked[t] > 0
    /\ locked[t] = Len(section[t])
    /\ locked' = [locked EXCEPT ![t] = @ - 1]
    /\ section' = [section EXCEPT ![t] = <<>>]
    /\ UNCHANGED releasing

\* pthread_mutex_unlock.
Unlock(t) ==
    /\ locked[t] > 0
    /\ releasing[t] \/ locked[t] = Len(section[t])
    /\ locked' = [locked EXCEPT ![t] = @ - 1]
    /\ releasing' = [releasing EXCEPT ![t] = locked[t] > 1]
    /\ section' = [section EXCEPT ![t] = IF locked[t] = 1 THEN <<>> ELSE @]

Next == \E t \in Threads : Enter(t) \/ Lock(t) \/ Unlock(t)

Spec == Init /\ [][Next]_vars

-----------------------------------------------------------------------------
Waits(t, u) == Acquiring(t) /\ Wants(t) \in Held(u)

\* No two threads wait for each other's mutex: every section takes the
\* worker table before the query table.
NoCircularWait ==
    \A t, u \in Threads : ~(Waits(t, u) /\ Waits(u, t))
=============================================================================
