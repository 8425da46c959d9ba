----------------------------- MODULE LockProofs -----------------------------
(***************************************************************************)
(* The Master's mutexes, for any number of threads: as long as no Query    *)
(* Control leaves while its query runs, the threads never wait for each    *)
(* other in a circle.                                                      *)
(***************************************************************************)
EXTENDS MasterLocks, TLAPS

\* What a thread is in: nothing, or a section that takes the worker table
\* before the query table.
Ordered == {<<>>, <<"queries">>, <<"workers">>, <<"workers", "queries">>}

\* The inductive invariant.
LockInv ==
    /\ section \in [Threads -> Ordered]
    /\ locked \in [Threads -> 0..2]
    /\ releasing \in [Threads -> BOOLEAN]
    /\ \A t \in Threads : locked[t] <= Len(section[t])

\* Without Cancellers every section a thread may enter is ordered.
LEMMA SectionsOrdered ==
    ASSUME Cancellers = {}, NEW t \in Threads
    PROVE  Sections(t) \subseteq Ordered
BY DEF Sections, Ordered, BothTables, create_query, create_worker,
       cancel_query_in_ready, disconnect_idle, disconnect_busy,
       age_ready_queue, check_preemption

\* At the start no thread is in a section.
LEMMA LockInvInit == Init => LockInv
<1> SUFFICES ASSUME Init PROVE LockInv
  OBVIOUS
<1>1. \A t \in Threads : locked[t] = 0 /\ Len(section[t]) = 0
  BY DEF Init
<1> QED
  BY <1>1 DEF Init, LockInv, Ordered

\* Every section a thread enters is ordered, and mutexes are taken one after
\* the other.
LEMMA LockInvStep ==
    ASSUME Cancellers = {}, LockInv, [Next]_vars
    PROVE  LockInv'
<1>0. \A s \in Ordered : Len(s) \in 0..2
  BY DEF Ordered
<1>1. ASSUME NEW t \in Threads, Enter(t) PROVE LockInv'
  <2>1. PICK s \in Sections(t) : section' = [section EXCEPT ![t] = s]
    BY <1>1 DEF Enter
  <2>2. s \in Ordered
    BY <2>1, SectionsOrdered
  <2>3. locked[t] = 0
    BY <1>1 DEF Enter, LockInv
  <2> QED
    BY <1>0, <1>1, <2>1, <2>2, <2>3 DEF Enter, LockInv
<1>2. ASSUME NEW t \in Threads, Lock(t) PROVE LockInv'
  <2>1. locked[t] \in 0..2 /\ Len(section[t]) \in 0..2 /\ locked[t] < Len(section[t])
    BY <1>0, <1>2 DEF Lock, Acquiring, LockInv
  <2>2. locked' \in [Threads -> 0..2] /\ UNCHANGED <<section, releasing>>
    <3>0. \A i, n \in 0..2 : i < n => i + 1 \in 0..2
      OBVIOUS
    <3>1. locked[t] + 1 \in 0..2
      BY <2>1, <3>0
    <3> QED
      BY <1>2, <3>1 DEF Lock, LockInv
  <2>3. \A u \in Threads : locked'[u] <= Len(section'[u])
    BY <1>2, <2>1 DEF Lock, LockInv
  <2> QED
    BY <2>2, <2>3 DEF LockInv
<1>3. ASSUME NEW t \in Threads, Unlock(t) PROVE LockInv'
  <2>1. section' \in [Threads -> Ordered]
    BY <1>3 DEF Unlock, LockInv, Ordered
  <2>2. locked' \in [Threads -> 0..2] /\ releasing' \in [Threads -> BOOLEAN]
    BY <1>3 DEF Unlock, LockInv
  <2>3. ASSUME NEW u \in Threads PROVE locked'[u] <= Len(section'[u])
    <3>1. CASE u # t
      BY <1>3, <3>1 DEF Unlock, LockInv
    <3>2. CASE u = t /\ locked[t] = 1
      BY <1>3, <3>2 DEF Unlock, LockInv
    <3>3. CASE u = t /\ locked[t] # 1
      BY <1>0, <1>3, <3>3 DEF Unlock, LockInv
    <3> QED
      BY <3>1, <3>2, <3>3
  <2> QED
    BY <2>1, <2>2, <2>3 DEF LockInv
<1>4. CASE UNCHANGED vars
  BY <1>4 DEF vars, LockInv
<1> QED
  BY <1>1, <1>2, <1>3, <1>4 DEF Next

\* A thread that holds a mutex and wants another holds the worker table and
\* wants the query table.
LEMMA WaitingHolder ==
    ASSUME LockInv, NEW t \in Threads, Acquiring(t), NEW m \in Held(t)
    PROVE  m = "workers" /\ Wants(t) = "queries"
<1>1. section[t] \in Ordered /\ locked[t] \in 0..2 /\ locked[t] < Len(section[t])
  BY DEF LockInv, Acquiring
<1>2. PICK i \in 1..locked[t] : m = section[t][i]
  BY DEF Held
<1>3. locked[t] >= 1
  BY <1>1, <1>2
<1>4. section[t] = <<"workers", "queries">> /\ locked[t] = 1
  <2>1. ASSUME NEW n \in 0..1, Len(section[t]) = n PROVE FALSE
    BY <1>1, <1>3, <2>1
  <2>2. section[t] # <<>> /\ section[t] # <<"queries">> /\ section[t] # <<"workers">>
    <3>1. Len(<<>>) = 0 /\ Len(<<"queries">>) = 1 /\ Len(<<"workers">>) = 1
      OBVIOUS
    <3>2. section[t] # <<>>
      BY <2>1, <3>1
    <3>3. ASSUME section[t] = <<"queries">> PROVE FALSE
      <4>1. Len(section[t]) = 1
        BY <3>1, <3>3
      <4> QED
        BY <2>1, <4>1
    <3>4. ASSUME section[t] = <<"workers">> PROVE FALSE
      <4>1. Len(section[t]) = 1
        BY <3>1, <3>4
      <4> QED
        BY <2>1, <4>1
    <3> QED
      BY <3>2, <3>3, <3>4
  <2>3. section[t] = <<"workers", "queries">>
    BY <1>1, <2>2 DEF Ordered
  <2>4. Len(<<"workers", "queries">>) = 2
    OBVIOUS
  <2>5. \A n \in 0..2 : n >= 1 /\ n < 2 => n = 1
    OBVIOUS
  <2> QED
    BY <1>1, <1>3, <2>3, <2>4, <2>5
<1> QED
  BY <1>2, <1>4 DEF Wants

\* Of two threads in a circle, one would hold the query table and want the
\* worker table.
LEMMA NoCircle ==
    ASSUME LockInv PROVE NoCircularWait
<1> SUFFICES ASSUME NEW t \in Threads, NEW u \in Threads, Waits(t, u), Waits(u, t)
             PROVE  FALSE
  BY DEF NoCircularWait
<1>1. Acquiring(t) /\ Acquiring(u) /\ Wants(t) \in Held(u) /\ Wants(u) \in Held(t)
  BY DEF Waits
<1>2. Wants(t) = "workers" /\ Wants(u) = "queries"
  BY <1>1, WaitingHolder
<1>3. Wants(u) = "workers"
  BY <1>1, WaitingHolder
<1> QED
  BY <1>2, <1>3

\* The Master's threads, however many, never wait for each other's mutex in
\* a circle, unless handle_query_control_disconnection meets a running query.
THEOREM NoCircularWaitCorrect ==
    ASSUME Cancellers = {}
    PROVE  Spec => []NoCircularWait
<1>1. Init => LockInv
  BY LockInvInit
<1>2. LockInv /\ [Next]_vars => LockInv'
  BY LockInvStep
<1>3. LockInv => NoCircularWait
  BY NoCircle
<1> QED
  BY <1>1, <1>2, <1>3, PTL DEF Spec

-----------------------------------------------------------------------------
(* Types, whoever leaves when.                                             *)

\* What a section may be.
AllSections == UNION {Sections(t) : t \in Threads}

\* A section locks one mutex or two.
LEMMA SectionLength == \A s \in {<<>>} \cup AllSections : Len(s) \in 0..2
BY DEF AllSections, Sections, BothTables, create_query, create_worker, cancel_query_in_ready,
       cancel_query_in_exec, disconnect_idle, disconnect_busy, age_ready_queue,
       check_preemption

\* A step of a thread keeps the types.
LEMMA LockTypeStep ==
    ASSUME TypeOK, [Next]_vars
    PROVE  TypeOK'
<1>1. /\ section \in [Threads -> {<<>>} \cup AllSections]
      /\ locked \in [Threads -> 0..2]
      /\ releasing \in [Threads -> BOOLEAN]
      /\ \A t \in Threads : locked[t] <= Len(section[t]) /\ Len(section[t]) \in 0..2
  BY SectionLength DEF TypeOK, AllSections
<1>2. SUFFICES /\ section' \in [Threads -> {<<>>} \cup AllSections]
               /\ locked' \in [Threads -> 0..2]
               /\ releasing' \in [Threads -> BOOLEAN]
               /\ \A t \in Threads : locked'[t] <= Len(section'[t])
  BY DEF TypeOK, AllSections
<1>3. ASSUME NEW t \in Threads, Enter(t) PROVE <1>2!1
  <2>1. PICK s \in AllSections : section' = [section EXCEPT ![t] = s]
    BY <1>3 DEF Enter, AllSections
  <2>2. locked[t] = 0 /\ UNCHANGED <<locked, releasing>>
    <3>1. section[t] = <<>> /\ Len(<<>>) = 0
      BY <1>3 DEF Enter
    <3>2. locked[t] \in 0..2 /\ locked[t] <= 0
      BY <1>1, <3>1
    <3> QED
      BY <1>3, <3>2 DEF Enter
  <2>3. Len(s) \in 0..2
    BY SectionLength
  <2> QED
    BY <1>1, <2>1, <2>2, <2>3
<1>4. ASSUME NEW t \in Threads, Lock(t) PROVE <1>2!1
  <2>1. locked[t] \in 0..2 /\ Len(section[t]) \in 0..2 /\ locked[t] < Len(section[t])
    BY <1>1, <1>4 DEF Lock, Acquiring
  <2>2. locked[t] + 1 \in 0..2 /\ locked[t] + 1 <= Len(section[t])
    <3>1. \A i, n \in 0..2 : i < n => i + 1 \in 0..2 /\ i + 1 <= n
      OBVIOUS
    <3> QED
      BY <2>1, <3>1
  <2>3. locked' = [locked EXCEPT ![t] = locked[t] + 1] /\ UNCHANGED <<section, releasing>>
    BY <1>4 DEF Lock
  <2> QED
    BY <1>1, <2>2, <2>3
<1>5. ASSUME NEW t \in Threads, Unlock(t) PROVE <1>2!1
  <2>1. section' \in [Threads -> {<<>>} \cup AllSections]
    BY <1>1, <1>5 DEF Unlock
  <2>2. locked' \in [Threads -> 0..2] /\ releasing' \in [Threads -> BOOLEAN]
    BY <1>1, <1>5 DEF Unlock
  <2>3. ASSUME NEW u \in Threads PROVE locked'[u] <= Len(section'[u])
    <3>1. CASE u # t
      BY <1>1, <1>5, <3>1 DEF Unlock
    <3>2. CASE u = t /\ locked[t] = 1
      BY <1>1, <1>5, <3>2 DEF Unlock
    <3>3. CASE u = t /\ locked[t] # 1
      BY <1>1, <1>5, <3>3 DEF Unlock
    <3> QED
      BY <3>1, <3>2, <3>3
  <2> QED
    BY <2>1, <2>2, <2>3
<1>6. CASE UNCHANGED vars
  BY <1>1, <1>6 DEF vars
<1> QED
  BY <1>3, <1>4, <1>5, <1>6 DEF Next

\* Every thread holds a prefix of the mutexes of a section that some thread may
\* enter, also when Query Controls leave while their queries run.
THEOREM LockTypeCorrect == Spec => []TypeOK
<1>1. Init => TypeOK
  <2> SUFFICES ASSUME Init PROVE TypeOK
    OBVIOUS
  <2>1. \A t \in Threads : locked[t] = 0 /\ Len(section[t]) = 0
    BY DEF Init
  <2> QED
    BY <2>1 DEF Init, TypeOK
<1>2. TypeOK /\ [Next]_vars => TypeOK'
  BY LockTypeStep
<1> QED
  BY <1>1, <1>2, PTL DEF Spec
=============================================================================
