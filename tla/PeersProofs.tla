---------------------------- MODULE PeersProofs ----------------------------
(***************************************************************************)
(* Proofs about the Master with the peers of Peers: the types, the query   *)
(* table and what a Query Control hears of the end of its query, the order *)
(* of the ready queue, which Worker executes a query and from where, the   *)
(* worker table, and that the worker of a running query is registered.     *)
(* What the Master does in each step is in MasterProofs; here the Workers  *)
(* of Peers are shown to take the steps those lemmas are about.            *)
(***************************************************************************)
EXTENDS Peers, MasterProofs

-----------------------------------------------------------------------------
(* What a Worker says.                                                     *)

\* What a Worker sends when it gives a query up: its errors, then one package.
LEMMA RefusalsThen ==
    ASSUME NEW q \in Queries, NEW n \in Nat, NEW m \in WorkerPackages
    PROVE  LET p == Refusals(q, n) \o <<m>>
           IN  /\ p \in Seq(WorkerPackages) /\ Len(p) = n + 1 /\ DOMAIN p = 1..n + 1
               /\ p[n + 1] = m
               /\ \A i \in 1..n : p[i] = ErrorPackage(q)
<1>1. ErrorPackage(q) \in WorkerPackages
  BY DEF ErrorPackage, WorkerPackages
<1>2. /\ Refusals(q, n) \in Seq(WorkerPackages) /\ Len(Refusals(q, n)) = n
      /\ \A i \in 1..n : Refusals(q, n)[i] = ErrorPackage(q)
  <2>1. [i \in 1..n |-> ErrorPackage(q)] \in [1..n -> WorkerPackages]
    BY <1>1
  <2>2. Refusals(q, n) \in Seq(WorkerPackages)
    BY <2>1, SeqDef DEF Refusals
  <2> QED
    BY <2>2, LenProperties DEF Refusals
<1>3. <<m>> \in Seq(WorkerPackages) /\ Len(<<m>>) = 1 /\ <<m>>[1] = m
  OBVIOUS
<1> HIDE DEF Refusals
<1> DEFINE p == Refusals(q, n) \o <<m>>
<1>4. /\ p \in Seq(WorkerPackages) /\ Len(p) = n + 1
      /\ \A i \in 1..n + 1 :
            p[i] = IF i <= n THEN Refusals(q, n)[i] ELSE <<m>>[i - n]
  BY <1>2, <1>3, ConcatProperties
<1>5. DOMAIN p = 1..n + 1
  BY <1>4, LenProperties
<1> HIDE DEF p
<1>6. p[n + 1] = m
  <2>1. n + 1 \in 1..n + 1 /\ ~(n + 1 <= n) /\ n + 1 - n = 1
    OBVIOUS
  <2> QED
    BY <1>3, <1>4, <2>1
<1>7. \A i \in 1..n : p[i] = ErrorPackage(q)
  BY <1>2, <1>4
<1> QED
  BY <1>4, <1>5, <1>6, <1>7 DEF p

\* An eviction response answers a request, and only Workers whose
\* instructions may fail report errors.
LeavesWith(w, q, p) ==
    /\ Farewell(p, q, position[w][q])
    /\ Has(p, "EVICTED", q) => q \in eject[w]
    /\ w \in Fallible \/ \A i \in DOMAIN p : p[i].op # "ERROR"

\* Each way a Worker gives up a query says farewell to it.
LEMMA GivesUp ==
    ASSUME TypeOK, NEW w \in Workers, NEW q \in Queries,
           Finish(w, q) \/ Fail(w, q) \/ Evict(w, q)
    PROVE  \E p \in Seq(WorkerPackages) : GiveUp(w, q, p) /\ LeavesWith(w, q, p)
<1>0. /\ EndPackage(q) \in WorkerPackages
      /\ EndPackage(q).op = "END" /\ EndPackage(q).q = q
      /\ ErrorPackage(q).op = "ERROR" /\ ErrorPackage(q).q = q
  BY DEF EndPackage, ErrorPackage, WorkerPackages
<1>1. ASSUME NEW pc \in ProgramCounters
      PROVE  /\ EvictedPackage(q, pc) \in WorkerPackages
             /\ EvictedPackage(q, pc).op = "EVICTED" /\ EvictedPackage(q, pc).q = q
             /\ EvictedPackage(q, pc).pc = pc
  BY PackageKinds DEF EvictedPackage
<1>2. position[w][q] \in ProgramCounters /\ ProgramLength + 1 \in ProgramCounters
  BY WireAssumption DEF TypeOK, PeersTypeOK, ProgramCounters
<1>3. CASE Fail(w, q)
  <2>1. PICK n \in 0..2 : GiveUp(w, q, Refusals(q, n) \o <<EndPackage(q)>>)
    BY <1>3 DEF Fail
  <2> DEFINE p == Refusals(q, n) \o <<EndPackage(q)>>
  <2>2. /\ p \in Seq(WorkerPackages) /\ DOMAIN p = 1..n + 1
        /\ p[n + 1] = EndPackage(q)
        /\ \A i \in 1..n : p[i] = ErrorPackage(q)
    BY <1>0, RefusalsThen
  <2> HIDE DEF p
  <2>3. \A i \in DOMAIN p : i = n + 1 \/ (i # n + 1 /\ i \in 1..n)
    BY <2>2
  <2>4. w \in Fallible /\ n + 1 \in DOMAIN p
    BY <1>3, <2>2 DEF Fail
  <2>5. Has(p, "END", q) /\ ~Has(p, "EVICTED", q)
    BY <1>0, <2>2, <2>3, <2>4 DEF Has, Matches
  <2>6. Once(p, "END", q)
    BY <1>0, <2>2, <2>3 DEF Once, Matches
  <2>7. EvictedLast(p, q)
    BY <2>5 DEF Has, EvictedLast
  <2>8. LeavesWith(w, q, p)
    BY <1>0, <2>2, <2>3, <2>4, <2>5, <2>6, <2>7 DEF LeavesWith, Farewell
  <2> QED
    BY <2>1, <2>2, <2>8 DEF p
<1>4. CASE Evict(w, q)
  <2> DEFINE m == EvictedPackage(q, position[w][q])
  <2>1. PICK n \in 0..(IF w \in Fallible THEN 1 ELSE 0) :
           GiveUp(w, q, Refusals(q, n) \o <<m>>)
    BY <1>4 DEF Evict
  <2>2. m \in WorkerPackages /\ m.op = "EVICTED" /\ m.q = q /\ m.pc = position[w][q]
    BY <1>1, <1>2
  <2> HIDE DEF m
  <2> DEFINE p == Refusals(q, n) \o <<m>>
  <2>3. n \in Nat
    OBVIOUS
  <2>4. /\ p \in Seq(WorkerPackages) /\ DOMAIN p = 1..n + 1
        /\ p[n + 1] = m
        /\ \A i \in 1..n : p[i] = ErrorPackage(q)
    BY <2>2, <2>3, RefusalsThen
  <2> HIDE DEF p
  <2>5. \A i \in DOMAIN p : /\ i = n + 1 \/ (i # n + 1 /\ i \in 1..n)
                            /\ i <= n + 1
    BY <2>3, <2>4
  <2>6. q \in eject[w]
    BY <1>4 DEF Evict
  <2>7. ~Has(p, "END", q) /\ Once(p, "END", q)
    BY <1>0, <2>2, <2>4, <2>5 DEF Has, Once, Matches
  <2>8. EvictedLast(p, q)
    BY <1>0, <2>2, <2>4, <2>5 DEF EvictedLast, Matches
  <2>9. PcIs(p, "EVICTED", q, position[w][q])
    BY <1>0, <2>2, <2>4, <2>5 DEF PcIs, Matches, Agree
  <2>10. w \notin Fallible => \A i \in DOMAIN p : p[i].op # "ERROR"
    <3>1. w \notin Fallible => n = 0
      BY <2>1
    <3> QED
      BY <2>2, <2>4, <2>5, <3>1
  <2>11. LeavesWith(w, q, p)
    BY <1>0, <2>2, <2>4, <2>5, <2>6, <2>7, <2>8, <2>9, <2>10 DEF LeavesWith, Farewell
  <2> QED
    BY <2>1, <2>4, <2>11 DEF p
<1>5. CASE Finish(w, q) /\ q \notin eject[w]
  <2> DEFINE p == <<EndPackage(q)>>
  <2>1. p \in Seq(WorkerPackages) /\ DOMAIN p = {1} /\ p[1] = EndPackage(q)
    BY <1>0
  <2>2. GiveUp(w, q, p)
    BY <1>5 DEF Finish
  <2> HIDE DEF p
  <2>3. Has(p, "END", q) /\ ~Has(p, "EVICTED", q) /\ Once(p, "END", q) /\ EvictedLast(p, q)
    BY <1>0, <2>1 DEF Has, Once, EvictedLast, Matches
  <2>4. LeavesWith(w, q, p)
    BY <1>0, <2>1, <2>3 DEF LeavesWith, Farewell
  <2> QED
    BY <2>1, <2>2, <2>4
<1>6. CASE Finish(w, q) /\ q \in eject[w]
  <2> DEFINE m == EvictedPackage(q, ProgramLength + 1)
  <2>1. PICK n \in 0..(IF w \in Fallible THEN 1 ELSE 0) :
           GiveUp(w, q, <<EndPackage(q)>> \o Refusals(q, n) \o <<m>>)
    BY <1>6 DEF Finish
  <2>2. m \in WorkerPackages /\ m.op = "EVICTED" /\ m.q = q
    BY <1>1, <1>2
  <2> HIDE DEF m
  <2> DEFINE r == Refusals(q, n)
             e == <<EndPackage(q)>>
             p == e \o r \o <<m>>
  <2>3. n \in Nat /\ e \in Seq(WorkerPackages) /\ Len(e) = 1 /\ e[1] = EndPackage(q)
    BY <1>0
  <2>4. /\ r \in Seq(WorkerPackages) /\ Len(r) = n
        /\ \A i \in 1..n : r[i] = ErrorPackage(q)
    <3>1. ErrorPackage(q) \in WorkerPackages
      BY DEF ErrorPackage, WorkerPackages
    <3>2. [i \in 1..n |-> ErrorPackage(q)] \in [1..n -> WorkerPackages]
      BY <3>1
    <3>3. r \in Seq(WorkerPackages)
      BY <2>3, <3>2, SeqDef DEF Refusals
    <3> QED
      BY <2>3, <3>3, LenProperties DEF Refusals
  <2> HIDE DEF r, e
  <2>5. /\ e \o r \in Seq(WorkerPackages) /\ Len(e \o r) = n + 1
        /\ \A i \in 1..n + 1 : (e \o r)[i] = IF i <= 1 THEN e[i] ELSE r[i - 1]
    <3>1. /\ e \o r \in Seq(WorkerPackages) /\ Len(e \o r) = Len(e) + Len(r)
          /\ \A i \in 1..Len(e) + Len(r) :
                (e \o r)[i] = IF i <= Len(e) THEN e[i] ELSE r[i - Len(e)]
      BY <2>3, <2>4, ConcatProperties
    <3>2. Len(e) + Len(r) = n + 1
      BY <2>3, <2>4
    <3> QED
      BY <2>3, <3>1, <3>2
  <2>6. <<m>> \in Seq(WorkerPackages) /\ Len(<<m>>) = 1 /\ <<m>>[1] = m
    BY <2>2
  <2>7. /\ p \in Seq(WorkerPackages) /\ Len(p) = n + 2
        /\ \A i \in 1..n + 2 :
              p[i] = IF i <= n + 1 THEN (e \o r)[i] ELSE <<m>>[i - (n + 1)]
    BY <2>3, <2>5, <2>6, ConcatProperties
  <2>8. DOMAIN p = 1..n + 2
    BY <2>7, LenProperties
  <2> HIDE DEF p
  <2>9. /\ p[1] = EndPackage(q) /\ p[n + 2] = m
        /\ \A i \in 2..n + 1 : p[i] = ErrorPackage(q)
    <3>1. p[1] = EndPackage(q)
      <4>1. 1 \in 1..n + 1 /\ 1 \in 1..n + 2 /\ 1 <= n + 1
        BY <2>3
      <4> QED
        BY <2>3, <2>5, <2>7, <4>1
    <3>2. p[n + 2] = m
      <4>1. n + 2 \in 1..n + 2 /\ ~(n + 2 <= n + 1) /\ n + 2 - (n + 1) = 1
        BY <2>3
      <4> QED
        BY <2>6, <2>7, <4>1
    <3>3. ASSUME NEW i \in 2..n + 1 PROVE p[i] = ErrorPackage(q)
      <4>1. i \in 1..n + 1 /\ i \in 1..n + 2 /\ i - 1 \in 1..n /\ ~(i <= 1) /\ i <= n + 1
        BY <2>3
      <4> QED
        BY <2>4, <2>5, <2>7, <4>1
    <3> QED
      BY <3>1, <3>2, <3>3
  <2>10. /\ \A i \in DOMAIN p : /\ \/ i = 1 \/ i \in 2..n + 1 \/ i = n + 2
                                /\ i <= n + 2
         /\ 1 \in DOMAIN p
    BY <2>3, <2>8
  <2>11. Has(p, "END", q) /\ Once(p, "END", q)
    BY <1>0, <2>2, <2>9, <2>10 DEF Has, Once, Matches
  <2>12. EvictedLast(p, q)
    BY <1>0, <2>2, <2>9, <2>10 DEF EvictedLast, Matches
  <2>13. w \notin Fallible => \A i \in DOMAIN p : p[i].op # "ERROR"
    <3>1. w \notin Fallible => n = 0
      BY <2>1
    <3>2. w \notin Fallible => \A i \in DOMAIN p : i = 1 \/ i = n + 2
      <4>1. w \notin Fallible => \A i \in DOMAIN p : i \notin 2..n + 1
        BY <2>3, <3>1
      <4> QED
        BY <2>10, <4>1
    <3> QED
      BY <1>0, <2>2, <2>9, <3>2
  <2>14. LeavesWith(w, q, p)
    BY <1>0, <1>6, <2>2, <2>9, <2>10, <2>11, <2>12, <2>13 DEF LeavesWith, Farewell
  <2> QED
    BY <2>1, <2>7, <2>14 DEF p, r, e
<1> QED
  BY <1>3, <1>4, <1>5, <1>6

\* What a Worker says while it executes an instruction.
LEMMA ReadPackages ==
    ASSUME NEW q \in Queries, NEW p \in {<<>>, <<[op |-> "READ", q |-> q]>>}
    PROVE  p \in Seq(WorkerPackages) /\ \A i \in DOMAIN p : p[i].op = "READ" /\ p[i].q = q
<1>1. [op |-> "READ", q |-> q] \in WorkerPackages
  BY DEF WorkerPackages
<1>2. CASE p = <<>>
  BY <1>2
<1>3. CASE p = <<[op |-> "READ", q |-> q]>>
  BY <1>1, <1>3
<1> QED
  BY <1>2, <1>3

-----------------------------------------------------------------------------
(* Types.                                                                  *)

\* The peers reach the Master's tables and threads through the wire only.
LEMMA PeersLeaveMaster ==
    ASSUME PeersNext
    PROVE  UNCHANGED master
<1>1. ASSUME NEW w, NEW q, NEW p, GiveUp(w, q, p) PROVE UNCHANGED master
  BY <1>1 DEF GiveUp, Send
<1>2. ASSUME NEW w \in Workers, NEW q \in Queries,
             Execute(w, q) \/ Finish(w, q) \/ Fail(w, q) \/ Evict(w, q)
      PROVE  UNCHANGED master
  <2>1. CASE Execute(w, q)
    BY <2>1 DEF Execute, Send
  <2>2. CASE Finish(w, q)
    BY <1>1, <2>2, Zenon DEF Finish
  <2>3. CASE Fail(w, q)
    BY <1>1, <2>3, Zenon DEF Fail
  <2>4. CASE Evict(w, q)
    BY <1>1, <2>4, Zenon DEF Evict
  <2> QED
    BY <1>2, <2>1, <2>2, <2>3, <2>4
<1>3. ASSUME NEW w \in Workers, Handshake(w) \/ Disconnect(w) \/ Listen(w)
      PROVE  UNCHANGED master
  BY <1>3 DEF Handshake, Disconnect, Listen
<1> QED
  BY <1>2, <1>3 DEF PeersNext, Client, WorkerExecutor

\* Steps of the peers.
LEMMA PeersTyped ==
    ASSUME TypeOK, PeersNext
    PROVE  TypeOK'
<1>0. WireTypeOK /\ PeersTypeOK /\ LinkTypeOK /\ MasterTypeOK'
  BY PeersOutside, PeersLeaveMaster DEF TypeOK, PeersTypeOK
<1>1. ASSUME NEW q \in Queries, Client(q) PROVE WireTypeOK' /\ PeersTypeOK'
  BY <1>0, <1>1, QueryControlTyped DEF Client, PeersTypeOK, LinkTypeOK, peers
<1>2. ASSUME NEW w \in Workers, Handshake(w) PROVE WireTypeOK' /\ PeersTypeOK'
  BY <1>0, <1>2, LinkTyped DEF Handshake, PeersTypeOK
<1>3. ASSUME NEW w \in Workers, Disconnect(w) PROVE WireTypeOK' /\ PeersTypeOK'
  <2>1. WireTypeOK' /\ LinkTypeOK'
    BY <1>0, <1>3, LinkTyped DEF Disconnect
  <2> QED
    BY <1>0, <1>3, <2>1 DEF Disconnect, PeersTypeOK
<1>4. ASSUME NEW w \in Workers, Listen(w) PROVE WireTypeOK' /\ PeersTypeOK'
  <2> DEFINE m == Head(toWorker[w])
  <2>1. m \in MasterPackages /\ Tail(toWorker[w]) \in Seq(MasterPackages)
    BY <1>0, <1>4, HeadTailProperties DEF Listen, WireTypeOK
  <2>2. WireTypeOK'
    BY <1>0, <1>4, <2>1 DEF Listen, WireTypeOK
  <2>3. PeersTypeOK'
    <3>1. CASE m.op = "START"
      <4>1. m.q \in Queries /\ m.pc \in ProgramCounters
        BY <2>1, <3>1, PackageFields
      <4> HIDE DEF m
      <4>2. PICK erased \in SUBSET (holding[w] \cup {m.q}) :
               /\ holding' = [holding EXCEPT ![w] = (@ \cup {m.q}) \ erased]
               /\ eject' = [eject EXCEPT ![w] = @ \ (erased \cup {m.q})]
               /\ position' = [position EXCEPT ![w][m.q] = m.pc]
               /\ UNCHANGED <<phase, executed>>
        BY <1>4, <3>1 DEF Listen, m
      <4> QED
        BY <1>0, <4>1, <4>2 DEF PeersTypeOK, LinkTypeOK
    <3>2. CASE m.op = "PREEMPT"
      <4>1. m.q \in Queries
        BY <2>1, <3>2, PackageFields
      <4> HIDE DEF m
      <4>2. PICK heard \in SUBSET ({m.q} \cap holding[w]) :
               /\ eject' = [eject EXCEPT ![w] = @ \cup heard]
               /\ UNCHANGED <<phase, executed, holding, position>>
        BY <1>4, <3>2 DEF Listen, m
      <4> QED
        BY <1>0, <4>1, <4>2 DEF PeersTypeOK, LinkTypeOK
    <3> QED
      BY <1>4, <3>1, <3>2 DEF Listen
  <2> QED
    BY <2>2, <2>3
<1>5. ASSUME NEW w \in Workers, NEW p \in Seq(WorkerPackages), Send(w, p)
      PROVE  WireTypeOK' /\ LinkTypeOK'
  <2>1. fromWorker[w] \o p \in Seq(WorkerPackages)
    BY <1>0, ConcatProperties DEF WireTypeOK
  <2> QED
    BY <1>0, <1>5, <2>1 DEF Send, WireTypeOK, LinkTypeOK
<1>6. ASSUME NEW w \in Workers, NEW q \in Queries, Execute(w, q)
      PROVE  WireTypeOK' /\ PeersTypeOK'
  <2>1. PICK p \in {<<>>, <<[op |-> "READ", q |-> q]>>} : Send(w, p)
    BY <1>6 DEF Execute
  <2>2. WireTypeOK' /\ LinkTypeOK'
    BY <1>5, <2>1, ReadPackages
  <2>3. position[w][q] + 1 \in ProgramCounters /\ executed[q] + 1 \in Nat
    BY <1>0, <1>6, WireAssumption DEF Execute, PeersTypeOK, ProgramCounters
  <2>4. PICK others \in SUBSET holding[w] :
           position' = [position EXCEPT ![w] =
              [r \in Queries |-> IF r \in others \cup {q} THEN @[q] + 1 ELSE @[r]]]
    BY <1>6 DEF Execute
  <2>5. position' \in [Workers -> [Queries -> ProgramCounters]]
    BY <1>0, <2>3, <2>4 DEF PeersTypeOK
  <2> QED
    BY <1>0, <1>6, <2>2, <2>3, <2>5 DEF Execute, PeersTypeOK
<1>7. ASSUME NEW w \in Workers, NEW q \in Queries, Finish(w, q) \/ Fail(w, q) \/ Evict(w, q)
      PROVE  WireTypeOK' /\ PeersTypeOK'
  <2>1. PICK p \in Seq(WorkerPackages) : GiveUp(w, q, p)
    BY <1>7, GivesUp
  <2>2. WireTypeOK' /\ LinkTypeOK'
    BY <1>5, <2>1 DEF GiveUp
  <2> QED
    BY <1>0, <2>1, <2>2 DEF GiveUp, PeersTypeOK
<1> QED
  BY <1>0, <1>1, <1>2, <1>3, <1>4, <1>6, <1>7 DEF PeersNext, WorkerExecutor, TypeOK

\* At the start.
LEMMA InitTyped ==
    ASSUME Init
    PROVE  TypeOK
<1>1. Typed
  BY MasterInitTyped DEF Init
<1>2. PeersTypeOK
  BY WireAssumption DEF Init, LinkInit, PeersTypeOK, LinkTypeOK, ProgramCounters
<1> QED
  BY <1>1, <1>2 DEF TypeOK, Typed

\* Every step.
LEMMA StepTyped ==
    ASSUME TypeOK, [Next]_vars
    PROVE  TypeOK'
<1>1. CASE PeersNext
  BY <1>1, PeersTyped
<1>2. CASE (MasterNext /\ UNCHANGED peers) \/ UNCHANGED vars
  <2>1. Typed'
    BY <1>2, MasterTyped DEF TypeOK, Typed, vars
  <2>2. PeersTypeOK'
    BY <1>2 DEF TypeOK, PeersTypeOK, LinkTypeOK, peers, vars
  <2> QED
    BY <2>1, <2>2 DEF TypeOK, Typed
<1> QED
  BY <1>1, <1>2 DEF Next

\* Every variable keeps its type in every behaviour: no handler stores a
\* worker, query or program counter out of range, whatever it receives.
THEOREM TypeCorrect == Spec => []TypeOK
<1>1. TypeOK /\ [Next]_vars => TypeOK'
  BY StepTyped
<1> QED
  BY <1>1, InitTyped, PTL DEF Spec

-----------------------------------------------------------------------------
(* The Workers of Peers in the terms of MasterProofs.                      *)

\* What the Workers know.  One of them sends all it has to say of a query
\* when it gives the query up, so that none is asked to give up what it ended.
Known ==
    [holding |-> holding, eject |-> eject, late |-> [w \in Workers |-> {}],
     position |-> position, executed |-> executed]

\* The inductive invariant.
PeersInv == TypeOK /\ \A k : k = Known => SystemInv(k, Fallible)

\* A Worker receives a package.
LEMMA ListenKept ==
    ASSUME TypeOK, NEW k, NEW l, k = Known, l = Known', SystemInv(k, Fallible),
           NEW v \in Workers, Listen(v)
    PROVE  SystemInv(l, Fallible)'
<1> DEFINE m == Head(toWorker[v])
<1>0. /\ holding \in [Workers -> SUBSET Queries] /\ eject \in [Workers -> SUBSET Queries]
      /\ position \in [Workers -> [Queries -> ProgramCounters]]
      /\ m \in MasterPackages
  BY HeadTailProperties DEF TypeOK, PeersTypeOK, WireTypeOK, Listen
<1>1. /\ k.holding = holding /\ k.eject = eject /\ k.late = [w \in Workers |-> {}]
      /\ k.position = position /\ k.executed = executed
      /\ l.holding = holding' /\ l.eject = eject' /\ l.late = [w \in Workers |-> {}]
      /\ l.position = position' /\ l.executed = executed'
  BY DEF Known
<1>2. /\ ThreadOf(v) /\ Takes(v) /\ UNCHANGED fromWorker /\ l.executed = k.executed
  BY <1>1 DEF Listen, ThreadOf, Takes
<1>3. CASE m.op = "START"
  <2> DEFINE q == m.q
  <2>1. q \in Queries /\ m.pc \in ProgramCounters
    BY <1>0, <1>3, PackageFields
  <2>2. Matches(Head(toWorker[v]), "START", q)
    BY <1>3 DEF Matches
  <2>3. PICK erased \in SUBSET (holding[v] \cup {q}) :
           /\ holding' = [holding EXCEPT ![v] = (@ \cup {q}) \ erased]
           /\ eject' = [eject EXCEPT ![v] = @ \ (erased \cup {q})]
           /\ position' = [position EXCEPT ![v][q] = m.pc]
    BY <1>3 DEF Listen
  <2> HIDE DEF q
  <2>4. OnlyFades(v, q, k, l)
    BY <1>0, <1>1, <1>2, <2>1, <2>3 DEF OnlyFades, Fades, Agree
  <2>5. l.position[v][q] = m.pc /\ q \notin l.eject[v] /\ q \notin l.late[v]
    BY <1>0, <1>1, <2>1, <2>3
  <2> HIDE DEF m
  <2> QED
    BY <1>2, <2>1, <2>2, <2>4, <2>5, SystemStart DEF m
<1>4. CASE m.op = "PREEMPT"
  <2> DEFINE q == m.q
  <2>1. q \in Queries
    BY <1>0, <1>4, PackageFields
  <2>2. Matches(Head(toWorker[v]), "PREEMPT", q)
    BY <1>4 DEF Matches
  <2>3. PICK heard \in SUBSET ({q} \cap holding[v]) :
           /\ eject' = [eject EXCEPT ![v] = @ \cup heard]
           /\ holding' = holding /\ position' = position
    BY <1>4 DEF Listen
  <2> HIDE DEF q, m
  <2>4. OnlyFades(v, q, k, l)
    BY <1>0, <1>1, <1>2, <2>1, <2>3 DEF OnlyFades, Fades, Agree
  <2>5. q \in l.eject[v] => q \in k.eject[v] \/ q \in k.holding[v] \cup k.late[v]
    BY <1>0, <1>1, <2>1, <2>3
  <2>6. /\ q \in l.holding[v] <=> q \in k.holding[v]
        /\ q \in l.late[v] <=> q \in k.late[v]
        /\ l.position[v][q] = k.position[v][q] /\ l.executed[q] = k.executed[q]
    BY <1>1, <1>2, <2>3
  <2> QED
    BY <1>2, <2>1, <2>2, <2>4, <2>5, <2>6, SystemRequest
<1> QED
  BY <1>3, <1>4 DEF Listen

\* A Worker whose instructions never fail holds one query at a time: what it
\* holds runs, and its block in the worker table names it.
LEMMA OneHeld ==
    ASSUME NEW k, k = Known, SystemInv(k, Fallible), NEW v \in Workers, Running(v),
           NEW q \in Queries, q \in holding[v], holding[v] \subseteq Queries
    PROVE  Fallible = {} => \A x \in holding[v] : x = q
<1> SUFFICES ASSUME Fallible = {}, NEW x \in holding[v] PROVE x = q
  OBVIOUS
<1>1. ASSUME NEW y \in Queries, y \in holding[v] PROVE wcb[v].query = y
  <2>1. y \in k.holding[v] /\ ~workerClosed[v]
    BY <1>1 DEF Known, Running
  <2>2. Outstanding(v, y, k) /\ Involved(v, y, k)
    BY <2>1 DEF Outstanding, Involved
  <2>3. Retained(v, y, k, Fallible)
    BY DEF SystemInv, RetainInv
  <2>4. y \in running_list
    BY <2>2, <2>3 DEF Retained
  <2>5. qcb[y].worker = v
    BY <2>2, <2>4 DEF SystemInv, Assigned, QueryAssigned, PairInv, RunningAt
  <2> QED
    BY <2>3, <2>4, <2>5 DEF Retained
<1> QED
  BY <1>1

\* A Worker executes an instruction of a query, or gives the query up.
LEMMA ExecutorKept ==
    ASSUME TypeOK, NEW k, NEW l, k = Known, l = Known', SystemInv(k, Fallible),
           NEW v \in Workers, WorkerExecutor(v)
    PROVE  SystemInv(l, Fallible)'
<1>0. /\ holding \in [Workers -> SUBSET Queries] /\ eject \in [Workers -> SUBSET Queries]
      /\ position \in [Workers -> [Queries -> ProgramCounters]]
      /\ executed \in [Queries -> Nat]
  BY DEF TypeOK, PeersTypeOK
<1>1. /\ k.holding = holding /\ k.eject = eject /\ k.late = [w \in Workers |-> {}]
      /\ k.position = position /\ k.executed = executed
      /\ l.holding = holding' /\ l.eject = eject' /\ l.late = [w \in Workers |-> {}]
      /\ l.position = position' /\ l.executed = executed'
  BY DEF Known
<1>2. PICK q \in Queries : Execute(v, q) \/ Finish(v, q) \/ Fail(v, q) \/ Evict(v, q)
  BY DEF WorkerExecutor
<1>3. CASE Execute(v, q)
  <2>1. PICK p \in {<<>>, <<[op |-> "READ", q |-> q]>>} : Send(v, p)
    BY <1>3 DEF Execute
  <2>2. p \in Seq(WorkerPackages) /\ \A i \in DOMAIN p : p[i].op = "READ" /\ p[i].q = q
    BY ReadPackages
  <2>3. /\ executed' = [executed EXCEPT ![q] = @ + 1]
        /\ UNCHANGED <<holding, eject>> /\ q \in holding[v] /\ Running(v)
    BY <1>3 DEF Execute
  <2>4. PICK others \in SUBSET holding[v] :
           position' = [position EXCEPT ![v] =
              [r \in Queries |-> IF r \in others \cup {q} THEN @[q] + 1 ELSE @[r]]]
    BY <1>3 DEF Execute
  <2>5. /\ \A w \in Workers \ {v} : position'[w] = position[w]
        /\ position'[v][q] = position[v][q] + 1
        /\ \A x \in Queries : x \notin others \cup {q} => position'[v][x] = position[v][x]
    BY <1>0, <2>4
  <2>6. Fallible = {} => others \subseteq {q}
    BY <1>0, <2>3, OneHeld
  <2>7. ThreadOf(v) /\ Says(v, p) /\ UNCHANGED toWorker
    BY <2>1, <2>3 DEF Send, ThreadOf, Says
  <2>8. OnlyFades(v, q, k, l)
    BY <1>0, <1>1, <2>3, <2>5, <2>6 DEF OnlyFades, Fades, Agree
  <2>9. /\ l.position[v][q] = k.position[v][q] + 1 /\ l.executed[q] = k.executed[q] + 1
        /\ q \in k.holding[v] /\ q \in l.holding[v]
        /\ q \in l.late[v] <=> q \in k.late[v]
        /\ q \in l.eject[v] <=> q \in k.eject[v]
    BY <1>0, <1>1, <2>3, <2>5
  <2> QED
    BY <2>2, <2>7, <2>8, <2>9, SystemExecute
<1>4. CASE Finish(v, q) \/ Fail(v, q) \/ Evict(v, q)
  <2>1. PICK p \in Seq(WorkerPackages) : GiveUp(v, q, p) /\ LeavesWith(v, q, p)
    BY <1>4, GivesUp
  <2>2. /\ holding' = [holding EXCEPT ![v] = @ \ {q}]
        /\ eject' = [eject EXCEPT ![v] = @ \ {q}]
        /\ UNCHANGED <<position, executed>> /\ q \in holding[v]
        /\ ThreadOf(v) /\ Says(v, p) /\ UNCHANGED toWorker
    BY <2>1 DEF GiveUp, Send, ThreadOf, Says
  <2>3. OnlyFades(v, q, k, l)
    BY <1>0, <1>1, <2>2 DEF OnlyFades, Fades, Agree
  <2>4. /\ q \in k.holding[v] /\ q \notin l.holding[v] /\ q \notin l.late[v]
        /\ q \notin l.eject[v] /\ l.executed[q] = k.executed[q]
    BY <1>0, <1>1, <2>2
  <2>5. /\ Farewell(p, q, k.position[v][q]) /\ Once(p, "END", q) /\ EvictedLast(p, q)
        /\ \A i \in DOMAIN p : p[i].op \in {"END", "ERROR", "EVICTED"} /\ p[i].q = q
        /\ v \in Fallible \/ \A i \in DOMAIN p : p[i].op # "ERROR"
    BY <1>1, <2>1 DEF LeavesWith, Farewell
  <2>6. q \in running_list /\ Has(p, "EVICTED", q)
        => qcb[q].pending /\ ~Has(toWorker'[v], "PREEMPT", q)
    <3> SUFFICES ASSUME q \in running_list, Has(p, "EVICTED", q)
                 PROVE  qcb[q].pending /\ ~Has(toWorker'[v], "PREEMPT", q)
      OBVIOUS
    <3>1. q \in k.eject[v]
      BY <1>1, <2>1 DEF LeavesWith
    <3>2. RunningAt(v, q, k)
      BY DEF SystemInv, Assigned, QueryAssigned, PairInv
    <3> QED
      BY <2>2, <3>1, <3>2 DEF RunningAt
  <2> QED
    BY <2>2, <2>3, <2>4, <2>5, <2>6, SystemFarewell
<1> QED
  BY <1>2, <1>3, <1>4

\* Every step keeps the invariant.
LEMMA PeersKept ==
    ASSUME PeersInv, [Next]_vars
    PROVE  \A l : l = Known' => SystemInv(l, Fallible)'
<1> SUFFICES ASSUME NEW l, l = Known' PROVE SystemInv(l, Fallible)'
  OBVIOUS
<1>0. PICK k : k = Known
  OBVIOUS
<1>1. TypeOK /\ SystemInv(k, Fallible)
  BY <1>0 DEF PeersInv
<1>2. ASSUME UNCHANGED <<holding, eject, position, executed>> PROVE l = k
  BY <1>0, <1>2 DEF Known
<1>3. CASE MasterNext /\ UNCHANGED peers
  <2>1. SystemInv(k, Fallible)'
    BY <1>1, <1>3, SystemMaster DEF peers
  <2> QED
    BY <1>2, <1>3, <2>1 DEF peers
<1>4. CASE UNCHANGED vars
  <2>1. SystemInv(k, Fallible)'
    BY <1>1, <1>4, SystemUnmoved DEF vars, wire, peers
  <2> QED
    BY <1>2, <1>4, <2>1 DEF vars, peers
<1>5. ASSUME NEW q \in Queries, Client(q) PROVE SystemInv(l, Fallible)'
  <2>1. UNCHANGED <<master, toWorker, fromWorker, workerClosed, phase>>
        /\ QueryControl(q) /\ UNCHANGED <<holding, eject, position, executed>>
    BY <1>5 DEF Client, peers, QueryControl, Submit, Leave, Quit, CloseQC
  <2>2. SystemInv(k, Fallible)'
    BY <1>1, <2>1, SystemUnmoved
  <2> QED
    BY <1>2, <2>1, <2>2
<1>6. ASSUME NEW v \in Workers, Handshake(v) \/ Disconnect(v) PROVE SystemInv(l, Fallible)'
  <2>1. /\ holding \in [Workers -> SUBSET Queries] /\ eject \in [Workers -> SUBSET Queries]
        /\ LinkTypeOK
    BY <1>1 DEF TypeOK, PeersTypeOK
  <2>2. /\ k.holding = holding /\ k.eject = eject /\ k.late = [w \in Workers |-> {}]
        /\ k.position = position /\ k.executed = executed
        /\ l.holding = holding' /\ l.eject = eject' /\ l.late = [w \in Workers |-> {}]
        /\ l.position = position' /\ l.executed = executed'
    BY <1>0 DEF Known
  <2>3. /\ Connect(v) \/ Accepted(v) \/ Refused(v) \/ Crash(v)
        /\ UNCHANGED <<master, position, executed>>
        /\ \/ UNCHANGED <<holding, eject>>
           \/ /\ holding' = [holding EXCEPT ![v] = {}]
              /\ eject' = [eject EXCEPT ![v] = {}]
    BY <1>6 DEF Handshake, Disconnect
  <2>4. \A w \in Workers, q \in Queries : Fades(w, q, k, l)
    BY <2>1, <2>2, <2>3 DEF Fades, Agree
  <2> QED
    BY <1>1, <2>1, <2>2, <2>3, <2>4, SystemLink
<1> QED
  BY <1>0, <1>1, <1>3, <1>4, <1>5, <1>6, ListenKept, ExecutorKept DEF Next, PeersNext

\* The invariant of the Master and its peers.
LEMMA PeersInvariant == Spec => []PeersInv
<1>1. Init => PeersInv
  <2> SUFFICES ASSUME Init PROVE PeersInv
    OBVIOUS
  <2>1. TypeOK
    BY InitTyped
  <2>2. ASSUME NEW k, k = Known PROVE SystemInv(k, Fallible)
    <3>1. /\ WireInit /\ MasterInit /\ LinkInit
          /\ \A w \in Workers : k.holding[w] = {} /\ k.late[w] = {} /\ k.eject[w] = {}
          /\ \A q \in Queries : k.executed[q] = 0
      BY <2>2 DEF Init, Known
    <3> QED
      BY <3>1, SystemInit
  <2> QED
    BY <2>1, <2>2 DEF PeersInv
<1>2. PeersInv /\ [Next]_vars => PeersInv'
  <2>1. ASSUME PeersInv, [Next]_vars PROVE TypeOK'
    BY <2>1, StepTyped DEF PeersInv
  <2> QED
    BY <2>1, PeersKept DEF PeersInv
<1> QED
  BY <1>1, <1>2, PTL DEF Spec

\* What a theorem takes from it.
LEMMA PeersSystem ==
    ASSUME PeersInv
    PROVE  \E k : k = Known /\ SystemInv(k, Fallible)
BY DEF PeersInv

-----------------------------------------------------------------------------
(* The query table, the ready queue and the worker table.                  *)

\* Whenever the mutexes are free each query is on exactly the lists its
\* state says, once: no order of handlers, evictions, errors and
\* disconnections duplicates or loses one.
THEOREM QueryTablesCorrect == Spec => []QueryTables
<1>1. PeersInv => QueryTables
  BY PeersSystem DEF SystemInv, QueryInv
<1> QED
  BY <1>1, PeersInvariant, PTL

\* A Query Control hears of the end of its query once, last, and exactly
\* when the query leaves the Master's tables.
THEOREM EndReportedCorrect == Spec => []EndReported
<1>1. PeersInv => EndReported
  BY PeersSystem DEF SystemInv, QueryInv, EndNoticed, EndReported
<1> QED
  BY <1>1, PeersInvariant, PTL

\* Under PRIORITY the ready queue is in priority order whenever the mutexes
\* are free: insert_query_by_priority, the sort after an aging pass, failed
\* dispatches and every removal keep it so.
THEOREM ReadyByPriorityCorrect == Spec => []ReadyByPriority
<1> DEFINE I == Algorithm = "PRIORITY" => ReadySorted
<1>1. Init => I
  BY DEF Init, MasterInit, ReadySorted, SortedBy
<1>2. ASSUME PeersInv, I, [Next]_vars PROVE I'
  <2> SUFFICES ASSUME Algorithm = "PRIORITY" PROVE ReadySorted'
    OBVIOUS
  <2>1. ReadySorted /\ QueryInv
    BY <1>2, PeersSystem DEF SystemInv
  <2>2. CASE UNCHANGED queryTable
    BY <2>1, <2>2, SameSorted DEF queryTable
  <2>3. CASE MasterNext
    BY <2>1, <2>3, QueryThreadSorted, WorkerThreadSorted, AgingThreadSorted DEF MasterNext
  <2>4. CASE PeersNext
    <3>1. UNCHANGED master
      BY <2>4, PeersLeaveMaster
    <3> QED
      BY <2>2, <3>1 DEF master
  <2>5. CASE UNCHANGED vars
    BY <2>2, <2>5 DEF vars, master
  <2> QED
    BY <1>2, <2>3, <2>4, <2>5 DEF Next
<1>3. PeersInv /\ I => ReadyByPriority
  <2> SUFFICES ASSUME PeersInv, ReadySorted,
                      NEW i \in DOMAIN ready_queue, NEW j \in DOMAIN ready_queue, i < j
               PROVE  qcb[ready_queue[i]].priority <= qcb[ready_queue[j]].priority
    BY DEF ReadyByPriority
  <2>1. ready_queue[i] \in Queries /\ ready_queue[j] \in Queries
    BY ListRange DEF PeersInv, TypeOK, MasterTypeOK, QueryTableTypeOK, ToSet
  <2> QED
    BY <2>1 DEF ReadySorted, SortedBy, PriorityOf
<1> HIDE DEF I
<1> QED
  BY <1>1, <1>2, <1>3, PeersInvariant, PTL DEF Spec

\* Whenever the mutexes are free each registered worker is idle or busy, once
\* and not both; an idle one has no query; the query a worker block names, if
\* it runs, was assigned to that worker; no running query's worker is idle.
THEOREM WorkerTablesCorrect == Spec => []WorkerTables
<1>1. PeersInv => WorkerTables
  BY PeersSystem DEF SystemInv, WorkerInv, TablesInv
<1> QED
  BY <1>1, PeersInvariant, PTL

\* While a query runs, the worker it was assigned to is registered: the end
\* of a worker's connection ends the query it was executing.  So for every
\* set of Workers that crash and every set of Workers whose instructions the
\* Storage may refuse, as long as the two sets are disjoint.
THEOREM RunningHasWorkerCorrect ==
    ASSUME Fallible \cap Crashers = {}
    PROVE  Spec => []RunningHasWorker
<1>1. PeersInv => RunningHasWorker
  <2> SUFFICES ASSUME PeersInv, NEW q \in running_list
               PROVE  qcb[q].worker \in worker_list
    BY DEF RunningHasWorker
  <2>1. PICK k : SystemInv(k, Fallible)
    BY PeersSystem
  <2>2. q \in Queries /\ qcb[q].worker \in Workers
    BY <2>1 DEF SystemInv, QueryInv, QueryTables, WorkerInv, TablesInv, WorkerTables
  <2> QED
    BY <2>1, <2>2 DEF SystemInv, RetainInv, Retained
<1> QED
  BY <1>1, PeersInvariant, PTL

-----------------------------------------------------------------------------
(* Who executes a query, and from where.                                   *)

\* No query is executed by two workers, and none while it waits in READY,
\* whatever fails, crashes or leaves and in whatever order packages arrive.
THEOREM SingleExecutionCorrect == Spec => []SingleExecution
<1>1. ASSUME PeersInv PROVE SingleExecution
  <2> SUFFICES ASSUME NEW q \in Queries
               PROVE  /\ qcb[q].state = "READY" => Executors(q) = {}
                      /\ q \in running_list => Executors(q) \subseteq {qcb[q].worker}
                      /\ \A v, w \in Executors(q) : v = w
    BY DEF SingleExecution
  <2>1. PICK k : k = Known /\ SystemInv(k, Fallible)
    BY <1>1, PeersSystem
  <2>2. \A w \in Executors(q) : w \in Workers /\ Involved(w, q, k)
    BY <2>1 DEF Known, Executors, Involved, Has, Matches
  <2>3. QueryAssigned(q, k)
    BY <2>1 DEF SystemInv, Assigned
  <2> QED
    BY <2>2, <2>3 DEF QueryAssigned, PairInv, RunningAt
<1> QED
  BY <1>1, PeersInvariant, PTL

\* A waiting query resumes at the instruction after the last one executed, over
\* any number of evictions, lost assignments, disconnections and crashes, while no
\* instruction fails.  With failures it is not so: an ERROR can make the Master
\* start a second query on a Worker that executes the first, and the executor
\* then writes the program counter of one into the context of the other.
THEOREM PcPreservedCorrect ==
    ASSUME Fallible = {}
    PROVE  Spec => []PcPreserved
<1>1. PeersInv => PcPreserved
  BY PeersSystem DEF Known, SystemInv, Assigned, QueryAssigned, PcPreserved, Agree
<1> QED
  BY <1>1, PeersInvariant, PTL

\* A running query is asked to leave its worker at most once at a time, and
\* no request outlives the execution it was meant for.
THEOREM PreemptOnceCorrect == Spec => []PreemptOnce
<1>1. ASSUME PeersInv PROVE PreemptOnce
  <2> SUFFICES ASSUME NEW w \in Workers, NEW q \in Queries
               PROVE  /\ \A i, j \in PreemptsOf(w, q) : i = j
                      /\ (PreemptsOf(w, q) # {} /\ q \in running_list)
                         => qcb[q].pending /\ qcb[q].worker = w
                      /\ qcb[q].state = "READY" => PreemptsOf(w, q) = {}
    BY DEF PreemptOnce
  <2>1. PICK k : PairInv(w, q, k)
    BY <1>1, PeersSystem DEF SystemInv, Assigned, QueryAssigned
  <2>2. PreemptsOf(w, q) # {} <=> Has(toWorker[w], "PREEMPT", q)
    BY DEF PreemptsOf, Has, Matches
  <2>3. \A i, j \in PreemptsOf(w, q) : i = j
    BY <2>1 DEF PairInv, PreemptsOf, Once, Matches
  <2> QED
    BY <2>1, <2>2, <2>3 DEF PairInv, RunningAt, Involved
<1> QED
  BY <1>1, PeersInvariant, PTL
=============================================================================
