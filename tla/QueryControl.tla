---------------------------- MODULE QueryControl ----------------------------
(***************************************************************************)
(* The Query Control process: it submits one query with its priority and   *)
(* listens until the Master says that the query ended.                     *)
(***************************************************************************)
EXTENDS Wire

CONSTANT Quitters  \* Query Controls that may disconnect before the end

ASSUME QueryControlAssumption == Quitters \subseteq Queries

NotSubmitted(q) == toQC[q] = <<>> /\ fromQC[q] = <<>> /\ ~qcClosed[q]

\* The handshake and the package with the path and the priority.
Submit(q) ==
    /\ NotSubmitted(q)
    /\ \E p \in Priorities :
          fromQC' = [fromQC EXCEPT ![q] = <<[op |-> "FILE_PATH", priority |-> p]>>]
    /\ UNCHANGED <<toWorker, fromWorker, workerClosed, toQC, qcClosed>>

CloseQC(q) ==
    /\ ~qcClosed[q]
    /\ qcClosed' = [qcClosed EXCEPT ![q] = TRUE]
    /\ UNCHANGED <<toWorker, fromWorker, workerClosed, fromQC, toQC>>

\* The Query Control leaves after the notice that its query ended.
Leave(q) == TerminalNotices(q) # {} /\ CloseQC(q)

\* The user kills the Query Control, or its connection breaks.
Quit(q) == q \in Quitters /\ ~NotSubmitted(q) /\ CloseQC(q)

QueryControl(q) == Submit(q) \/ Leave(q) \/ Quit(q)
=============================================================================
