----------------------------- MODULE WorkerLink -----------------------------
(***************************************************************************)
(* A Worker's connection to the Master: the handshake main performs before *)
(* it starts its threads, and the end of the connection.                   *)
(***************************************************************************)
EXTENDS Wire

CONSTANTS
    Crashers,  \* Workers that may disconnect
    Fallible   \* Workers whose instructions and write-backs may fail

ASSUME WorkerLinkAssumption == Crashers \subseteq Workers /\ Fallible \subseteq Workers

VARIABLE phase  \* "off", "connecting" (handshake sent) or "up"

LinkTypeOK == phase \in [Workers -> {"off", "connecting", "up"}]

LinkInit == phase = [w \in Workers |-> "off"]

\* The threads of the Worker exist.
Running(w) == phase[w] = "up" /\ ~workerClosed[w]

\* handshake_with_master sends the handshake request.
Connect(w) ==
    /\ phase[w] = "off"
    /\ phase' = [phase EXCEPT ![w] = "connecting"]
    /\ fromWorker' = [fromWorker EXCEPT ![w] = Append(@, [op |-> "HANDSHAKE"])]
    /\ UNCHANGED <<toWorker, workerClosed, fromQC, toQC, qcClosed>>

\* handshake_with_server waits for the answer ...
Answered(w) ==
    /\ phase[w] = "connecting"
    /\ ~workerClosed[w]
    /\ toWorker[w] # <<>>

\* ... and goes on if it is the ACK ...
Accepted(w) ==
    /\ Answered(w)
    /\ Head(toWorker[w]).op = "ACK"
    /\ phase' = [phase EXCEPT ![w] = "up"]
    /\ toWorker' = [toWorker EXCEPT ![w] = Tail(@)]
    /\ UNCHANGED <<fromWorker, workerClosed, fromQC, toQC, qcClosed>>

\* The connection of w ends: what was sent to it is lost, what it sent
\* before is still to be received by the Master.
CloseLink(w) ==
    /\ ~workerClosed[w]
    /\ workerClosed' = [workerClosed EXCEPT ![w] = TRUE]
    /\ toWorker' = [toWorker EXCEPT ![w] = <<>>]
    /\ UNCHANGED <<fromWorker, fromQC, toQC, qcClosed, phase>>

\* ... or gives up on anything else, and main exits.
Refused(w) == Answered(w) /\ Head(toWorker[w]).op # "ACK" /\ CloseLink(w)

\* The Worker process dies.
Crash(w) == w \in Crashers /\ phase[w] # "off" /\ CloseLink(w)
=============================================================================
