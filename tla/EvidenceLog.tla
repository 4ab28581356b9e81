----------------------------- MODULE EvidenceLog -----------------------------
(***************************************************************************)
(* What the telemetry pipeline promises: the server's log of a session is   *)
(* the evidence the device produced, in its order, each event once, without *)
(* a gap, and nothing is added after the session has closed.  The device    *)
(* may lose evidence the server does not have only when it is discharged.   *)
(*                                                                         *)
(* AgentTelemetry, the model of the agents and of the server, implements    *)
(* this module.                                                            *)
(***************************************************************************)
EXTENDS Integers, Sequences

CONSTANT Events

VARIABLES
    produced,   \* the events of the device, oldest first
    kept,       \* how many of them the server has recorded
    closed,     \* the session accepts no more events
    discharged  \* the device has deleted its identity and queue

vars == <<produced, kept, closed, discharged>>

Recorded == SubSeq(produced, 1, kept)

Init ==
    /\ produced = <<>> /\ kept = 0
    /\ closed = FALSE /\ discharged = FALSE

Produce ==
    /\ ~discharged
    /\ produced' \in Seq(Events)
    /\ Len(produced') = Len(produced) + 1
    /\ SubSeq(produced', 1, Len(produced)) = produced
    /\ UNCHANGED <<kept, closed, discharged>>

\* An event is recorded; the last one may close the session.
Keep ==
    /\ ~closed /\ ~discharged
    /\ kept < Len(produced)
    /\ kept' = kept + 1
    /\ closed' \in BOOLEAN
    /\ UNCHANGED <<produced, discharged>>

Close ==
    /\ ~closed /\ closed' = TRUE
    /\ UNCHANGED <<produced, kept, discharged>>

Discharge ==
    /\ ~discharged /\ discharged' = TRUE
    /\ produced' = Recorded
    /\ UNCHANGED <<kept, closed>>

Next == Produce \/ Keep \/ Close \/ Discharge

Spec == Init /\ [][Next]_vars
=============================================================================
