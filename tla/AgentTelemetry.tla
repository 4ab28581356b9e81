--------------------------- MODULE AgentTelemetry ---------------------------
(***************************************************************************)
(* The agent on the candidate's device, together with the session on the    *)
(* server (windows-agent.ts, macos-agent.ts and their delivery queues).     *)
(*                                                                         *)
(* Persisted with the identity, and so unchanged by a restart:              *)
(*   queue    pendingEvents, oldest first                                   *)
(*   next     the sequence number of the chain state                        *)
(*   started  monitoringStarted                                             *)
(* In memory:                                                               *)
(*   mode       what run() is doing                                         *)
(*   recovering a launch found an undelivered stop (macOS)                  *)
(*   beat       when the last heartbeat was made                            *)
(*                                                                         *)
(* An event is sent only from the head of the queue and only after it was   *)
(* persisted; an answer may get lost, and the agent may exit at any time.   *)
(* A request that the server handles late repeats an event that is recorded *)
(* already, or acts like an answer that was lost.                           *)
(***************************************************************************)
EXTENDS MonitoringSession

CONSTANTS
    Platforms,    \* the platforms a candidate may use
    MaxLaunches,  \* bound: launches of the agent
    MaxEvents,    \* bound: sequence numbers the monitoring loop may use
    Observed      \* bound: the types of events the monitoring loop makes

VARIABLE agent

vars == <<now, session, agent>>

ASSUME AgentAssumption ==
    /\ Platforms \subseteq {"WINDOWS", "MACOS"}
    /\ MaxLaunches \in Nat /\ MaxEvents \in Nat
    /\ Observed \subseteq {"HEARTBEAT", "UNHEALTHY", "HEALTHY", "EVIDENCE"}

Agent == [
    platform: Platforms,
    mode: {"idle", "flushing", "recovering", "waiting", "starting",
           "monitoring", "stopping", "gone"},
    queue: Seq(Event), next: Nat, started: BOOLEAN,
    recovering: BOOLEAN, beat: Times \cup {NoTime}, launches: 0..MaxLaunches]

Sending == {"flushing", "recovering", "starting", "monitoring", "stopping"}
Running == Sending \cup {"waiting"}

Windows == agent.platform = "WINDOWS"
StopPending == \E e \in Range(agent.queue) : e.type = "MONITORING_STOPPED"

\* EventChain.create and enqueue: the event, the chain state and the mark that
\* monitoring has started are saved in one write.
Enqueue(type, mode, started) ==
    agent' = [agent EXCEPT
        !.queue = Append(@, [n |-> agent.next, type |-> type, at |-> now]),
        !.next = @ + 1, !.mode = mode, !.started = started,
        !.beat = IF type = "HEARTBEAT" THEN now ELSE @]

-----------------------------------------------------------------------------
(* run() *)

\* The stored identity is valid: on Windows before the end, on macOS during
\* the grace as well.
IdentityValid == now < IF Windows THEN End ELSE End + Grace

Launch ==
    /\ agent.mode = "idle" /\ IdentityValid
    /\ agent.launches < MaxLaunches
    /\ agent' = [agent EXCEPT !.mode = "flushing", !.recovering = StopPending,
                              !.beat = NoTime, !.launches = @ + 1]
    /\ UNCHANGED <<now, session>>

\* The first flush has emptied the queue or met a failure.  Windows looks for an
\* undelivered stop only now, macOS has done so before.
Flushed ==
    /\ agent.mode = "flushing"
    /\ agent' = [agent EXCEPT !.mode =
           IF (IF Windows THEN StopPending ELSE agent.recovering)
           THEN "recovering" ELSE "waiting"]
    /\ UNCHANGED <<now, session>>

\* Seeded fault: a restarted agent begins a new chain.
BeginAnew ==
    /\ agent.mode = "waiting" /\ now >= Start /\ now < End
    /\ agent' = [agent EXCEPT !.mode = "starting", !.next = 1, !.started = ~Windows,
           !.queue = Append(@, [n |-> 0, type |-> "MONITORING_STARTED", at |-> now])]
    /\ UNCHANGED <<now, session>>

\* Inside the window the agent starts monitoring, or resumes it.
Begin ==
    /\ agent.mode = "waiting" /\ now >= Start /\ now < End
    /\ IF agent.started
       THEN agent' = [agent EXCEPT !.mode = "monitoring"]
       ELSE Enqueue("MONITORING_STARTED", "starting", ~Windows)
    /\ UNCHANGED <<now, session>>

\* The end came first; macOS also forgets the session when told to stop here.
LeaveWaiting ==
    /\ agent.mode = "waiting"
    /\ now >= End \/ ~Windows
    /\ agent' = [agent EXCEPT !.mode = "gone", !.queue = <<>>]
    /\ UNCHANGED <<now, session>>

\* The monitoring loop makes an event; browser evidence exists on Windows only.
Emit(type) ==
    /\ agent.mode = "monitoring" /\ now < End
    /\ agent.next < MaxEvents
    /\ type = "HEARTBEAT" => agent.beat # now
    /\ type \in {"UNHEALTHY", "HEALTHY"} => Windows
    /\ Enqueue(type, "monitoring", agent.started)
    /\ UNCHANGED <<now, session>>

\* The loop has ended, because the window has or because the agent was told to.
Stop ==
    /\ agent.mode = "monitoring"
    /\ Enqueue("MONITORING_STOPPED", "stopping", agent.started)
    /\ UNCHANGED <<now, session>>

\* A flush that was waited for has emptied the queue.
Delivered ==
    /\ agent.queue = <<>>
    /\ \/ agent.mode = "starting" /\ agent' = [agent EXCEPT !.mode = "monitoring"]
       \/ agent.mode \in {"stopping", "recovering"} /\ agent' = [agent EXCEPT !.mode = "gone"]
    /\ UNCHANGED <<now, session>>

\* A crash, an error, or a flush that was given up: the identity stays.
Exit ==
    /\ agent.mode \in Running
    /\ agent' = [agent EXCEPT !.mode = "idle", !.recovering = FALSE]
    /\ UNCHANGED <<now, session>>

\* flush(): the answer to the head of the queue; if it is lost, the event stays.
Acknowledge ==
    agent' = [agent EXCEPT !.queue = Tail(@),
        !.started = @ \/ Head(agent.queue).type = "MONITORING_STARTED"]

\* Seeded fault: the event leaves the queue whatever the answer is.
SendOnce(answered) ==
    /\ agent.mode \in Sending /\ agent.queue # <<>>
    /\ IF answered THEN Ingest(Head(agent.queue)) ELSE UNCHANGED session
    /\ Acknowledge
    /\ UNCHANGED now

Send(answered) ==
    /\ agent.mode \in Sending /\ agent.queue # <<>>
    /\ Ingest(Head(agent.queue))
    /\ IF answered THEN Acknowledge ELSE UNCHANGED agent
    /\ UNCHANGED now

-----------------------------------------------------------------------------
(* The system *)

\* A device of some platform has been enrolled.
Init ==
    /\ ServerInit
    /\ agent \in [platform: Platforms, mode: {"idle"}, queue: {<<>>}, next: {0},
                  started: {FALSE}, recovering: {FALSE}, beat: {NoTime}, launches: {0}]

AgentNext ==
    \/ Launch \/ Flushed \/ Begin \/ LeaveWaiting \/ Stop \/ Delivered \/ Exit
    \/ \E type \in Observed : Emit(type)
    \/ \E answered \in BOOLEAN : Send(answered)

Next == AgentNext \/ (ServerNext /\ UNCHANGED agent)

Spec == Init /\ [][Next]_vars

\* Time passes, and a cron calls the orchestrator every ten seconds.
FairSpec == Spec /\ WF_vars(Tick /\ UNCHANGED agent)
                 /\ WF_vars(Orchestrate /\ UNCHANGED agent)

-----------------------------------------------------------------------------
(* Properties *)

\* The type invariant.
TypeOK == ServerTypeOK /\ agent \in Agent

\* What the server has not recorded of the queue.
Unsent ==
    IF agent.queue # <<>> /\ Head(agent.queue) \in Range(session.log)
    THEN Tail(agent.queue) ELSE agent.queue

\* Log and queue always join into one chain without gap or repetition, through
\* lost answers and restarts (034:10-20, event-chain.ts:11, telemetry-delivery.ts:45).
ChainIntact ==
    LET chain == session.log \o Unsent IN
    /\ \A k \in 1..Len(chain) : chain[k].n = k - 1
    /\ agent.mode # "gone" => agent.next = Len(chain)

\* While the session is open and started by the agent, the event at the head of
\* the queue is one the server takes, except for the second start of a
\* restarted Windows agent and for a stop that closes an interruption before
\* it opened (034:29-60).
NeverBlocked ==
    /\ Active(session) /\ session.log # <<>> /\ now <= End
    /\ agent.queue # <<>> /\ ~Replayed(session, Head(agent.queue))
    => \/ ~Refused(session, Head(agent.queue))
       \/ Windows /\ Head(agent.queue).type = "MONITORING_STARTED"

\* Monitoring that has started comes to an end, whatever becomes of the device.
SessionEnds == Active(session) ~> session.status = "COMPLETED"

Evidence == INSTANCE EvidenceLog WITH
    Events <- Event,
    produced <- session.log \o Unsent,
    kept <- Len(session.log),
    closed <- session.status \in {"COMPLETED", "CANCELLED"},
    discharged <- agent.mode = "gone"

\* Agents and server keep the promises of EvidenceLog.
KeepsEvidence == Evidence!Spec
=============================================================================
