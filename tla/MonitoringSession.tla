------------------------- MODULE MonitoringSession -------------------------
(***************************************************************************)
(* One verification session on the server, from the consent to the final   *)
(* coverage (infrastructure/postgres 034-036; each operator is one function *)
(* or trigger).  The record session joins the rows of the session:          *)
(*   verification_sessions     status, health, started, ended, reason,      *)
(*                             coverage                                     *)
(*   monitoring_interruptions  open (at most one), gaps (the closed ones)   *)
(*   agent_heartbeats          beats: when they were received               *)
(*   telemetry_events          log                                          *)
(*                                                                         *)
(* Time is counted in the five seconds of a heartbeat; the clocks of server *)
(* and agent agree.  Events carry their number in the hash chain (n), their *)
(* type and the time of the agent when they were made (at); signature and   *)
(* hashes of an honest agent are as good as the number.                     *)
(***************************************************************************)
EXTENDS Integers, Sequences, SequencesExt

CONSTANTS
    Start,   \* eligible_start
    End,     \* eligible_end
    Grace,   \* delivery grace after the end (five minutes in the code)
    Latest   \* bound: when time stops

VARIABLES
    now,     \* the clock
    session  \* the rows of the session

Beat == 1      \* a missed heartbeat counts from five seconds after the last
Silence == 2   \* and is noticed ten seconds after it

ASSUME TimesAssumption ==
    /\ Start \in Nat /\ End \in Nat /\ Grace \in Nat /\ Latest \in Nat
    /\ Start < End /\ End + Grace < Latest

-----------------------------------------------------------------------------
(* Types *)

Times == 0..Latest
NoTime == -1
NoGap == [from |-> NoTime, why |-> "NONE"]

EventTypes == {"MONITORING_STARTED", "MONITORING_STOPPED", "HEARTBEAT",
               "UNHEALTHY",   \* browser evidence missing or not verified
               "HEALTHY",     \* the browser profile is verified again
               "EVIDENCE"}    \* everything else

Event == [n: Nat, type: EventTypes, at: Times]

Session == [
    status: {"CONSENTED", "MONITORING_ACTIVE", "COMPLETED", "CANCELLED"},
    health: {"PENDING", "ACTIVE", "INTERRUPTED", "COMPLETED"},
    started: Times \cup {NoTime}, ended: Times \cup {NoTime},
    reason: {"NONE", "AGENT", "USER", "AUTHORIZED_WINDOW_ENDED"},
    coverage: (0..100) \cup {NoTime},
    open: [from: Times, why: {"HEARTBEAT_MISSED", "BROWSER"}] \cup {NoGap},
    gaps: Seq([from: Times, to: Times]),
    beats: SUBSET Times,
    log: Seq(Event)]

Consented == [status |-> "CONSENTED", health |-> "PENDING", started |-> NoTime,
              ended |-> NoTime, reason |-> "NONE", coverage |-> NoTime,
              open |-> NoGap, gaps |-> <<>>, beats |-> {}, log |-> <<>>]

Active(s) == s.status = "MONITORING_ACTIVE"

LEAST(a, b) == IF a <= b THEN a ELSE b
GREATEST(a, b) == IF a >= b THEN a ELSE b

-----------------------------------------------------------------------------
(* Interruptions, coverage and the end of monitoring *)

CloseGap(s, at) ==
    [s EXCEPT !.gaps = Append(@, [from |-> s.open.from, to |-> at]),
              !.open = NoGap]

\* Interruptions are clipped to the monitored time and added up.
Interrupted(gaps, started, ending) ==
    FoldSeq(LAMBDA g, sum :
                IF g.from < ending /\ g.to > started
                THEN sum + LEAST(g.to, ending) - GREATEST(g.from, started)
                ELSE sum,
            0, gaps)

Coverage(gaps, started, ending) ==
    IF ending <= started THEN 0
    ELSE GREATEST(0, (100 * (ending - started - Interrupted(gaps, started, ending)))
                         \div (ending - started))

\* Seeded fault: an end before the start is taken as it is.
EndingAsTold(s, requested) == LEAST(requested, End)

EndingAt(s, requested) == GREATEST(LEAST(requested, End), s.started)

\* CHECK (ended_at >= started_at) fails: the transaction is rolled back.
FinishAborts(s, requested) ==
    s.open # NoGap /\ EndingAt(s, requested) < s.open.from

Finish(s, requested, why) ==
    LET ending == EndingAt(s, requested)
        closed == IF s.open = NoGap THEN s ELSE CloseGap(s, ending)
    IN  [closed EXCEPT !.status = "COMPLETED", !.health = "COMPLETED", !.ended = ending,
                       !.coverage = Coverage(closed.gaps, s.started, ending),
                       !.reason = why]

-----------------------------------------------------------------------------
(* The triggers of an inserted event *)

OnHeartbeat(s) ==
    LET heard == [s EXCEPT !.beats = @ \cup {now}] IN
    IF s.open.why = "HEARTBEAT_MISSED"
    THEN [CloseGap(heard, now) EXCEPT !.health = "ACTIVE"]
    ELSE heard

\* A browser failure takes over the open interruption, or opens one.
OnUnhealthy(s, at) ==
    [s EXCEPT !.open = [from |-> IF @ = NoGap THEN at ELSE LEAST(@.from, at),
                        why |-> "BROWSER"],
              !.health = "INTERRUPTED"]

\* Seeded fault: the recovered browser restores the health even in silence.
OnHealthyAlways(s, at) ==
    [s EXCEPT !.health = "ACTIVE"]

\* Was the device silent when the event was made, as far as was heard by then?
QuietAt(s, at) == \A b \in s.beats : b <= at => at >= b + Silence

OnHealthy(s, at) ==
    IF QuietAt(s, at)
    THEN IF s.open = NoGap THEN s ELSE [s EXCEPT !.open.why = "HEARTBEAT_MISSED"]
    ELSE LET closed == IF s.open.why = "BROWSER" THEN CloseGap(s, at) ELSE s
         IN  IF closed.open = NoGap THEN [closed EXCEPT !.health = "ACTIVE"] ELSE closed

-----------------------------------------------------------------------------
(* authenti8_ingest_agent_event *)

Replayed(s, e) == e \in Range(s.log)

OutsideWindow(e) ==
    \/ e.at < Start
    \/ e.at > IF e.type = "MONITORING_STOPPED" THEN End + Grace ELSE End
    \/ e.at > now + Grace

\* Seeded fault: the status of the session is not looked at.
RefusedByOrder(s, e) ==
    \/ now > End + Grace
    \/ OutsideWindow(e)
    \/ e.n # Len(s.log)
    \/ s.log = <<>> /\ e.type # "MONITORING_STARTED"
    \/ s.log # <<>> /\ e.type = "MONITORING_STARTED"

Refused(s, e) ==
    \/ s.status \notin {"CONSENTED", "MONITORING_ACTIVE"}              \* NOT_AUTHORIZED
    \/ now > End /\ ~Active(s)
    \/ now > End + Grace
    \/ OutsideWindow(e)                                         \* EVENT_OUTSIDE_WINDOW
    \/ e.n # Len(s.log)                                             \* INVALID_SEQUENCE
    \/ s.log = <<>> /\ (e.type # "MONITORING_STARTED" \/ s.status # "CONSENTED")
    \/ s.log # <<>> /\ (~Active(s) \/ e.type = "MONITORING_STARTED")

Aborts(s, e) == e.type = "MONITORING_STOPPED" /\ FinishAborts(s, e.at)

\* The event is inserted and its triggers run.
Record(s, e) ==
    LET kept == [s EXCEPT !.log = Append(@, e)] IN
    CASE e.type = "MONITORING_STARTED" ->
             [kept EXCEPT !.status = "MONITORING_ACTIVE", !.started = now, !.health = "ACTIVE"]
      [] e.type = "MONITORING_STOPPED" -> Finish(kept, e.at, "AGENT")
      [] e.type = "HEARTBEAT" -> OnHeartbeat(kept)
      [] e.type = "UNHEALTHY" -> OnUnhealthy(kept, e.at)
      [] e.type = "HEALTHY" -> OnHealthy(kept, e.at)
      [] e.type = "EVIDENCE" -> kept

\* The server answers that it has the event: it is new and is recorded, or it
\* is an exact replay.  That the credit can be consumed is up to the environment.
Ingest(e) ==
    \/ Replayed(session, e) /\ UNCHANGED session
    \/ /\ ~Replayed(session, e) /\ ~Refused(session, e) /\ ~Aborts(session, e)
       /\ session' = Record(session, e)

-----------------------------------------------------------------------------
(* authenti8_orchestrate_monitoring, the users, and the clock *)

LastSeen(s) ==
    IF s.beats = {} THEN s.started
    ELSE CHOOSE b \in s.beats : \A c \in s.beats : c <= b

\* A silent device opens an interruption, unless one is open.
Watch(s) ==
    IF /\ now >= LastSeen(s) + Silence
       /\ s.open = NoGap
       /\ LastSeen(s) + Beat < End
    THEN [s EXCEPT !.open = [from |-> LastSeen(s) + Beat, why |-> "HEARTBEAT_MISSED"],
                   !.health = "INTERRUPTED"]
    ELSE s

\* Seeded fault: an interrupted session is not ended.
OrchestrateHealthy ==
    /\ Active(session)
    /\ session' = IF now >= End /\ session.open = NoGap
                  THEN Finish(Watch(session), End, "AUTHORIZED_WINDOW_ENDED")
                  ELSE Watch(session)
    /\ UNCHANGED now

Orchestrate ==
    /\ Active(session)
    /\ session' = IF now >= End
                  THEN Finish(Watch(session), End, "AUTHORIZED_WINDOW_ENDED")
                  ELSE Watch(session)
    /\ UNCHANGED now

\* Seeded fault: a second click ends the session a second time.
EndAgain ==
    /\ session.status \in {"MONITORING_ACTIVE", "COMPLETED"}
    /\ session' = Finish(session, now, "USER")
    /\ UNCHANGED now

\* The candidate or the recruiter ends monitoring in the browser.
EndByUser ==
    /\ Active(session)
    /\ session' = Finish(session, now, "USER")
    /\ UNCHANGED now

\* The workspace endpoint consumes the credit without the agent.
StartFromWorkspace ==
    /\ session.status = "CONSENTED" /\ now \in Start..End
    /\ session' = [session EXCEPT !.status = "MONITORING_ACTIVE", !.started = now]
    /\ UNCHANGED now

\* The verification expires, or its interview is cancelled or returned.
Withdraw ==
    /\ session.status = "CONSENTED"
    /\ session' = [session EXCEPT !.status = "CANCELLED", !.ended = now]
    /\ UNCHANGED now

\* The report recalculates the coverage and stores it.
Report ==
    /\ session.status = "COMPLETED"
    /\ session' = [session EXCEPT !.coverage =
                       Coverage(session.gaps, session.started, session.ended)]
    /\ UNCHANGED now

Tick == now < Latest /\ now' = now + 1 /\ UNCHANGED session

ServerInit == now = 0 /\ session = Consented

ServerNext ==
    Orchestrate \/ EndByUser \/ StartFromWorkspace \/ Withdraw \/ Report \/ Tick

-----------------------------------------------------------------------------
(* Properties *)

\* The type invariant.
ServerTypeOK == now \in Times /\ session \in Session

\* The health shown to the recruiter agrees with the interruptions: red exactly
\* while one is open, none left open at the end.  Heartbeats, browser evidence
\* and the cron each open, take over and close them (036:416, 036:435, 035:132).
HealthMatchesGaps ==
    /\ Active(session) => (session.health = "INTERRUPTED" <=> session.open # NoGap)
    /\ session.status = "COMPLETED" => session.open = NoGap

\* The final account: monitoring lies inside the consented window, and the
\* coverage told to the customer is the one the interruptions imply, at the end
\* (035:67) as in the report (038:180).
FinalAccount ==
    session.status = "COMPLETED" =>
        /\ session.started \in Start..End
        /\ session.ended \in session.started..End
        /\ session.coverage = Coverage(session.gaps, session.started, session.ended)
        /\ \A k \in 1..Len(session.gaps) : session.gaps[k].from <= session.gaps[k].to

\* A closed session stays as it is: late events, the cron, users and the report
\* change nothing any more (034:29-34, 035:55-63).
NothingAfterTheEnd ==
    [][session.status \in {"COMPLETED", "CANCELLED"} => UNCHANGED session]_session
=============================================================================
