---------------------------- MODULE CalendarSync ----------------------------
(***************************************************************************)
(* The connected Google calendars of an organization's members and one      *)
(* meeting that may be in several of them. Notifications, the half-hourly   *)
(* sweep and the members themselves ask for synchronizations; several may    *)
(* run at once, each of them reads its credentials, lists the calendar and   *)
(* applies the result in one transaction. Interviewers connect, disconnect and    *)
(* change calendars and Google withdraws its consent between any two of      *)
(* these steps; every call may fail and every process may die.               *)
(*                                                                         *)
(* A notification may come at any time, so late, lost and repeated ones are  *)
(* covered; a lock of five minutes may have run out whenever a job is        *)
(* claimed; a full synchronization may be due whenever one begins.           *)
(* Left out: meetings whose monitoring has started (InterviewLifecycle), the *)
(* legacy rows that are merged into canonical ones, calendars that two       *)
(* members select both, and back-off times.                                  *)
(***************************************************************************)
EXTENDS Naturals, FiniteSetsExt

CONSTANTS
    Interviewers,         \* whose calendars are synchronized here
    Colleagues,      \* who may have the meeting too, and keep it as it is
    Runs,            \* synchronizations at work at the same time
    MaxNow,          \* bound of the model on the clock
    MaxConnections   \* bound of the model on connections made and given up

ASSUME CalendarBoundsAssumption == MaxConnections \in Nat /\ MaxNow \in Nat \ {0}

ASSUME ColleaguesAssumption == Interviewers \intersect Colleagues = {}

ASSUME RunsAssumption == {"none", "free"} \intersect Runs = {}

VARIABLES
    now,           \* ticks whenever a calendar changes
    google,        \* the meeting in each member's own calendar
    integration,   \* the connection of each member
    job,           \* the queued synchronization of each member
    run,           \* what each synchronization at work holds
    begun,         \* of those that may still be applied, which began before which
    flow,          \* the members whose connection is still being made
    interview,     \* the interview that the meeting stands for, and who first had it
    sources        \* the members through whose calendar it is known

calendarVars == <<now, google, integration, job, run, begun, flow, interview, sources>>

Times == 0..MaxNow
NoJob == [lock |-> "none"]
Resting == [step |-> "idle"]

Copies == [state : {"absent", "eligible", "cancelled"}, at : Times]
Integrations == [status : {"NEW", "ACTIVE", "REAUTH_REQUIRED", "NOT_CONNECTED"},
                 generation : Nat, calendar : {"first", "second"},
                 token : Times]
SyncJobs == [generation : Nat, requested : Times, again : BOOLEAN,
         lock : Runs \union {"free"}]
Claims == [step : {"claimed", "complete", "fail"}, member : Interviewers, queued : BOOLEAN]
Begun == [step : {"list", "apply"}, member : Interviewers, queued : BOOLEAN, generation : Nat,
          calendar : {"first", "second"}, token : Times, started : Times, copy : Copies, listed : Times]

\* origin: in whose calendar the meeting was first found.
InterviewRows == [status : {"none", "live", "withdrawn"}, at : Times,
          origin : Interviewers \union Colleagues \union {"nobody"}]

\* The type invariant.
CalendarTypeOK ==
    /\ now \in Times
    /\ google \in [Interviewers -> Copies]
    /\ integration \in [Interviewers -> Integrations]
    /\ job \in [Interviewers -> SyncJobs \union {NoJob}]
    /\ run \in [Runs -> Claims \union Begun \union {Resting}]
    /\ begun \subseteq Runs \X Runs
    /\ flow \subseteq Interviewers
    /\ interview \in InterviewRows
    /\ sources \subseteq Interviewers \union Colleagues

Absent == [state |-> "absent", at |-> 0]

CalendarInit ==
    /\ now = 1
    /\ google = [i \in Interviewers |-> Absent]
    /\ integration = [i \in Interviewers |-> [status |-> "NEW", generation |-> 0, calendar |-> "first",
                                         token |-> 0]]
    /\ job = [i \in Interviewers |-> NoJob]
    /\ run = [r \in Runs |-> Resting] /\ begun = {}
    /\ flow = {}
    /\ interview = [status |-> "none", at |-> 0, origin |-> "nobody"] /\ sources = {}

Connected(i) == integration[i].status = "ACTIVE"
Connections == FoldSet(LAMBDA i, sum : sum + integration[i].generation, 0, Interviewers)
Withdrawn == [interview EXCEPT !.status = IF @ = "live" THEN "withdrawn" ELSE @]

\* Copies of the meeting are created or edited, or they are cancelled or made a
\* meeting that is no interview, at Google.
CalendarChanges(copies) ==
    /\ now < MaxNow /\ now' = now + 1
    /\ \E s \in {"eligible", "cancelled"} :
          google' = [i \in Interviewers |-> IF i \in copies THEN [state |-> s, at |-> now'] ELSE google[i]]
    /\ UNCHANGED <<integration, job, run, begun, flow, interview, sources>>

-----------------------------------------------------------------------------
\* Asking for a synchronization. A job that is being worked on is asked again.
Asked(i, generation) ==
    IF job[i] = NoJob
    THEN [generation |-> generation, requested |-> now, again |-> FALSE, lock |-> "free"]
    ELSE [job[i] EXCEPT !.requested = now, !.again = job[i].lock \in Runs]

EnqueueChannel(i) ==
    /\ Connected(i)
    /\ job' = [job EXCEPT ![i] = Asked(i, integration[i].generation)]
    /\ UNCHANGED <<now, google, integration, run, begun, flow, interview, sources>>

EnqueueStale(i) ==
    /\ Connected(i) /\ job[i] = NoJob
    /\ job' = [job EXCEPT ![i] = Asked(i, integration[i].generation)]
    /\ UNCHANGED <<now, google, integration, run, begun, flow, interview, sources>>

EnqueueById(i) ==
    LET g == integration[i].generation
    IN job' = IF ~Connected(i) THEN job
              ELSE [job EXCEPT ![i] = [Asked(i, g) EXCEPT !.generation = g,
                        !.lock = IF job[i] # NoJob /\ job[i].generation = g THEN @ ELSE "free",
                        !.again = @ /\ job[i].generation = g]]

-----------------------------------------------------------------------------
\* Seeded fault: the interview goes whoever else has it in his calendar.
DropInterview(i) ==
    /\ sources' = sources \ {i}
    /\ interview' = IF i \in sources THEN Withdrawn ELSE interview

\* Connections. Once one is not active any more, or is of another calendar, two
\* triggers withdraw interviews: one those known through it alone; the other those
\* first found in that calendar, whoever else has them, unless the candidate has
\* consented by then (InterviewLifecycle).
DropSource(i) ==
    /\ sources' = sources \ {i}
    /\ \E consented \in BOOLEAN :
          interview' =
            IF \/ i \in sources /\ sources' = {}
               \/ interview.origin = i /\ integration[i].calendar = "first" /\ ~consented
            THEN Withdrawn ELSE interview

Changes(i, calendar) == integration[i].status # "NEW" /\ integration[i].calendar # calendar

\* Of another calendar, nothing has been listed yet.
Reconnected(i, calendar) ==
    [status |-> "ACTIVE", generation |-> integration[i].generation + 1, calendar |-> calendar,
     token |-> IF Changes(i, calendar) THEN 0 ELSE integration[i].token]

UpsertIntegration(i, calendar) ==
    LET changed == Changes(i, calendar)
    IN /\ i \notin flow /\ Connections < MaxConnections
       /\ integration' = [integration EXCEPT ![i] = Reconnected(i, calendar)]
       /\ job' = IF changed THEN [job EXCEPT ![i] = NoJob] ELSE job
       /\ IF changed /\ Connected(i) THEN DropSource(i) ELSE UNCHANGED <<interview, sources>>
       /\ flow' = flow \union {i}
       /\ UNCHANGED <<now, google, run, begun>>

\* The second call of a connection; it may fail or never be made.
Finish(i) ==
    /\ i \in flow /\ flow' = flow \ {i}
    /\ EnqueueById(i) \/ UNCHANGED job
    /\ UNCHANGED <<now, google, integration, run, begun, interview, sources>>

\* By the member, or because the member is suspended or removed.
Disconnect(i) ==
    /\ integration[i].status \in {"ACTIVE", "REAUTH_REQUIRED"} /\ Connections < MaxConnections
    /\ integration' = [integration EXCEPT ![i].status = "NOT_CONNECTED", ![i].generation = @ + 1,
            ![i].token = 0]
    /\ job' = [job EXCEPT ![i] = NoJob]
    /\ IF Connected(i) THEN DropSource(i) ELSE UNCHANGED <<interview, sources>>
    /\ UNCHANGED <<now, google, run, begun, flow>>

\* Google refuses to renew the access: the connection has to be made again.
AccessRefused(i) ==
    /\ integration' = [integration EXCEPT ![i].status = "REAUTH_REQUIRED"]
    /\ DropSource(i)

\* So it may whenever a channel for notifications is renewed, replaced or given up.
TouchChannel(i) ==
    /\ Connected(i) /\ AccessRefused(i)
    /\ UNCHANGED <<now, google, job, run, begun, flow>>

-----------------------------------------------------------------------------
\* Those that may still be applied, and the order in which they began.
Applicable == {r \in Runs : <<r, r>> \in begun}
Without(gone) == {pair \in begun : pair[1] \notin gone /\ pair[2] \notin gone}

\* A synchronization: claimed from the queue or asked for by the member.
Stops(r) == run' = [run EXCEPT ![r] = Resting] /\ begun' = Without({r})
Proceeds(r, step) ==
    run' = [run EXCEPT ![r] = IF run[r].queued THEN [step |-> step, member |-> run[r].member, queued |-> TRUE]
                              ELSE Resting]

ClaimJob(r, i) ==
    /\ run[r] = Resting /\ job[i] # NoJob
    /\ job' = [job EXCEPT ![i].lock = r, ![i].again = FALSE]
    /\ run' = [run EXCEPT ![r] = [step |-> "claimed", member |-> i, queued |-> TRUE]]
    /\ UNCHANGED <<now, google, integration, begun, flow, interview, sources>>

\* Begins with the credentials of the moment.
Begins(r, i, queued) ==
    /\ Connected(i) /\ begun' = begun \union {<<q, r>> : q \in Applicable \union {r}}
    /\ run' = [run EXCEPT ![r] = [step |-> "list", member |-> i, queued |-> queued,
            generation |-> integration[i].generation, calendar |-> integration[i].calendar,
            token |-> integration[i].token, started |-> now, copy |-> Absent, listed |-> 0]]
    /\ UNCHANGED <<now, google, integration, job, flow, interview, sources>>

Sync(r, i) == run[r] = Resting /\ Begins(r, i, FALSE)

RunSyncJob(r) ==
    LET i == run[r].member
    IN /\ run[r].step = "claimed"
       /\ \/ Begins(r, i, TRUE)
          \/ /\ ~Connected(i) /\ Proceeds(r, "complete") /\ UNCHANGED begun
             /\ UNCHANGED <<now, google, integration, job, flow, interview, sources>>

\* The access has to be renewed first; the connection may be another one by then.
MarkReauth(r) ==
    LET i == run[r].member
    IN /\ run[r].step = "list" /\ Proceeds(r, "fail") /\ begun' = Without({r})
       /\ IF Connected(i) /\ integration[i].generation = run[r].generation
          THEN AccessRefused(i)
          ELSE UNCHANGED <<integration, interview, sources>>
       /\ UNCHANGED <<now, google, job, flow>>

\* Without a token that Google still knows, or once a day, the list is a full one.
Usable(r) == {0, run[r].token}

\* A full list may or may not hold a cancelled meeting.
ListEvents(r) ==
    LET copy == IF run[r].calendar = "first" THEN google[run[r].member] ELSE Absent
    IN /\ run[r].step = "list"
       /\ \E token \in Usable(r) :
            \E seen \in IF token > 0 THEN {IF copy.at > token THEN copy ELSE Absent}
                        ELSE IF copy.state = "cancelled" THEN {copy, Absent} ELSE {copy} :
                run' = [run EXCEPT ![r].step = "apply", ![r].token = token, ![r].copy = seen, ![r].listed = now]
       /\ UNCHANGED <<now, google, integration, job, begun, flow, interview, sources>>

-----------------------------------------------------------------------------
\* Seeded fault: any connection will do.
AppliesToAny(r) == Connected(run[r].member) /\ r \in Applicable

\* The transaction that applies a list: for the connection it was drawn up for, and
\* none that began later has been applied.
Applies(r) ==
    LET c == integration[run[r].member]
    IN /\ Connected(run[r].member)
       /\ c.generation = run[r].generation /\ c.calendar = run[r].calendar
       /\ r \in Applicable

\* Those that r overtakes, itself included, once it is applied.
Overtaken(r) == {q \in Runs : <<q, r>> \in begun /\ run[q].member = run[r].member}

\* A full list without a meeting that it should hold.
Missing(r) ==
    LET i == run[r].member
    IN /\ sources' = sources \ {i}
       /\ interview' = IF i \in sources /\ sources' = {} /\ interview.at <= run[r].started
                       THEN Withdrawn ELSE interview

\* A cancelled meeting, or one that is no interview any more.
Removed(r) ==
    LET i == run[r].member
        newer == run[r].copy.at >= interview.at
    IN /\ sources' = IF newer THEN sources \ {i} ELSE sources
       /\ interview' = IF newer /\ i \in sources /\ sources' = {}
                       THEN [interview EXCEPT !.status = "withdrawn", !.at = run[r].copy.at]
                       ELSE interview

\* Listed in i's calendar: a copy that is not older revives a withdrawn interview.
Found(i, at) ==
    /\ sources' = sources \union {i}
    /\ interview' =
         IF interview.status = "none" THEN [status |-> "live", at |-> at, origin |-> i]
         ELSE IF at >= interview.at THEN [interview EXCEPT !.status = "live", !.at = at]
         ELSE interview

Upsert(r) == Found(run[r].member, run[r].copy.at)

\* The calendar of a colleague is listed; his copy is as new as the interview.
FoundByColleague(k) ==
    /\ Found(k, interview.at)
    /\ UNCHANGED <<now, google, integration, job, run, begun, flow>>

ApplySync(r) ==
    LET i == run[r].member
    IN /\ run[r].step = "apply" /\ Proceeds(r, "complete")
       /\ begun' = IF Applies(r) THEN Without(Overtaken(r)) ELSE Without({r})
       /\ IF ~Applies(r) THEN UNCHANGED <<integration, interview, sources>>
          ELSE /\ CASE run[r].copy.state = "eligible" -> Upsert(r)
                    [] run[r].copy.state = "cancelled" -> Removed(r)
                    [] run[r].copy.state = "absent" /\ run[r].token = 0 -> Missing(r)
                    [] OTHER -> UNCHANGED <<interview, sources>>
               /\ integration' = [integration EXCEPT ![i].token = run[r].listed]
       /\ UNCHANGED <<now, google, job, flow>>

-----------------------------------------------------------------------------
HoldsJob(r) == run[r].queued /\ job[run[r].member] # NoJob /\ job[run[r].member].lock = r
FreedJob(j) == [j EXCEPT !.lock = "free", !.again = FALSE]

\* Seeded fault: the finished job is deleted although it was asked for again.
CompleteForGood(r) ==
    /\ run[r].step = "complete" /\ Stops(r)
    /\ job' = IF HoldsJob(r) THEN [job EXCEPT ![run[r].member] = NoJob] ELSE job
    /\ UNCHANGED <<now, google, integration, flow, interview, sources>>

CompleteSyncJob(r) ==
    LET i == run[r].member
    IN /\ run[r].step = "complete" /\ Stops(r)
       /\ job' = IF ~HoldsJob(r) THEN job
                 ELSE [job EXCEPT ![i] = IF job[i].again THEN FreedJob(@) ELSE NoJob]
       /\ UNCHANGED <<now, google, integration, flow, interview, sources>>

\* A call failed, in vain or after it took effect; or the process died and, before
\* the job is claimed again, its lock runs out.
FailSyncJob(r) ==
    LET i == run[r].member
    IN /\ run[r] # Resting /\ Stops(r)
       /\ job' = IF HoldsJob(r) THEN [job EXCEPT ![i] = FreedJob(@)] ELSE job
       /\ UNCHANGED <<now, google, integration, flow, interview, sources>>

CalendarNext ==
    \/ \E copies \in SUBSET Interviewers \ {{}} : CalendarChanges(copies)
    \/ \E i \in Interviewers :
          \/ EnqueueChannel(i) \/ EnqueueStale(i)
          \/ \E calendar \in {"first", "second"} : UpsertIntegration(i, calendar)
          \/ Finish(i)
          \/ Disconnect(i) \/ TouchChannel(i)
    \/ \E r \in Runs :
          \/ \E i \in Interviewers : ClaimJob(r, i) \/ Sync(r, i)
          \/ RunSyncJob(r) \/ MarkReauth(r) \/ ListEvents(r) \/ ApplySync(r)
          \/ CompleteSyncJob(r) \/ FailSyncJob(r)
    \/ \E k \in Colleagues : FoundByColleague(k)

CalendarSpec == CalendarInit /\ [][CalendarNext]_calendarVars

-----------------------------------------------------------------------------
\* A request for a synchronization is not lost: the job that it left goes away only
\* when a list drawn up after the request has been applied, however many runs,
\* notifications and members meet (or when its connection is given up).
RequestsAreServed ==
    [][\A i \in Interviewers :
        (job[i] # NoJob /\ job'[i] = NoJob /\ integration'[i].status = "ACTIVE"
            /\ integration'[i].generation = job[i].generation)
        => integration[i].token >= job[i].requested]_calendarVars

\* Nothing of a connection outlives it: an interview is known only through calendars
\* that are connected now, also when an old synchronization answers late.
SourcesAreConnected ==
    \A i \in sources \intersect Interviewers : Connected(i) /\ integration[i].calendar = "first"

\* An interview is withdrawn while somebody still has the meeting only when the
\* connection ends, or is of another calendar now, in whose calendar it was first
\* found: by no list, no cancellation and nobody else's connection.
SharedInterviewStays ==
    [][(interview.status = "live" /\ interview'.status = "withdrawn" /\ sources' # {})
        => LET i == interview.origin
           IN /\ i \in Interviewers /\ Connected(i) /\ integration[i].calendar = "first"
              /\ integration'[i].status # "ACTIVE" \/ integration'[i].calendar = "second"]_calendarVars
=============================================================================
