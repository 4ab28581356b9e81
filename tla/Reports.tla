------------------------------ MODULE Reports ------------------------------
(***************************************************************************)
(* From the end of a meeting to its integrity report. A job of every minute *)
(* makes the reports that are due, within one transaction; what fails is     *)
(* tried again, then given up and entered in the FailureLedger, whose        *)
(* recovery may start it anew.                                              *)
(*                                                                         *)
(* One interview stands for all. Back-off times are left out, and so is the  *)
(* content of the report: making it succeeds or fails.                      *)
(***************************************************************************)
EXTENDS FailureLedger

CONSTANT ReportAttempts   \* attempts before an interview is FAILED

ASSUME ReportAttemptsAssumption == ReportAttempts \in Nat \ {0}

VARIABLE report   \* the interview's status, its job and its entry in the ledger

Reports ==
    [interview : {"MONITORING_ACTIVE", "MEETING_COMPLETED", "REPORT_PROCESSING", "REPORT_READY", "FAILED"},
     job : {"none", "PENDING", "FAILED", "COMPLETED"},
     attempts : 0..ReportAttempts,
     failure : Entries]

ReportInit ==
    report = [interview |-> "MONITORING_ACTIVE", job |-> "none", attempts |-> 0, failure |-> Unfailed]

\* Whoever ends the monitoring completes the meeting, and a trigger enqueues
\* its job.
CompleteMeeting ==
    /\ report.interview = "MONITORING_ACTIVE"
    /\ report' = [report EXCEPT !.interview = "MEETING_COMPLETED", !.job = "PENDING"]

-----------------------------------------------------------------------------
\* An attempt begins: the status moves on also if the attempt fails later.
Attempted(r) ==
    [r EXCEPT !.attempts = @ + 1, !.interview = IF @ = "MEETING_COMPLETED" THEN "REPORT_PROCESSING" ELSE @]

Generated(r) ==
    [r EXCEPT !.interview = "REPORT_READY", !.job = "COMPLETED", !.failure = Resolved(@)]

\* Seeded fault: only the job knows that it was the last attempt.
FailedQuietly(r) == [r EXCEPT !.job = "FAILED", !.failure = Captured(@)]

\* After the last attempt a trigger closes the interview as well.
Failed(r) ==
    [r EXCEPT !.job = "FAILED", !.failure = Captured(@),
              !.interview = IF r.attempts >= ReportAttempts THEN "FAILED" ELSE @]

ProcessReports ==
    /\ report.job \in {"PENDING", "FAILED"} /\ report.attempts < ReportAttempts
    /\ report' \in {Generated(Attempted(report)), Failed(Attempted(report))}

-----------------------------------------------------------------------------
\* Only an interview that has failed, or still waits for its first attempt,
\* can be started anew.
Reschedulable(r) == r.interview \in {"FAILED", "MEETING_COMPLETED"}

Restarted(r) ==
    [r EXCEPT !.interview = "MEETING_COMPLETED", !.job = "PENDING", !.attempts = 0, !.failure = Retries(@)]

Recovered(r) ==
    CASE ~Due(r.failure) -> r
      [] Due(r.failure) /\ r.interview = "REPORT_READY" -> [r EXCEPT !.failure = Closes(@)]
      [] Due(r.failure) /\ Reschedulable(r) /\ ~Hopeless(r.failure) -> Restarted(r)
      [] OTHER -> [r EXCEPT !.failure = Buries(@)]

Requeued(r) ==
    IF r.job = "FAILED" /\ r.attempts < ReportAttempts
    THEN [r EXCEPT !.job = "PENDING", !.failure = Captured(@)] ELSE r

RecoverReports ==
    /\ report' = Requeued(Recovered(report))
    /\ report' # report

ReportNext == CompleteMeeting \/ ProcessReports \/ RecoverReports

\* Both jobs are called every minute.
ReportFairness == WF_report(ProcessReports) /\ WF_report(RecoverReports)

-----------------------------------------------------------------------------
\* Every completed meeting gets its report, or is visibly FAILED with an entry
\* that no job will look at again: no interview waits in REPORT_PROCESSING for
\* an attempt that never comes.
ReportsSettle ==
    (report.interview = "MEETING_COMPLETED") ~>
        \/ report.interview = "REPORT_READY"
        \/ report.interview = "FAILED" /\ report.failure.status = "DEAD"
=============================================================================
