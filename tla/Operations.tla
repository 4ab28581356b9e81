---------------------------- MODULE Operations -----------------------------
(***************************************************************************)
(* The queues behind the API and the job that recovers them: EmailOutbox    *)
(* and Reports. Their rows are disjoint, also in the ledger of failures, so  *)
(* an interleaving of the two shows nothing that each alone does not; a      *)
(* behaviour of this module is one of the mails or one of the reports.      *)
(***************************************************************************)
EXTENDS EmailOutbox, Reports

OperationsInit == Init /\ ReportInit

NothingPosted == \A m \in Mails : outbox[m].status = "none"

OperationsNext ==
    \/ report.job = "none" /\ Next /\ UNCHANGED report
    \/ NothingPosted /\ ReportNext /\ UNCHANGED vars

OperationsSpec ==
    /\ OperationsInit /\ [][OperationsNext]_<<vars, report>>
    /\ Fairness /\ ReportFairness

\* The type invariant of both.
OperationsTypeOK == TypeOK /\ report \in Reports
=============================================================================
