---------------------------- MODULE EmailOutbox ----------------------------
(***************************************************************************)
(* The three e-mail queues of the API and the deliveries at work on them.   *)
(* A row is claimed under a lease; the delivery asks whether the mail is    *)
(* still wanted, hands it to the SMTP server and completes the row. Calls    *)
(* to the database may fail before or after they take effect, the server    *)
(* may accept a mail and still answer with an error, and a process may die  *)
(* between any two steps. A notice that fails, also for the first time, is    *)
(* entered in the FailureLedger, whose recovery starts its attempts anew.    *)
(*                                                                         *)
(* A notification is mailed to several members of the organization: each has *)
(* a row of its own, and all of them share one entry, which is closed as soon *)
(* as one of them has got the mail.                                          *)
(*                                                                         *)
(* Back-off times are left out: a waiting row may be claimed at any time.   *)
(***************************************************************************)
EXTENDS FailureLedger, FiniteSets

CONSTANTS
    Mails,
    Deliveries,     \* mails in the hands of a process at the same time
    MaxAttempts,    \* claims of a row before it is given up
    ClaimBound,     \* bound of the model on the claims of a reminder
    Kinds,
    About           \* the notification that a notice is about

ASSUME AttemptsAssumption == MaxAttempts \in Nat \ {0} /\ ClaimBound \in Nat

ASSUME DeliveriesAssumption == IsFiniteSet(Deliveries)

\* Links of the account pages, links for candidates, notices to members of an
\* organization, and mails about sales leads.
ASSUME KindsAssumption == Kinds \subseteq {"link", "candidate", "notice", "reminder"}

ASSUME AboutAssumption == DOMAIN About = Mails

Notifications == {About[m] : m \in Mails}

VARIABLES
    outbox,       \* the rows of the three queues
    delivery,     \* what each delivery at work holds
    wanted,       \* the mails whose purpose still stands
    transmitted,  \* how often the SMTP server accepted each mail
    failure       \* the ledger's entry of each notification

vars == <<outbox, delivery, wanted, transmitted, failure>>

Rows == [kind : Kinds, status : {"none", "PENDING", "PROCESSING", "SENT", "FAILED", "CANCELLED"},
         attempts : Nat, leased : BOOLEAN]
Held == [mail : Mails, attempt : Nat, step : {"validate", "send", "complete", "fail"}]
Idle == [step |-> "idle"]

\* The type invariant.
TypeOK ==
    /\ outbox \in [Mails -> Rows]
    /\ delivery \in [Deliveries -> Held \union {Idle}]
    /\ wanted \subseteq Mails
    /\ transmitted \in [Mails -> Nat]
    /\ failure \in [Notifications -> Entries]

Init ==
    /\ outbox \in [Mails -> [kind : Kinds, status : {"none"}, attempts : {0}, leased : {FALSE}]]
    /\ delivery = [d \in Deliveries |-> Idle]
    /\ wanted = Mails
    /\ transmitted = [m \in Mails |-> 0]
    /\ failure = [n \in Notifications |-> Unfailed]

-----------------------------------------------------------------------------
Open(row) == row.status \in {"PENDING", "PROCESSING"}
Expired(row) == row.status = "PROCESSING" /\ ~row.leased
Exhausted(row) == row.attempts >= MaxAttempts

Queue(kind) == IF kind \in {"link", "candidate"} THEN "links" ELSE kind
Queues == {Queue(k) : k \in Kinds}

Closed(row, status) == [row EXCEPT !.status = status, !.leased = FALSE]

\* The rows of a notification, one for each recipient.
Copies(n) == {m \in Mails : outbox[m].kind = "notice" /\ About[m] = n}
Delivered(n) == \E m \in Copies(n) : outbox[m].status = "SENT"

Fanout(m) == IF outbox[m].kind = "notice" THEN Copies(About[m]) ELSE {m}

\* A service hands a mail to its queue.
Enqueue(m) ==
    /\ \A k \in Fanout(m) : outbox[k].status = "none"
    /\ outbox' = [k \in Mails |-> IF k \in Fanout(m) THEN [outbox[k] EXCEPT !.status = "PENDING"]
                                  ELSE outbox[k]]
    /\ UNCHANGED <<delivery, wanted, transmitted, failure>>

\* The candidate's verification, the member's right to a notice or the lead's
\* follow-up that the mail is about comes to an end.
Lapses(m) ==
    /\ Open(outbox[m]) /\ outbox[m].kind # "link" /\ m \in wanted
    /\ wanted' = wanted \ {m}
    /\ UNCHANGED <<outbox, delivery, transmitted, failure>>

\* A salesperson has done what the reminder is about: a waiting row is closed
\* at once, in whoever's hands it is.
CompleteFollowUp(m) ==
    /\ outbox[m].kind = "reminder" /\ outbox[m].status # "none" /\ m \in wanted
    /\ wanted' = wanted \ {m}
    /\ outbox' = IF Open(outbox[m]) THEN [outbox EXCEPT ![m] = Closed(@, "CANCELLED")] ELSE outbox
    /\ UNCHANGED <<delivery, transmitted, failure>>

\* The triggers on the rows of notices: what fails is entered, what succeeds
\* after a retry is resolved, for whichever recipient.
Observed ==
    LET Becomes(n, states) ==
            \E m \in Copies(n) : outbox'[m] # outbox[m] /\ outbox'[m].status \in states
    IN failure' = [n \in Notifications |->
           CASE Becomes(n, {"SENT"}) -> Resolved(failure[n])
             [] ~Becomes(n, {"SENT"}) /\ Becomes(n, {"PENDING", "FAILED"}) -> Captured(failure[n])
             [] OTHER -> failure[n]]

Anew(row) == IF row.status = "none" THEN row ELSE [Closed(row, "PENDING") EXCEPT !.attempts = 0]

\* The recovery of every minute closes the entry of a notification that somebody has
\* got. Otherwise it starts the attempts for every recipient anew, whoever is at work
\* on the rows, until the entry has had its chances.
RecoverNotice(n) ==
    /\ Due(failure[n])
    /\ \/ Delivered(n) /\ failure' = [failure EXCEPT ![n] = Closes(@)] /\ UNCHANGED outbox
       \/ /\ ~Delivered(n) /\ Hopeless(failure[n])
          /\ failure' = [failure EXCEPT ![n] = Buries(@)] /\ UNCHANGED outbox
       \/ /\ ~Delivered(n) /\ ~Hopeless(failure[n])
          /\ failure' = [failure EXCEPT ![n] = Retries(@)]
          /\ outbox' = [m \in Mails |-> IF m \in Copies(n) THEN Anew(outbox[m]) ELSE outbox[m]]
    /\ UNCHANGED <<delivery, wanted, transmitted>>

-----------------------------------------------------------------------------
\* Seeded fault: a claim never closes the row of a process that died last.
SweptLinkForgets(m) == outbox[m]

\* Seeded fault: an expired lease sends the row back to the queue, whatever its attempts.
SweptLinkReopens(m) ==
    IF Expired(outbox[m]) THEN Closed(outbox[m], "PENDING") ELSE outbox[m]

\* What a claim does first to the rows of its queue.
SweptLink(m) ==
    LET row == outbox[m] IN IF Expired(row) /\ Exhausted(row) THEN Closed(row, "FAILED") ELSE row

SweptNotice(m) ==
    LET row == outbox[m]
    IN IF Open(row) /\ (m \notin wanted \/ (Expired(row) /\ Exhausted(row)))
       THEN Closed(row, "FAILED") ELSE row

SweptReminder(m) ==
    LET row == outbox[m]
    IN IF Open(row) /\ m \notin wanted THEN Closed(row, "CANCELLED")
       ELSE IF Expired(row) THEN Closed(row, "PENDING") ELSE row

Swept(m) ==
    CASE Queue(outbox[m].kind) = "links" -> SweptLink(m)
      [] outbox[m].kind = "notice" -> SweptNotice(m)
      [] outbox[m].kind = "reminder" -> SweptReminder(m)

SweptOutbox(q) == [m \in Mails |-> IF Queue(outbox[m].kind) = q THEN Swept(m) ELSE outbox[m]]

Claimable(rows, q) ==
    {m \in Mails : /\ Queue(rows[m].kind) = q
                   /\ \/ rows[m].status = "PENDING"
                      \/ Expired(rows[m]) /\ ~Exhausted(rows[m])
                   /\ q = "reminder" => rows[m].attempts < ClaimBound}

\* Candidates come before the other links.
First(rows, q) ==
    LET open == Claimable(rows, q)
        urgent == {m \in open : rows[m].kind = "candidate"}
    IN IF urgent # {} THEN urgent ELSE open

Claim(d, q) ==
    LET rows == SweptOutbox(q)
    IN /\ delivery[d] = Idle
       /\ \/ \E m \in First(rows, q) :
                /\ outbox' = [rows EXCEPT ![m].status = "PROCESSING", ![m].leased = TRUE,
                                          ![m].attempts = @ + 1]
                /\ delivery' = [delivery EXCEPT ![d] =
                        [mail |-> m, attempt |-> rows[m].attempts + 1, step |-> "validate"]]
          \/ /\ First(rows, q) = {} /\ rows # outbox
             /\ outbox' = rows /\ UNCHANGED delivery
       /\ Observed /\ UNCHANGED <<wanted, transmitted>>

-----------------------------------------------------------------------------
\* The row is still in the hands of this delivery: every later call of it
\* names the mail and the attempt.
Current(d) ==
    /\ outbox[delivery[d].mail].status = "PROCESSING"
    /\ outbox[delivery[d].mail].attempts = delivery[d].attempt

At(d, step) == delivery[d].step = step
Goes(d, step) == delivery' = [delivery EXCEPT ![d].step = step]
Ends(d) == delivery' = [delivery EXCEPT ![d] = Idle]
\* The answer of a call that took effect may be lost: the catch block runs.
EndsOrLost(d) == Ends(d) \/ Goes(d, "fail")

\* How the row of a mail that is no longer wanted is closed.
Closings(kind) ==
    CASE kind = "candidate" -> {"SENT", "FAILED"}
      [] kind = "notice" -> {"FAILED"}
      [] kind = "reminder" -> {"CANCELLED"}
      [] OTHER -> {}

Validate(d) ==
    LET m == delivery[d].mail
    IN /\ At(d, "validate")
       /\ \/ ~Current(d) /\ EndsOrLost(d) /\ UNCHANGED outbox
          \/ /\ Current(d) /\ m \in wanted
             /\ Goes(d, "send") \/ Goes(d, "fail")
             /\ UNCHANGED outbox
          \/ /\ Current(d) /\ m \notin wanted
             /\ \E s \in Closings(outbox[m].kind) :
                   outbox' = [outbox EXCEPT ![m] = Closed(@, s)]
             /\ EndsOrLost(d)
       /\ Observed /\ UNCHANGED <<wanted, transmitted>>

\* The server takes the mail or not, and the answer may be an error all the same.
Send(d) ==
    /\ At(d, "send")
    /\ \/ /\ transmitted' = [transmitted EXCEPT ![delivery[d].mail] = @ + 1]
          /\ Goes(d, "complete") \/ Goes(d, "fail")
       \/ transmitted' = transmitted /\ Goes(d, "fail")
    /\ UNCHANGED <<outbox, wanted, failure>>

\* Seeded fault: the row is completed by whoever has just sent the mail.
CompleteAnyones(d) ==
    /\ At(d, "complete") /\ EndsOrLost(d)
    /\ outbox' = [outbox EXCEPT ![delivery[d].mail] = Closed(@, "SENT")]
    /\ Observed /\ UNCHANGED <<wanted, transmitted>>

Complete(d) ==
    LET m == delivery[d].mail
    IN /\ At(d, "complete")
       /\ outbox' = IF Current(d) THEN [outbox EXCEPT ![m] = Closed(@, "SENT")] ELSE outbox
       /\ EndsOrLost(d)
       /\ Observed /\ UNCHANGED <<wanted, transmitted>>

\* A call that never reached the database.
CallFails(d) ==
    /\ At(d, "validate") \/ At(d, "complete")
    /\ Goes(d, "fail")
    /\ UNCHANGED <<outbox, wanted, transmitted, failure>>

RecordFailure(d) ==
    LET m == delivery[d].mail
    IN /\ At(d, "fail")
       /\ \/ /\ Current(d)
             /\ outbox' = [outbox EXCEPT ![m] =
                    Closed(@, IF Exhausted(@) THEN "FAILED" ELSE "PENDING")]
          \/ UNCHANGED outbox
       /\ Ends(d)
       /\ Observed /\ UNCHANGED <<wanted, transmitted>>

\* While it works, a delivery of a link or a notice prolongs its lease, also
\* one that has run out, as long as nobody else has claimed the row.
Renew(d) ==
    /\ delivery[d] # Idle /\ Current(d) /\ outbox[delivery[d].mail].kind # "reminder"
    /\ outbox' = [outbox EXCEPT ![delivery[d].mail].leased = TRUE]
    /\ UNCHANGED <<delivery, wanted, transmitted, failure>>

LeaseExpires(m) ==
    /\ outbox[m].status = "PROCESSING" /\ outbox[m].leased
    /\ outbox' = [outbox EXCEPT ![m].leased = FALSE]
    /\ UNCHANGED <<delivery, wanted, transmitted, failure>>

Crash(d) == delivery[d] # Idle /\ Ends(d) /\ UNCHANGED <<outbox, wanted, transmitted, failure>>

Steps(d) == Validate(d) \/ Send(d) \/ Complete(d) \/ CallFails(d) \/ RecordFailure(d)
Holds(d, q) == delivery[d] # Idle /\ Queue(outbox[delivery[d].mail].kind) = q

DeliverClaimedMessage(d) == Holds(d, "links") /\ Steps(d)
DeliverNotification(d) == Holds(d, "notice") /\ Steps(d)
DeliverCommercial(d) == Holds(d, "reminder") /\ Steps(d)

Works(d) == DeliverClaimedMessage(d) \/ DeliverNotification(d) \/ DeliverCommercial(d)

Next ==
    \/ \E m \in Mails : Enqueue(m) \/ Lapses(m) \/ CompleteFollowUp(m) \/ LeaseExpires(m)
    \/ \E n \in Notifications : RecoverNotice(n)
    \/ \E d \in Deliveries, q \in Queues : Claim(d, q)
    \/ \E d \in Deliveries : Works(d) \/ Renew(d) \/ Crash(d)

\* The drain runs every two seconds or on the schedule of the host, a delivery
\* that is not killed goes on, and time passes. Nothing forces a call to
\* succeed or a process to live.
Fairness ==
    /\ \A d \in Deliveries : WF_vars(Works(d))
    /\ \A q \in Queues : WF_vars(\E d \in Deliveries : Claim(d, q))
    /\ \A m \in Mails : WF_vars(LeaseExpires(m))
    /\ \A n \in Notifications : WF_vars(RecoverNotice(n))

Spec == Init /\ [][Next]_vars /\ Fairness

-----------------------------------------------------------------------------
\* A failed notice may be tried again until the entry of its notification is dead or
\* another recipient has got it; nobody is told of the latter.
Final(m) == outbox[m].kind = "notice" => failure[About[m]].status = "DEAD" \/ Delivered(About[m])

\* What the queue says of a mail.
ReportOf(m) ==
    CASE outbox[m].status = "SENT" -> "sent"
      [] outbox[m].status = "CANCELLED" -> "given up"
      [] outbox[m].status = "FAILED" /\ Final(m) -> "given up"
      [] OTHER -> "open"

Chances(m) == IF outbox[m].kind = "notice" THEN failure[About[m]].chances ELSE 0

\* A link, a candidate's invitation or a notice is transmitted at most once per
\* claim, claimed at most MaxAttempts times, and started anew at most
\* MaxRecoveries times: whatever fails, crashes or overlaps, nobody's mailbox is
\* flooded. (Reminders have no such limit: an expired lease sends them back to
\* the queue however often they were claimed.)
TransmissionsBounded ==
    \A m \in Mails : outbox[m].kind # "reminder" =>
        /\ transmitted[m] <= outbox[m].attempts + MaxAttempts * Chances(m)
        /\ outbox[m].attempts <= MaxAttempts /\ Chances(m) <= MaxRecoveries

\* Every link, invitation and notice ends as sent or given up: the row of a
\* process that died in the last attempt is closed by a later claim, and a failed
\* notice is retried until it is sent, the entry of its notification is dead, or
\* another recipient has got the notification. In the last case its row stays FAILED
\* after as few as one round of attempts, and the entry says RESOLVED.
MailsSettle ==
    \A m \in Mails :
        (outbox[m].status = "PENDING" /\ outbox[m].kind # "reminder") ~> (ReportOf(m) # "open")

\* The queues keep what MailPromise says: above all, a mail is reported as sent
\* only when it was accepted for its recipient or is no longer wanted, and a
\* delivery that lost its lease can neither reopen nor close somebody else's row
\* for good.
Promise == INSTANCE MailPromise WITH
    posted <- {m \in Mails : outbox[m].status # "none"},
    unneeded <- Mails \ wanted,
    arrived <- {m \in Mails : transmitted[m] > 0},
    report <- [m \in Mails |-> ReportOf(m)]
KeepsPromise == Promise!MailSpec
=============================================================================
