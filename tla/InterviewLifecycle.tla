------------------------- MODULE InterviewLifecycle -------------------------
(***************************************************************************)
(* The interviews of one organization, from calendar discovery to the end  *)
(* of monitoring, with the credit reservations that pay for them.          *)
(*                                                                         *)
(* The code is the SQL of infrastructure/postgres (each RPC function is    *)
(* one transaction) and the delivery worker of interview-lifecycle.        *)
(* service.ts.  One row of iv joins the tables keyed by the interview:     *)
(*   interviews                     status, protection, phase              *)
(*   credit_reservations            resv, reason                           *)
(*   verification_delivery_jobs     job, attempts, owner, leased, stale    *)
(*   candidate_verification_tokens  token  (an unconsumed one exists)      *)
(*   auth_email_outbox              mail   (an undelivered one exists)     *)
(*   verification_sessions          consented (sessions not yet started)   *)
(*                                                                         *)
(* Time is the position of now() relative to the CURRENT schedule:         *)
(*   far   more than 7 days before the start                               *)
(*   soon  within 7 days, before start - 15 min                            *)
(*   near  from start - 15 min, before start - 1 min                       *)
(*   live  from start - 1 min, before the end                              *)
(*   grace from the end, before end + 30 min          over  from then on   *)
(***************************************************************************)
EXTENDS Integers, FiniteSets

CONSTANTS
    Interviews,   \* ids of the calendar events of the organization
    Workers,      \* concurrent drains of the verification delivery queue
    NoWorker,     \* claim_token IS NULL
    MaxAttempts,  \* delivery attempts before a job fails (5 in the code)
    Allowance,    \* credits granted at the first use of a period
    MaxExtra,     \* bound: |purchased - refunded - consumed extra credits|
    MaxChanges,   \* bound: calendar, billing and manual changes
    Slots         \* bound: phases in which a new schedule places an interview

VARIABLES
    iv,       \* the rows of every interview
    bank,     \* subscription state and credit ledger
    seen,     \* rows a running orchestrator has read and not yet acted upon
    claim,    \* delivery claims the workers hold in memory
    changes   \* environment changes so far (bounded by MaxChanges)

vars == <<iv, bank, seen, claim, changes>>

-----------------------------------------------------------------------------
(* Types *)

Statuses == {"ABSENT", "DETECTED", "PROTECTED", "VERIFICATION_SCHEDULED",
    "CONSENT_PENDING", "DEVICE_CONNECTING", "MONITORING_ACTIVE",
    "MEETING_COMPLETED", "CONSENT_DECLINED", "UNABLE_TO_VERIFY", "NO_CREDITS",
    "SUBSCRIPTION_INACTIVE", "CANCELLED", "EXCLUDED"}

Phases == {"far", "soon", "near", "live", "grace", "over"}

Protections == {"PENDING", "RESERVED", "CONSUMED", "RELEASED",
    "UNPROTECTED_NO_CREDITS", "UNPROTECTED_SUBSCRIPTION"}

ASSUME ConstantsAssumption ==
    /\ Interviews \subseteq Nat /\ IsFiniteSet(Interviews)
    /\ NoWorker \notin Workers
    /\ MaxAttempts \in Nat \ {0}
    /\ Allowance \in Nat
    /\ MaxExtra \in Nat
    /\ MaxChanges \in Nat
    /\ Slots \subseteq Phases

Row == [status: Statuses, phase: Phases, protection: Protections,
        resv: {"NONE", "RESERVED", "CONSUMED", "RELEASED"},
        reason: {"NONE", "MANUAL", "ENTITLEMENT", "INELIGIBLE"},
        job: {"NONE", "PENDING", "PROCESSING", "COMPLETED", "CANCELLED", "FAILED"},
        attempts: 0..MaxAttempts, owner: Workers \cup {NoWorker},
        leased: BOOLEAN, stale: BOOLEAN,
        token: BOOLEAN, mail: BOOLEAN, consented: Nat]

Bank == [active: BOOLEAN, granted: BOOLEAN, allowance: Int, extra: Int]

\* What the orchestrator's cursor returned for one interview; moved records
\* that the schedule changed after the row was read.
Snapshot == [interview: Interviews, status: Statuses, protection: Protections,
             active: BOOLEAN, far: BOOLEAN, moved: BOOLEAN]

\* A delivery worker's claim; answered once its completion call has returned
\* an error, which leaves only the failure call to make.
Claim == [worker: Workers, interview: Interviews, attempts: 0..MaxAttempts,
          answered: BOOLEAN]

\* The type invariant: in particular the attempt counter of a job never passes
\* the retry limit, whatever claims, lease expiries and failures do.
TypeOK ==
    /\ iv \in [Interviews -> Row]
    /\ bank \in Bank
    /\ seen \subseteq Snapshot
    /\ claim \subseteq Claim
    /\ changes \in 0..MaxChanges

NoRow == [status |-> "ABSENT", phase |-> "far", protection |-> "PENDING",
          resv |-> "NONE", reason |-> "NONE", job |-> "NONE", attempts |-> 0,
          owner |-> NoWorker, leased |-> FALSE, stale |-> FALSE,
          token |-> FALSE, mail |-> FALSE, consented |-> 0]

-----------------------------------------------------------------------------
(* Sets of statuses the SQL names *)

BeforeMonitoring == {"DETECTED", "PROTECTED", "VERIFICATION_SCHEDULED",
                     "CONSENT_PENDING", "DEVICE_CONNECTING"}
Verifying == {"VERIFICATION_SCHEDULED", "CONSENT_PENDING", "DEVICE_CONNECTING"}
Started == {"MONITORING_ACTIVE", "MEETING_COMPLETED"}
Withdrawable == BeforeMonitoring \cup {"CANCELLED", "EXCLUDED", "NO_CREDITS",
                     "SUBSCRIPTION_INACTIVE", "UNABLE_TO_VERIFY"}

Ended(r) == r.phase \in {"grace", "over"}       \* scheduled_end <= now()
DeliveryTime(r) == r.phase \in {"live", "grace", "over"}
MonitoringWindow(r) == r.phase \in {"near", "live", "grace"}

-----------------------------------------------------------------------------
(* The credit ledger *)

Balance(b) == b.allowance + b.extra
Entitlement(b) == IF b.active /\ Balance(b) > 0 THEN Balance(b) ELSE 0
Reserved(rows) == {i \in Interviews : rows[i].resv = "RESERVED"}

\* Seeded fault: outstanding reservations are not subtracted.
UnreservedBalance(rows, b) == IF Balance(b) > 0 THEN Balance(b) ELSE 0

Available(rows, b) ==
    IF Balance(b) > Cardinality(Reserved(rows))
    THEN Balance(b) - Cardinality(Reserved(rows)) ELSE 0

\* authenti8_ensure_allowance: grant the period's allowance once.
EnsureAllowance(b) ==
    IF b.active /\ ~b.granted
    THEN [b EXCEPT !.granted = TRUE, !.allowance = @ + Allowance] ELSE b

\* Seeded fault: the WHERE status = 'RESERVED' is forgotten.
ReleaseAny(r, why) ==
    IF r.resv # "NONE" THEN [r EXCEPT !.resv = "RELEASED", !.reason = why] ELSE r

\* Every RELEASE is an UPDATE ... WHERE status = 'RESERVED'.
Release(r, why) ==
    IF r.resv = "RESERVED" THEN [r EXCEPT !.resv = "RELEASED", !.reason = why] ELSE r

ManuallyReleased(r) == r.resv = "RELEASED" /\ r.reason = "MANUAL"

\* Does authenti8_reserve_credit get as far as ensure_allowance?
Reservable(r, b) ==
    r.status = "DETECTED" /\ ~ManuallyReleased(r) /\ ~Ended(r) /\ b.active

\* authenti8_reserve_credit on a row of rows, for an interview whose
\* responsible member is an owner or manager (no HR wallet).
Reserve(rows, b, i) ==
    LET r == rows[i] IN
    CASE r.status # "DETECTED" -> r
      [] r.status = "DETECTED" /\ ManuallyReleased(r) ->
            [r EXCEPT !.protection = "RELEASED"]
      [] r.status = "DETECTED" /\ ~ManuallyReleased(r) /\ Ended(r) -> r
      [] r.status = "DETECTED" /\ ~ManuallyReleased(r) /\ ~Ended(r) /\ ~b.active ->
            [r EXCEPT !.protection = "UNPROTECTED_SUBSCRIPTION"]
      [] Reservable(r, b) /\ r.resv \in {"RESERVED", "CONSUMED"} -> r
      [] OTHER ->
            IF Available(rows, EnsureAllowance(b)) = 0
            THEN [r EXCEPT !.protection = "UNPROTECTED_NO_CREDITS"]
            ELSE [r EXCEPT !.resv = "RESERVED", !.reason = "NONE",
                           !.protection = "RESERVED"]

-----------------------------------------------------------------------------
(* Row transformers shared by the operations *)

Unprotect(r) ==
    IF r.protection = "RESERVED" THEN [r EXCEPT !.protection = "RELEASED"] ELSE r

CancelJob(r) ==
    IF r.job \in {"PENDING", "PROCESSING"}
    THEN [r EXCEPT !.job = "CANCELLED", !.owner = NoWorker, !.leased = FALSE] ELSE r

\* Seeded fault: the candidate's consented session survives the expiry.
ExpireKeepingSession(r) ==
    [Unprotect(Release(CancelJob(r), "INELIGIBLE")) EXCEPT
        !.status = "UNABLE_TO_VERIFY", !.token = FALSE, !.mail = FALSE]

\* authenti8_expire_verification, on a row whose status is Verifying.
Expire(r) ==
    [Unprotect(Release(CancelJob(r), "INELIGIBLE")) EXCEPT
        !.status = "UNABLE_TO_VERIFY", !.token = FALSE, !.mail = FALSE, !.consented = 0]

\* Seeded fault: the delivery job of the old schedule is kept.
CleanupKeepingJob(r, to) ==
    IF r.status = to THEN r
    ELSE [r EXCEPT !.status = to, !.token = FALSE, !.mail = FALSE, !.consented = 0]

\* Seeded fault: the old verification link stays usable.
CleanupKeepingLink(r, to) ==
    IF r.status = to THEN r
    ELSE [r EXCEPT !.status = to, !.job = "NONE", !.attempts = 0,
                   !.owner = NoWorker, !.leased = FALSE, !.stale = FALSE,
                   !.mail = FALSE, !.consented = 0]

\* The BEFORE UPDATE trigger calendar_lifecycle_cleanup, for a status change to
\* DETECTED, CANCELLED or EXCLUDED.
Cleanup(r, to) ==
    IF r.status = to THEN r
    ELSE [r EXCEPT !.status = to, !.job = "NONE", !.attempts = 0,
                   !.owner = NoWorker, !.leased = FALSE, !.stale = FALSE,
                   !.token = FALSE, !.mail = FALSE, !.consented = 0]

\* Seeded fault: a delivery in progress survives a new schedule.
RescheduleKeepingClaim(r) == r

\* The same trigger, for a new schedule of a VERIFICATION_SCHEDULED interview.
RescheduleJob(r) ==
    IF r.status = "VERIFICATION_SCHEDULED" /\ r.job # "COMPLETED"
    THEN [r EXCEPT !.job = "PENDING", !.attempts = 0, !.owner = NoWorker,
                   !.leased = FALSE, !.stale = FALSE]
    ELSE r

\* The AFTER UPDATE OF status, schedule trigger interview_credit_trigger.
CreditTrigger(rows, b, i) ==
    LET r == rows[i] IN
    CASE r.status = "DETECTED" /\ ~Ended(r) -> Reserve(rows, b, i)
      [] (r.status = "DETECTED" /\ Ended(r)) \/ r.status \in {"CANCELLED", "EXCLUDED"} ->
            [Release(r, "INELIGIBLE") EXCEPT !.protection = "RELEASED"]
      [] OTHER -> r

With(rows, i, r) == [rows EXCEPT ![i] = r]

-----------------------------------------------------------------------------
(* authenti8_reconcile_entitlement *)

Protectable(r) == r.status \in BeforeMonitoring /\ r.phase # "over"

PhaseIndex == [far |-> 0, soon |-> 1, near |-> 2, live |-> 3, grace |-> 4, over |-> 5]

\* ORDER BY scheduled_start, id: the phases order the starts of interviews of
\* equal length, and within a phase they start in the order of their ids.
StartsBefore(rows, i, j) ==
    \/ PhaseIndex[rows[i].phase] > PhaseIndex[rows[j].phase]
    \/ rows[i].phase = rows[j].phase /\ i < j

\* ORDER BY status = 'DETECTED', scheduled_start, id.
Outranks(rows, i, j) ==
    LET waits(k) == rows[k].status = "DETECTED" IN
    \/ ~waits(i) /\ waits(j)
    \/ (waits(i) <=> waits(j)) /\ StartsBefore(rows, i, j)

\* The interviews that the entitlement covers.
Desired(rows, ent) ==
    LET open == {i \in Interviews : Protectable(rows[i])} IN
    {i \in open : Cardinality({j \in open : Outranks(rows, j, i)}) < ent}

\* Seeded fault: verifications that lost their reservation are left running.
TrimOnly(rows, D) ==
    [i \in Interviews |-> IF i \in D THEN rows[i] ELSE Release(rows[i], "ENTITLEMENT")]

\* Reservations outside the entitlement are released, and verifications left
\* without one are expired.
Trim(rows, D) ==
    [i \in Interviews |->
        LET r == IF i \in D THEN rows[i] ELSE Release(rows[i], "ENTITLEMENT") IN
        IF r.status \in Verifying /\ r.resv \notin {"RESERVED", "CONSUMED"}
        THEN Expire(r) ELSE r]

\* Seeded fault: credits given back by hand are handed out again.
WaitingForAny(rows) ==
    {i \in Interviews : /\ rows[i].status = "DETECTED" /\ ~Ended(rows[i])
                        /\ rows[i].resv \in {"NONE", "RELEASED"}}

Waiting(rows) ==
    {i \in Interviews : /\ rows[i].status = "DETECTED" /\ ~Ended(rows[i])
                        /\ \/ rows[i].resv = "NONE"
                           \/ rows[i].resv = "RELEASED" /\ rows[i].reason # "MANUAL"}

\* The free credits go to the waiting interviews that start first.
Grants(rows, b) ==
    LET free == IF b.active THEN Available(rows, b) ELSE 0
        waiting == Waiting(rows) IN
    {i \in waiting : Cardinality({j \in waiting : StartsBefore(rows, j, i)}) < free}

ProtectionOf(r, b) ==
    CASE r.resv \in {"RESERVED", "CONSUMED"} -> r.resv
      [] ManuallyReleased(r) -> "RELEASED"
      [] r.resv \in {"NONE", "RELEASED"} /\ ~ManuallyReleased(r) ->
            IF b.active THEN "UNPROTECTED_NO_CREDITS" ELSE "UNPROTECTED_SUBSCRIPTION"

Settle(rows, b) ==
    LET granted == Grants(rows, b) IN
    [i \in Interviews |->
        LET r == IF i \in granted
                 THEN [rows[i] EXCEPT !.resv = "RESERVED", !.reason = "NONE"]
                 ELSE rows[i] IN
        IF Protectable(r) THEN [r EXCEPT !.protection = ProtectionOf(r, b)] ELSE r]

Reconciled(rows, b) ==
    LET e == EnsureAllowance(b) IN
    Settle(Trim(rows, Desired(rows, Entitlement(e))), e)

\* A transaction that leaves the ledger and the subscription alone commits as
\* it is; any other runs the deferred entitlement triggers first.
Commit(rows, b) ==
    IF b = bank THEN iv' = rows /\ UNCHANGED bank
    ELSE iv' = Reconciled(rows, b) /\ bank' = EnsureAllowance(b)

\* A transaction that tries to reserve a credit for i, leaving row r: on the way
\* the allowance of a new period may be granted.
CommitReserving(rows, i, r) ==
    Commit(With(rows, i, r),
           IF Reservable(rows[i], bank) THEN EnsureAllowance(bank) ELSE bank)

\* A transaction that writes row r of interview i, whose UPDATE fires the trigger.
CommitWrite(i, r) ==
    LET rows == With(iv, i, r) IN CommitReserving(rows, i, CreditTrigger(rows, bank, i))

ReserveCredit(i) == CommitReserving(iv, i, Reserve(iv, bank, i))

Change == changes < MaxChanges /\ changes' = changes + 1

-----------------------------------------------------------------------------
(* Calendar synchronization *)

\* An event appears, reappears or changes: a new schedule (in phase p), a new
\* candidate, or the same data again.
CalendarUpsert(i, what, p) ==
    LET r == iv[i]
        dated == IF what = "schedule" THEN [RescheduleJob(r) EXCEPT !.phase = p] ELSE r
        back == \/ r.status \in {"CANCELLED", "EXCLUDED"}
                \/ /\ r.status \in {"CONSENT_PENDING", "DEVICE_CONNECTING", "UNABLE_TO_VERIFY"}
                   /\ what \in {"schedule", "candidate"}
        row == IF back THEN Cleanup(dated, "DETECTED") ELSE dated IN
    /\ Change
    /\ r.status \notin Started \cup {"ABSENT", "CONSENT_DECLINED"}
    /\ CommitWrite(i, row)
    /\ seen' = IF what = "schedule"
               THEN {[s EXCEPT !.moved = @ \/ s.interview = i] : s \in seen} ELSE seen
    /\ UNCHANGED claim

CalendarInsert(i, p) ==
    /\ iv[i].status = "ABSENT"
    /\ CommitWrite(i, [NoRow EXCEPT !.status = "DETECTED", !.phase = p])
    /\ UNCHANGED <<seen, claim, changes>>

\* An event is cancelled, no longer classified as an interview, missing from a
\* full scan, or its calendar is disconnected.
CalendarRemove(i, cancelled) ==
    LET to == IF cancelled \/ iv[i].status = "DEVICE_CONNECTING"
              THEN "CANCELLED" ELSE "EXCLUDED" IN
    /\ Change
    /\ iv[i].status \in Withdrawable
    /\ CommitWrite(i, Cleanup(iv[i], to))
    /\ UNCHANGED <<seen, claim>>

-----------------------------------------------------------------------------
(* Orchestrator *)

\* Seeded fault: a candidate who is connecting a device is forgotten.
ExpireUnanswered(i) ==
    /\ \/ iv[i].status = "VERIFICATION_SCHEDULED" /\ Ended(iv[i])
       \/ iv[i].status = "CONSENT_PENDING" /\ iv[i].phase = "over"
    /\ iv' = With(iv, i, Expire(iv[i]))
    /\ UNCHANGED <<bank, seen, claim, changes>>

\* Verifications whose window has closed are expired, under the row lock.
ExpireWindow(i) ==
    /\ \/ iv[i].status = "VERIFICATION_SCHEDULED" /\ Ended(iv[i])
       \/ iv[i].status \in {"CONSENT_PENDING", "DEVICE_CONNECTING"} /\ iv[i].phase = "over"
    /\ iv' = With(iv, i, Expire(iv[i]))
    /\ UNCHANGED <<bank, seen, claim, changes>>

\* The cursor reads rows without locking them.
OrchestratorRead(i) ==
    /\ iv[i].status \in {"DETECTED", "PROTECTED", "NO_CREDITS", "SUBSCRIPTION_INACTIVE"}
    /\ ~Ended(iv[i])
    /\ \A s \in seen : s.interview # i
    /\ seen' = seen \cup {[interview |-> i, status |-> iv[i].status,
                           protection |-> iv[i].protection, active |-> bank.active,
                           far |-> iv[i].phase = "far", moved |-> FALSE]}
    /\ UNCHANGED <<iv, bank, claim, changes>>

\* The loop body uses the columns the cursor read; only the status is compared
\* again, by the UPDATE ... WHERE status = ANY(expected) of each transition.
Revive(s) ==
    /\ s.status \in {"NO_CREDITS", "SUBSCRIPTION_INACTIVE"}
    /\ s.active
    /\ s.status = "NO_CREDITS" => Available(iv, bank) > 0
    /\ IF iv[s.interview].status = s.status
       THEN CommitWrite(s.interview, Cleanup(iv[s.interview], "DETECTED"))
       ELSE ReserveCredit(s.interview)

Refusal(s) ==
    CASE s.status \in {"DETECTED", "PROTECTED"} /\ ~s.active -> "SUBSCRIPTION_INACTIVE"
      [] \/ s.status = "PROTECTED" /\ s.active /\ s.protection # "RESERVED"
         \/ s.status = "DETECTED" /\ s.active /\ s.protection \notin {"RESERVED", "CONSUMED"}
            -> "NO_CREDITS"
      [] OTHER -> s.status

Refuse(s) ==
    /\ Refusal(s) # s.status
    /\ iv' = IF iv[s.interview].status = s.status
             THEN [iv EXCEPT ![s.interview].status = Refusal(s)] ELSE iv
    /\ UNCHANGED bank

\* DETECTED -> PROTECTED, then -> VERIFICATION_SCHEDULED within seven days of
\* the start that was read; the job inherits that start.
Advance(s) ==
    LET i == s.interview
        r == iv[i]
        to == IF s.far THEN "PROTECTED" ELSE "VERIFICATION_SCHEDULED"
        moves == \/ r.status = s.status
                 \/ s.status = "DETECTED" /\ r.status = "PROTECTED" IN
    /\ s.status \in {"DETECTED", "PROTECTED"}
    /\ Refusal(s) = s.status
    /\ iv' = IF ~moves THEN iv
             ELSE IF to = "PROTECTED" THEN [iv EXCEPT ![i].status = "PROTECTED"]
             ELSE [iv EXCEPT ![i] = [r EXCEPT
                    !.status = to, !.stale = s.moved,
                    !.job = IF @ = "COMPLETED" THEN @ ELSE "PENDING"]]
    /\ UNCHANGED bank

Keep(s) ==
    /\ s.status \in {"NO_CREDITS", "SUBSCRIPTION_INACTIVE"}
    /\ ~s.active \/ (s.status = "NO_CREDITS" /\ Available(iv, bank) = 0)
    /\ UNCHANGED <<iv, bank>>

OrchestratorApply(s) ==
    /\ Revive(s) \/ Refuse(s) \/ Advance(s) \/ Keep(s)
    /\ seen' = seen \ {s}
    /\ UNCHANGED <<claim, changes>>

-----------------------------------------------------------------------------
(* Verification delivery: claim, complete, fail *)

Update(i, r) == iv' = With(iv, i, r) /\ UNCHANGED bank

Claimable(r) ==
    /\ \/ r.job = "PENDING" /\ (DeliveryTime(r) \/ r.stale)
       \/ r.job = "PROCESSING" /\ ~r.leased
    /\ r.attempts < MaxAttempts

\* authenti8_claim_verification_delivery revalidates before it leases the job.
ClaimRefused(r) ==
    CASE r.status # "VERIFICATION_SCHEDULED" -> [r EXCEPT !.job = "CANCELLED"]
      [] r.status = "VERIFICATION_SCHEDULED" /\ Ended(r) -> Expire(r)
      [] r.status = "VERIFICATION_SCHEDULED" /\ ~Ended(r) ->
            [r EXCEPT !.job = "CANCELLED",
                      !.status = IF bank.active THEN "NO_CREDITS" ELSE "SUBSCRIPTION_INACTIVE"]

\* Seeded fault: the reservation is not revalidated.
DeliverableUnpaid(r) == r.status = "VERIFICATION_SCHEDULED" /\ bank.active

Deliverable(r) ==
    /\ r.status = "VERIFICATION_SCHEDULED"
    /\ bank.active
    /\ r.resv \in {"RESERVED", "CONSUMED"}

ClaimDelivery(w, i) ==
    LET r == iv[i]
        n == r.attempts + 1 IN
    /\ \A c \in claim : c.worker # w
    /\ Claimable(r)
    /\ IF Deliverable(r) /\ ~Ended(r)
       THEN /\ Update(i, [r EXCEPT !.job = "PROCESSING", !.attempts = n,
                                   !.owner = w, !.leased = TRUE])
            /\ claim' = claim \cup
                 {[worker |-> w, interview |-> i, attempts |-> n, answered |-> FALSE]}
       ELSE Update(i, ClaimRefused(r)) /\ UNCHANGED claim
    /\ UNCHANGED <<seen, changes>>

\* 45 seconds pass without an answer from the worker.
LeaseExpires(i) ==
    /\ iv[i].leased
    /\ iv' = [iv EXCEPT ![i].leased = FALSE]
    /\ UNCHANGED <<bank, seen, claim, changes>>

\* The claim is honoured while the job still carries it.
Holds(c) ==
    LET r == iv[c.interview] IN
    r.job = "PROCESSING" /\ r.owner = c.worker /\ r.attempts = c.attempts

Delivered(r) ==
    [r EXCEPT !.status = "CONSENT_PENDING", !.job = "COMPLETED", !.leased = FALSE,
              !.token = TRUE, !.mail = TRUE]

\* The answer may be lost on its way back: the worker then reports a failure.
CompleteDelivery(c) ==
    LET r == iv[c.interview] IN
    /\ ~c.answered
    /\ IF ~Holds(c) THEN UNCHANGED <<iv, bank>>
       ELSE IF Deliverable(r) THEN Update(c.interview, Delivered(r))
       ELSE Update(c.interview,
                   IF r.status = "VERIFICATION_SCHEDULED" THEN Expire(r) ELSE r)
    /\ \/ claim' = claim \ {c}
       \/ claim' = (claim \ {c}) \cup {[c EXCEPT !.answered = TRUE]}
    /\ UNCHANGED <<seen, changes>>

\* authenti8_fail_verification_delivery, once the caller's claim has matched.
Failed(r) ==
    IF r.attempts < MaxAttempts THEN [r EXCEPT !.job = "PENDING", !.leased = FALSE]
    ELSE [Release(r, "INELIGIBLE") EXCEPT
            !.job = "FAILED", !.leased = FALSE, !.protection = "RELEASED",
            !.status = IF @ = "VERIFICATION_SCHEDULED" THEN "UNABLE_TO_VERIFY" ELSE @]

FailDelivery(c) ==
    /\ IF Holds(c) THEN Update(c.interview, Failed(iv[c.interview])) ELSE UNCHANGED <<iv, bank>>
    /\ claim' = claim \ {c}
    /\ UNCHANGED <<seen, changes>>

WorkerCrash(c) ==
    /\ claim' = claim \ {c}
    /\ UNCHANGED <<iv, bank, seen, changes>>

\* The next claim call fails the jobs whose lease ran out at the retry limit.
FailExhausted(i) ==
    /\ iv[i].job = "PROCESSING" /\ ~iv[i].leased /\ iv[i].attempts >= MaxAttempts
    /\ Update(i, Failed(iv[i]))
    /\ UNCHANGED <<seen, claim, changes>>

-----------------------------------------------------------------------------
(* Candidate e-mail: the outbox's own leases are in another module *)

EmailSent(i) ==
    /\ iv[i].mail
    /\ iv[i].status = "CONSENT_PENDING" /\ iv[i].token /\ iv[i].phase # "over"
    /\ Update(i, [iv[i] EXCEPT !.mail = FALSE])
    /\ UNCHANGED <<seen, claim, changes>>

Unreachable(r) ==
    IF r.status = "CONSENT_PENDING"
    THEN [Unprotect(Release(r, "INELIGIBLE")) EXCEPT !.status = "UNABLE_TO_VERIFY"]
    ELSE r

\* authenti8_email_claim_is_deliverable refuses the message.
EmailUndeliverable(i) ==
    LET r == [iv[i] EXCEPT !.mail = FALSE] IN
    /\ iv[i].mail
    /\ ~(r.status = "CONSENT_PENDING" /\ r.token /\ r.phase # "over")
    /\ Update(i, IF r.status \in Started \cup {"DEVICE_CONNECTING", "CONSENT_DECLINED"}
                 THEN r ELSE Unreachable([r EXCEPT !.token = FALSE]))
    /\ UNCHANGED <<seen, claim, changes>>

\* authenti8_fail_email after the last attempt.
EmailFailed(i) ==
    /\ iv[i].mail
    /\ Update(i, Unreachable([iv[i] EXCEPT !.mail = FALSE]))
    /\ UNCHANGED <<seen, claim, changes>>

-----------------------------------------------------------------------------
(* Candidate consent and monitoring *)

RecordConsent(i, accepted) ==
    LET r == [iv[i] EXCEPT !.token = FALSE] IN
    /\ iv[i].token /\ r.phase # "over"
    /\ r.status = "CONSENT_PENDING" /\ r.resv = "RESERVED" /\ bank.active
    /\ Update(i, IF accepted
                 THEN [r EXCEPT !.status = "DEVICE_CONNECTING", !.consented = @ + 1]
                 ELSE [Release(r, "INELIGIBLE") EXCEPT
                         !.status = "CONSENT_DECLINED", !.protection = "RELEASED"])
    /\ UNCHANGED <<seen, claim, changes>>

\* authenti8_consume_credit refuses a start in this order.
ConsumeRefused(r) ==
    CASE r.resv \in {"CONSUMED", "RELEASED"} -> [r EXCEPT !.protection = r.resv]
      [] r.resv = "RESERVED" /\ r.status # "DEVICE_CONNECTING" -> r
      [] r.resv = "RESERVED" /\ r.status = "DEVICE_CONNECTING" ->
            IF ~MonitoringWindow(r)
            THEN [Release(r, "INELIGIBLE") EXCEPT !.protection = "RELEASED"]
            ELSE [r EXCEPT !.protection = IF bank.active THEN "UNPROTECTED_NO_CREDITS"
                                          ELSE "UNPROTECTED_SUBSCRIPTION"]

Charge(b) == IF b.allowance > 0 THEN [b EXCEPT !.allowance = @ - 1]
             ELSE [b EXCEPT !.extra = @ - 1]

\* MONITORING_ACTIVE needs exactly one consented session, or the transaction
\* aborts (authenti8_sync_monitoring_session).
StartAllowed(r) ==
    /\ r.resv = "RESERVED" /\ r.status = "DEVICE_CONNECTING"
    /\ MonitoringWindow(r) /\ bank.active
    /\ bank.allowance > 0 \/ bank.extra > 0

ConsumeCredit(i) ==
    LET r == iv[i] IN
    /\ r.resv # "NONE"
    /\ IF StartAllowed(r)
       THEN /\ r.consented = 1
            /\ Commit(With(iv, i, [r EXCEPT !.status = "MONITORING_ACTIVE",
                         !.protection = "CONSUMED", !.resv = "CONSUMED", !.consented = 0]),
                      Charge(bank))
       ELSE Update(i, ConsumeRefused(r))
    /\ UNCHANGED <<seen, claim, changes>>

FinishMonitoring(i) ==
    /\ iv[i].status = "MONITORING_ACTIVE"
    /\ iv' = [iv EXCEPT ![i].status = "MEETING_COMPLETED"]
    /\ UNCHANGED <<bank, seen, claim, changes>>

-----------------------------------------------------------------------------
(* Manual credit operations *)

\* authenti8_release_credit: someone of the organization gives the credit back.
ReleaseCredit(i) ==
    LET r == iv[i]
        given == IF r.status \in Verifying THEN Expire(r) ELSE Release(r, "MANUAL") IN
    /\ Change
    /\ \/ r.status \in Verifying
       \/ r.status \in {"DETECTED", "PROTECTED"} /\ r.resv = "RESERVED"
    /\ Update(i, IF r.status \in Verifying
                 THEN [given EXCEPT !.reason = IF @ = "INELIGIBLE" THEN "MANUAL" ELSE @]
                 ELSE [given EXCEPT !.protection = "RELEASED"])
    /\ UNCHANGED <<seen, claim>>

ReserveManually(i) == ReserveCredit(i) /\ UNCHANGED <<seen, claim, changes>>

-----------------------------------------------------------------------------
(* Billing: what the webhooks and the calendar month do to the ledger *)

ExtraCredits(n) ==
    /\ Change
    /\ bank.extra + n \in -MaxExtra..MaxExtra
    /\ Commit(iv, [bank EXCEPT !.extra = @ + n])
    /\ UNCHANGED <<seen, claim>>

SubscriptionChanges ==
    /\ Change
    /\ Commit(iv, [bank EXCEPT !.active = ~@])
    /\ UNCHANGED <<seen, claim>>

\* The period key changes, and with it the part of the ledger that counts: for
\* a PROFESSIONAL plan by a webhook's update of the subscription, for the other
\* plans by the calendar alone, which fires no trigger.
PeriodEnds(byWebhook) ==
    LET b == [bank EXCEPT !.granted = FALSE, !.allowance = 0] IN
    /\ Change
    /\ bank.granted
    /\ IF byWebhook THEN Commit(iv, b) ELSE iv' = iv /\ bank' = b
    /\ UNCHANGED <<seen, claim>>

\* After a manual calendar sync, and when the dashboard grants the allowance.
Reconcile ==
    /\ iv' = Reconciled(iv, bank)
    /\ bank' = EnsureAllowance(bank)
    /\ UNCHANGED <<seen, claim, changes>>

\* Seeded fault: only verifications count as expired reservations.
ReconcileUnverified ==
    /\ \E i \in Reserved(iv) : iv[i].phase = "over" /\ iv[i].status \in Verifying
    /\ iv' = Reconciled(iv, bank)
    /\ bank' = EnsureAllowance(bank)
    /\ UNCHANGED <<seen, claim, changes>>

\* authenti8_reconcile_expired_credits, at the end of each calendar drain.
ReconcileExpired ==
    /\ \E i \in Reserved(iv) : iv[i].phase = "over"
    /\ LET rows == Reconciled(iv, bank) IN
       iv' = [i \in Interviews |->
                 IF rows[i].phase = "over" /\ rows[i].resv = "RELEASED"
                 THEN [rows[i] EXCEPT !.protection = "RELEASED"] ELSE rows[i]]
    /\ bank' = EnsureAllowance(bank)
    /\ UNCHANGED <<seen, claim, changes>>

-----------------------------------------------------------------------------
(* The passing of time *)

NextPhase == [far |-> "soon", soon |-> "near", near |-> "live", live |-> "grace",
              grace |-> "over"]

Tick(i) ==
    /\ iv[i].status # "ABSENT" /\ iv[i].phase # "over"
    /\ iv' = [iv EXCEPT ![i].phase = NextPhase[@]]
    /\ UNCHANGED <<bank, seen, claim, changes>>

-----------------------------------------------------------------------------
(* The specification *)

\* authenti8_create_organization: a new organization has no interviews, an active
\* subscription and its first allowance.
Init ==
    /\ iv = [i \in Interviews |-> NoRow]
    /\ bank = [active |-> TRUE, granted |-> TRUE, allowance |-> Allowance, extra |-> 0]
    /\ seen = {}
    /\ claim = {}
    /\ changes = 0

Calendar(i) ==
    \/ \E p \in Slots : CalendarInsert(i, p)
    \/ \E what \in {"same", "candidate"} : CalendarUpsert(i, what, iv[i].phase)
    \/ \E p \in Slots : CalendarUpsert(i, "schedule", p)
    \/ \E cancelled \in BOOLEAN : CalendarRemove(i, cancelled)

Candidate(i) ==
    \/ EmailSent(i) \/ EmailUndeliverable(i) \/ EmailFailed(i)
    \/ \E accepted \in BOOLEAN : RecordConsent(i, accepted)
    \/ ConsumeCredit(i) \/ FinishMonitoring(i)

Orchestrator(i) ==
    \/ ExpireWindow(i) \/ OrchestratorRead(i)
    \/ \E s \in seen : s.interview = i /\ OrchestratorApply(s)

Delivery ==
    \/ \E i \in Interviews : FailExhausted(i) \/ LeaseExpires(i)
    \/ \E i \in Interviews, w \in Workers : ClaimDelivery(w, i)
    \/ \E c \in claim : CompleteDelivery(c) \/ FailDelivery(c) \/ WorkerCrash(c)

Billing ==
    \/ \E n \in {-1, 1} : ExtraCredits(n)
    \/ \E byWebhook \in BOOLEAN : PeriodEnds(byWebhook)
    \/ SubscriptionChanges \/ Reconcile \/ ReconcileExpired

Next ==
    \/ \E i \in Interviews : \/ Calendar(i) \/ Orchestrator(i) \/ Candidate(i)
                             \/ ReleaseCredit(i) \/ ReserveManually(i) \/ Tick(i)
    \/ Delivery
    \/ Billing

Spec == Init /\ [][Next]_vars

\* Time passes; the lifecycle cron (every 10 seconds) runs the orchestrator and
\* the calendar cron ends each drain with the reconciliation of expired credits.
\* Nothing is assumed of candidates, users, calendars, billing or the workers.
Fairness ==
    /\ \A i \in Interviews : WF_vars(Tick(i)) /\ WF_vars(ExpireWindow(i))
    /\ WF_vars(ReconcileExpired)

FairSpec == Spec /\ Fairness

-----------------------------------------------------------------------------
(* Invariants *)

\* A candidate who has been asked for consent, or is connecting a device, is
\* backed by a reserved credit until the window closes: neither trimming the
\* entitlement nor a refused start takes the credit and leaves the candidate.
\* (A job scheduled from a start that has moved is the exception: it may invite
\* before the last minute.)
ReservationBacksVerification ==
    \A i \in Interviews :
        /\ iv[i].status \in {"CONSENT_PENDING", "DEVICE_CONNECTING"}
        /\ iv[i].phase # "over" /\ ~iv[i].stale
        => iv[i].resv = "RESERVED"

\* While the subscription is active and the period's allowance is granted, no
\* more credits are reserved than the ledger holds; an organization without a
\* subscription holds none, whatever order purchases, refunds, starts and
\* calendar changes commit in.
NoOverbooking ==
    /\ bank.active /\ bank.granted /\ Reserved(iv) # {}
       => Cardinality(Reserved(iv)) <= Balance(bank)
    /\ ~bank.active => Reserved(iv) = {}

\* A credit is spent exactly for the interviews whose monitoring has started.
ChargedIffStarted ==
    \A i \in Interviews : iv[i].status \in Started <=> iv[i].resv = "CONSUMED"

\* A verification that is scheduled has a delivery job that can still run, and
\* no job outlives the schedule it was made for: rescheduling, cancellation,
\* re-detection, lease expiry and late answers of workers all keep the two apart.
ScheduledHasLiveJob ==
    \A i \in Interviews :
        iv[i].status = "VERIFICATION_SCHEDULED" <=> iv[i].job \in {"PENDING", "PROCESSING"}

\* A start finds exactly one consented session, or its transaction aborts: one
\* exists exactly while the device is connecting.
OneConsentedSession ==
    \A i \in Interviews :
        iv[i].consented = IF iv[i].status = "DEVICE_CONNECTING" THEN 1 ELSE 0

\* An unused verification link belongs to an interview awaiting consent (or one
\* whose invitation could not be delivered), and the e-mail carrying it is gone
\* once the interview is withdrawn.
LinkIsForPendingConsent ==
    \A i \in Interviews :
        /\ iv[i].token => iv[i].status \in {"CONSENT_PENDING", "UNABLE_TO_VERIFY"}
        /\ iv[i].mail => iv[i].status \notin {"DETECTED", "PROTECTED",
                             "VERIFICATION_SCHEDULED", "CANCELLED", "EXCLUDED"}

\* Nobody is asked for consent more than a minute before the start, even when
\* the meeting is moved while a worker is delivering the invitation: the claim of
\* the old schedule is no longer honoured.  (A stale job is the exception.)
InvitedInTime ==
    \A i \in Interviews :
        iv[i].status \in {"CONSENT_PENDING", "DEVICE_CONNECTING"} /\ ~iv[i].stale
        => DeliveryTime(iv[i])

-----------------------------------------------------------------------------
(* What a step may never do *)

\* A credit that someone gave back by hand is never reserved again for that
\* interview, by the orchestrator, the calendar, a purchase or a reconciliation.
ManualReleaseIsFinal ==
    [][\A i \in Interviews : ManuallyReleased(iv[i]) => ManuallyReleased(iv'[i])]_vars

\* The code keeps the contract of module ConsentContract.  credit counts the
\* allowance that has not been granted yet, so granting it leaves it alone.
Stage(r) ==
    CASE r.status = "CONSENT_PENDING" -> "invited"
      [] r.status = "DEVICE_CONNECTING" -> "accepted"
      [] r.status = "CONSENT_DECLINED" -> "declined"
      [] r.status = "MONITORING_ACTIVE" -> "monitored"
      [] r.status = "MEETING_COMPLETED" -> "finished"
      [] OTHER -> "open"

Hold(r) ==
    CASE r.resv = "NONE" -> "none"
      [] r.resv = "RESERVED" -> "held"
      [] r.resv = "CONSUMED" -> "spent"
      [] r.resv = "RELEASED" -> IF r.reason = "MANUAL" THEN "given back" ELSE "returned"

Contract == INSTANCE ConsentContract WITH
    stage <- [i \in Interviews |-> Stage(iv[i])],
    hold <- [i \in Interviews |-> Hold(iv[i])],
    credit <- Balance(bank) + (IF bank.granted THEN 0 ELSE Allowance)

\* No interleaving of calendar, orchestrator, delivery, candidates, billing and
\* reconciliation breaks the promises of ConsentContract.
KeepsContract == Contract!Spec

-----------------------------------------------------------------------------
(* What must eventually happen *)

\* Every reserved credit is eventually spent or released, also when nobody acts
\* on the interview it is reserved for.
ReservationsSettle ==
    \A i \in Interviews : iv[i].resv = "RESERVED" ~> iv[i].resv # "RESERVED"

\* No verification stays open for ever, whatever its job, e-mail and credit do.
VerificationsEnd ==
    \A i \in Interviews : iv[i].status \in Verifying ~> iv[i].status \notin Verifying

=============================================================================
