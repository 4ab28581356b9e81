---------------------- MODULE InterviewLifecycleProofs ----------------------
(***************************************************************************)
(* What InterviewLifecycle keeps for every number of interviews, workers,   *)
(* attempts, credits and changes.                                           *)
(*                                                                         *)
(* Part one: the invariants that are properties of one row.  The inductive  *)
(* invariant IInv says that each row is coherent; the lemmas show that each *)
(* row transformer of the model maps coherent rows to coherent rows, and    *)
(* the proof of the step has one case per action.                          *)
(*                                                                         *)
(* Part two: what relates rows to each other, to the ledger and to their    *)
(* past.  Each action is shown to be a step of one of five kinds, a kind    *)
(* being a relation between old and new rows; the kinds keep the invariant  *)
(* SInv, which counts reservations, and are steps of ConsentContract.       *)
(***************************************************************************)
EXTENDS InterviewLifecycle, FiniteSetTheorems, TLAPS

\* The row-wise forms of the invariants of InterviewLifecycle ...
Charged(r) == r.status \in Started <=> r.resv = "CONSUMED"
HasJob(r) == r.status = "VERIFICATION_SCHEDULED" <=> r.job \in {"PENDING", "PROCESSING"}
HasSession(r) == r.consented = IF r.status = "DEVICE_CONNECTING" THEN 1 ELSE 0
Backed(r) ==
    /\ r.status \in {"CONSENT_PENDING", "DEVICE_CONNECTING"}
    /\ r.phase # "over" /\ ~r.stale
    => r.resv = "RESERVED"

\* ... and what makes them inductive: a row that waits to be scheduled has no
\* job left, links and e-mails belong to interviews that were offered, and a job
\* that is not stale is delivered in time.
Unscheduled(r) == r.status \in {"DETECTED", "PROTECTED"} => r.job = "NONE"
Linked(r) ==
    /\ r.token => r.status \in {"CONSENT_PENDING", "UNABLE_TO_VERIFY"}
    /\ r.mail => r.status \in {"CONSENT_PENDING", "DEVICE_CONNECTING", "CONSENT_DECLINED"}
                              \cup Started
InTime(r) ==
    /\ \/ r.status \in {"CONSENT_PENDING", "DEVICE_CONNECTING"}
       \/ r.status = "VERIFICATION_SCHEDULED" /\ r.job = "PROCESSING"
    /\ ~r.stale
    => DeliveryTime(r)

Coherent(r) ==
    /\ Charged(r) /\ HasJob(r) /\ HasSession(r) /\ Backed(r)
    /\ Unscheduled(r) /\ Linked(r) /\ InTime(r)

GoodRow == {r \in Row : Coherent(r)}

\* The inductive invariant: every row is coherent, after every transaction of
\* every function of the database.
IInv == TypeOK /\ iv \in [Interviews -> GoodRow]

-----------------------------------------------------------------------------
(* Row transformers keep rows coherent *)

\* The UPDATE that releases a reservation, whatever the row.
LEMMA ReleaseType ==
    ASSUME NEW r \in Row, NEW why \in {"MANUAL", "ENTITLEMENT", "INELIGIBLE"}
    PROVE  Release(r, why) \in Row
<1>1. CASE r.resv = "RESERVED"
    BY <1>1 DEF Release, Row
<1>2. CASE r.resv # "RESERVED"
    BY <1>2 DEF Release
<1> QED
    BY <1>1, <1>2

\* A reservation that is released from a row nobody is being asked to verify.
LEMMA ReleaseGood ==
    ASSUME NEW r \in GoodRow, NEW why \in {"MANUAL", "ENTITLEMENT", "INELIGIBLE"},
           r.status \notin {"CONSENT_PENDING", "DEVICE_CONNECTING"}
    PROVE  Release(r, why) \in GoodRow
<1>1. r \in Row /\ Coherent(r)
    BY DEF GoodRow
<1>2. Release(r, why) \in Row
    BY <1>1, ReleaseType
<1>3. Coherent(Release(r, why))
    BY <1>1 DEF Release, Row, Coherent, Charged, HasJob, HasSession, Backed,
                Unscheduled, Linked, InTime, DeliveryTime, Started
<1> QED
    BY <1>2, <1>3 DEF GoodRow

\* authenti8_expire_verification; its row may just have lost the reservation.
LEMMA ExpireGood ==
    ASSUME NEW r \in Row, r.resv # "CONSUMED"
    PROVE  Expire(r) \in GoodRow
<1> DEFINE c == CancelJob(r)
           d == Release(c, "INELIGIBLE")
           f == Unprotect(d)
<1>1. c \in Row /\ c.resv # "CONSUMED" /\ c.job \notin {"PENDING", "PROCESSING"}
    <2>1. CASE r.job \in {"PENDING", "PROCESSING"}
        <3>1. c = [r EXCEPT !.job = "CANCELLED", !.owner = NoWorker, !.leased = FALSE]
            BY <2>1 DEF CancelJob
        <3> HIDE DEF c
        <3>2. c \in Row
            BY <3>1 DEF Row
        <3>3. c.resv = r.resv /\ c.job = "CANCELLED"
            BY <3>1 DEF Row
        <3> QED
            BY <3>2, <3>3
    <2>2. CASE r.job \notin {"PENDING", "PROCESSING"}
        BY <2>2 DEF CancelJob
    <2> QED
        BY <2>1, <2>2
<1>2. d \in Row /\ d.resv # "CONSUMED" /\ d.job = c.job
    <2>1. d \in Row
        BY <1>1, ReleaseType
    <2>2. d.resv # "CONSUMED" /\ d.job = c.job
        BY <1>1 DEF Release, Row
    <2> QED
        BY <2>1, <2>2
<1>3. f \in Row /\ f.resv # "CONSUMED" /\ f.job = c.job
    BY <1>2 DEF Unprotect, Row, Protections
<1>4. Expire(r) \in Row
    BY <1>3 DEF Expire, Row, Statuses
<1>5. /\ Expire(r).status = "UNABLE_TO_VERIFY" /\ Expire(r).resv = f.resv
      /\ Expire(r).consented = 0 /\ Expire(r).job = f.job
      /\ Expire(r).token = FALSE /\ Expire(r).mail = FALSE
    BY <1>3 DEF Expire, Row, Unprotect, Release, CancelJob
<1>6. Coherent(Expire(r))
    BY <1>1, <1>3, <1>5 DEF Coherent, Charged, HasJob, HasSession, Backed, Unscheduled,
       Linked, InTime, Started
<1> QED
    BY <1>4, <1>6 DEF GoodRow

\* The cleanup trigger, on a row that is not charged.
LEMMA CleanupGood ==
    ASSUME NEW r \in Row, NEW to \in {"DETECTED", "CANCELLED", "EXCLUDED"},
           r.status # to \/ r \in GoodRow, r.resv # "CONSUMED"
    PROVE  Cleanup(r, to) \in GoodRow
<1>1. CASE r.status = to
    BY <1>1 DEF Cleanup
<1>2. CASE r.status # to
    <2> DEFINE e == Cleanup(r, to)
    <2>1. to \in Statuses /\ 0 \in 0..MaxAttempts
        BY ConstantsAssumption DEF Statuses
    <2>2. e \in Row
        BY <1>2, <2>1 DEF Cleanup, Row
    <2>3. /\ e.status = to /\ e.resv # "CONSUMED" /\ e.consented = 0
          /\ e.job = "NONE" /\ ~e.token /\ ~e.mail
        BY <1>2 DEF Cleanup, Row
    <2>4. Coherent(e)
        BY <2>3 DEF Coherent, Charged, HasJob, HasSession, Backed, Unscheduled, Linked,
                    InTime, Started
    <2> QED
        BY <2>2, <2>4 DEF GoodRow
<1> QED
    BY <1>1, <1>2

\* A change of the protection mark alone.
LEMMA MarkGood ==
    ASSUME NEW r \in GoodRow, NEW p \in Protections
    PROVE  [r EXCEPT !.protection = p] \in GoodRow
BY DEF GoodRow, Row, Coherent, Charged, HasJob, HasSession, Backed, Unscheduled, Linked,
       InTime, DeliveryTime

\* A reservation for a row whose interview is waiting for one.
LEMMA GrantGood ==
    ASSUME NEW r \in GoodRow, r.status = "DETECTED"
    PROVE  [r EXCEPT !.resv = "RESERVED", !.reason = "NONE"] \in GoodRow
BY DEF GoodRow, Row, Coherent, Charged, HasJob, HasSession, Backed, Unscheduled, Linked,
       InTime, DeliveryTime, Started

-----------------------------------------------------------------------------
(* Transactions keep rows coherent *)

GoodRows == [Interviews -> GoodRow]

\* Granting the allowance keeps the ledger a ledger.
LEMMA EnsureAllowanceType ==
    ASSUME NEW b \in Bank
    PROVE  EnsureAllowance(b) \in Bank
<1>1. b.allowance + Allowance \in Int
    BY ConstantsAssumption DEF Bank
<1>2. [b EXCEPT !.granted = TRUE, !.allowance = @ + Allowance] \in Bank
    BY <1>1 DEF Bank
<1> QED
    BY <1>2 DEF EnsureAllowance

\* Releasing what the entitlement does not cover leaves no candidate without a
\* credit: the verifications that lose theirs are expired.
LEMMA TrimGood ==
    ASSUME NEW rows \in GoodRows, NEW D
    PROVE  Trim(rows, D) \in GoodRows
<1> SUFFICES ASSUME NEW i \in Interviews
             PROVE  Trim(rows, D)[i] \in GoodRow
    BY DEF Trim, GoodRows
<1> DEFINE q == rows[i]
           r == IF i \in D THEN q ELSE Release(q, "ENTITLEMENT")
<1>1. q \in GoodRow /\ q \in Row
    BY DEF GoodRows, GoodRow
<1>2. Trim(rows, D)[i] = IF r.status \in Verifying /\ r.resv \notin {"RESERVED", "CONSUMED"}
                         THEN Expire(r) ELSE r
    BY DEF Trim
<1>3. r \in Row
    BY <1>1, ReleaseType
<1>4. CASE r.status \in Verifying /\ r.resv \notin {"RESERVED", "CONSUMED"}
    BY <1>2, <1>3, <1>4, ExpireGood
<1>5. CASE r.status \notin Verifying \/ r.resv \in {"RESERVED", "CONSUMED"}
    <2>1. CASE r = q
        BY <1>1, <1>2, <1>5, <2>1
    <2>2. CASE r # q
        <3>1. r = Release(q, "ENTITLEMENT") /\ r.resv = "RELEASED" /\ r.status = q.status
            BY <1>1, <2>2 DEF Release, Row
        <3>2. q.status \notin {"CONSENT_PENDING", "DEVICE_CONNECTING"}
            BY <1>5, <3>1 DEF Verifying
        <3>3. r \in GoodRow
            BY <1>1, <3>1, <3>2, ReleaseGood
        <3> QED
            BY <1>2, <1>5, <3>3
    <2> QED
        BY <2>1, <2>2
<1> QED
    BY <1>4, <1>5

\* Handing out the free credits and refreshing the protection marks.
LEMMA SettleGood ==
    ASSUME NEW rows \in GoodRows, NEW b \in Bank
    PROVE  Settle(rows, b) \in GoodRows
<1> SUFFICES ASSUME NEW i \in Interviews
             PROVE  Settle(rows, b)[i] \in GoodRow
    BY DEF Settle, GoodRows
<1> DEFINE q == rows[i]
           r == IF i \in Grants(rows, b)
                THEN [q EXCEPT !.resv = "RESERVED", !.reason = "NONE"] ELSE q
<1>1. q \in GoodRow
    BY DEF GoodRows
<1>2. i \in Grants(rows, b) => q.status = "DETECTED"
    BY DEF Grants, Waiting
<1>3. r \in GoodRow
    BY <1>1, <1>2, GrantGood
<1>4. r \in Row
    BY <1>3 DEF GoodRow
<1>5. ProtectionOf(r, b) \in Protections
    BY <1>4 DEF ProtectionOf, Protections, ManuallyReleased, Row
<1>6. [r EXCEPT !.protection = ProtectionOf(r, b)] \in GoodRow
    BY <1>3, <1>5, MarkGood
<1>7. Settle(rows, b)[i] = IF Protectable(r)
                           THEN [r EXCEPT !.protection = ProtectionOf(r, b)] ELSE r
    BY DEF Settle
<1> QED
    BY <1>3, <1>6, <1>7

\* authenti8_reconcile_entitlement.
LEMMA ReconciledGood ==
    ASSUME NEW rows \in GoodRows, NEW b \in Bank
    PROVE  Reconciled(rows, b) \in GoodRows
BY EnsureAllowanceType, TrimGood, SettleGood DEF Reconciled

\* Any transaction that leaves coherent rows and a ledger, deferred triggers included.
LEMMA CommitGood ==
    ASSUME NEW rows \in GoodRows, NEW b \in Bank, bank \in Bank, Commit(rows, b)
    PROVE  iv' \in GoodRows /\ bank' \in Bank
BY ReconciledGood, EnsureAllowanceType DEF Commit

\* Writing one coherent row.
LEMMA WithGood ==
    ASSUME NEW rows \in GoodRows, NEW i \in Interviews, NEW r \in GoodRow
    PROVE  With(rows, i, r) \in GoodRows /\ With(rows, i, r)[i] = r
BY DEF With, GoodRows

\* A transaction that tries to reserve a credit, with or without a new allowance.
LEMMA CommitReservingGood ==
    ASSUME NEW rows \in GoodRows, NEW i \in Interviews, NEW r \in GoodRow,
           bank \in Bank, CommitReserving(rows, i, r)
    PROVE  iv' \in GoodRows /\ bank' \in Bank
BY CommitGood, WithGood, EnsureAllowanceType DEF CommitReserving

\* authenti8_reserve_credit.
LEMMA ReserveGood ==
    ASSUME NEW rows \in GoodRows, NEW b, NEW i \in Interviews
    PROVE  Reserve(rows, b, i) \in GoodRow
<1> DEFINE r == rows[i]
<1>1. r \in GoodRow
    BY DEF GoodRows
<1>2. {"RELEASED", "UNPROTECTED_SUBSCRIPTION", "UNPROTECTED_NO_CREDITS", "RESERVED"}
        \subseteq Protections
    BY DEF Protections
<1>3. CASE Reserve(rows, b, i) = r
    BY <1>1, <1>3
<1>4. CASE \E p \in Protections : Reserve(rows, b, i) = [r EXCEPT !.protection = p]
    BY <1>1, <1>4, MarkGood
<1>5. CASE /\ r.status = "DETECTED"
           /\ Reserve(rows, b, i) = [r EXCEPT !.resv = "RESERVED", !.reason = "NONE",
                                              !.protection = "RESERVED"]
    <2> DEFINE g == [r EXCEPT !.resv = "RESERVED", !.reason = "NONE"]
    <2>1. g \in GoodRow
        BY <1>1, <1>5, GrantGood
    <2>2. [g EXCEPT !.protection = "RESERVED"] \in GoodRow
        BY <1>2, <2>1, MarkGood
    <2>3. r \in Row
        BY <1>1 DEF GoodRow
    <2>4. Reserve(rows, b, i) = [g EXCEPT !.protection = "RESERVED"]
        BY <1>5, <2>3 DEF Row
    <2> QED
        BY <2>2, <2>4
<1>6. \/ Reserve(rows, b, i) = r
      \/ \E p \in Protections : Reserve(rows, b, i) = [r EXCEPT !.protection = p]
      \/ /\ r.status = "DETECTED"
         /\ Reserve(rows, b, i) = [r EXCEPT !.resv = "RESERVED", !.reason = "NONE",
                                            !.protection = "RESERVED"]
    BY <1>2 DEF Reserve, Reservable
<1> QED
    BY <1>3, <1>4, <1>5, <1>6

\* The credit trigger on interviews.
LEMMA CreditTriggerGood ==
    ASSUME NEW rows \in GoodRows, NEW b, NEW i \in Interviews
    PROVE  CreditTrigger(rows, b, i) \in GoodRow
<1> DEFINE r == rows[i]
<1>1. r \in GoodRow
    BY DEF GoodRows
<1>2. CASE r.status = "DETECTED" /\ ~Ended(r)
    BY <1>2, ReserveGood DEF CreditTrigger
<1>3. CASE (r.status = "DETECTED" /\ Ended(r)) \/ r.status \in {"CANCELLED", "EXCLUDED"}
    <2>1. Release(r, "INELIGIBLE") \in GoodRow
        BY <1>1, <1>3, ReleaseGood
    <2>2. [Release(r, "INELIGIBLE") EXCEPT !.protection = "RELEASED"] \in GoodRow
        BY <2>1, MarkGood DEF Protections
    <2> QED
        BY <1>3, <2>2 DEF CreditTrigger
<1>4. CASE r.status \notin {"DETECTED", "CANCELLED", "EXCLUDED"}
    BY <1>1, <1>4 DEF CreditTrigger
<1> QED
    BY <1>2, <1>3, <1>4

\* A transaction whose UPDATE fires the credit trigger.
LEMMA CommitWriteGood ==
    ASSUME NEW i \in Interviews, NEW r \in GoodRow, iv \in GoodRows, bank \in Bank,
           CommitWrite(i, r)
    PROVE  iv' \in GoodRows /\ bank' \in Bank
<1> DEFINE rows == With(iv, i, r)
<1>1. rows \in GoodRows
    BY WithGood
<1>2. CreditTrigger(rows, bank, i) \in GoodRow
    BY <1>1, CreditTriggerGood
<1>3. CommitReserving(rows, i, CreditTrigger(rows, bank, i))
    BY DEF CommitWrite
<1> HIDE DEF rows
<1> QED
    BY <1>1, <1>2, <1>3, CommitReservingGood

\* A transaction that writes one row and fires no trigger.
LEMMA UpdateGood ==
    ASSUME NEW i \in Interviews, NEW r \in GoodRow, iv \in GoodRows, bank \in Bank,
           Update(i, r)
    PROVE  iv' \in GoodRows /\ bank' \in Bank
BY WithGood DEF Update

\* authenti8_reserve_credit as a transaction of its own.
LEMMA ReserveCreditGood ==
    ASSUME NEW i \in Interviews, iv \in GoodRows, bank \in Bank, ReserveCredit(i)
    PROVE  iv' \in GoodRows /\ bank' \in Bank
BY ReserveGood, CommitReservingGood DEF ReserveCredit

-----------------------------------------------------------------------------
(* Actions keep rows coherent: the calendar *)

\* apply_calendar_sync, a new event.
LEMMA CalendarInsertGood ==
    ASSUME NEW i \in Interviews, NEW p \in Phases, iv \in GoodRows, bank \in Bank,
           CalendarInsert(i, p)
    PROVE  iv' \in GoodRows /\ bank' \in Bank
<1> DEFINE r == [NoRow EXCEPT !.status = "DETECTED", !.phase = p]
<1>1. 0 \in 0..MaxAttempts
    BY ConstantsAssumption
<1>2. r \in Row
    BY <1>1 DEF NoRow, Row, Statuses, Protections
<1>3. Coherent(r)
    BY DEF NoRow, Coherent, Charged, HasJob, HasSession, Backed, Unscheduled, Linked,
           InTime, Started
<1>4. r \in GoodRow
    BY <1>2, <1>3 DEF GoodRow
<1> QED
    BY <1>4, CommitWriteGood DEF CalendarInsert

\* Time and schedules move neither the status nor the reservation.
LEMMA PhaseType ==
    ASSUME NEW r \in Row, NEW p \in Phases
    PROVE  /\ [r EXCEPT !.phase = p] \in Row
           /\ [r EXCEPT !.phase = p].status = r.status
           /\ [r EXCEPT !.phase = p].resv = r.resv
BY DEF Row

\* The rescheduling branch of the trigger moves neither of them either.
LEMMA RescheduleType ==
    ASSUME NEW r \in Row, NEW p \in Phases
    PROVE  /\ [RescheduleJob(r) EXCEPT !.phase = p] \in Row
           /\ [RescheduleJob(r) EXCEPT !.phase = p].status = r.status
           /\ [RescheduleJob(r) EXCEPT !.phase = p].resv = r.resv
<1>1. 0 \in 0..MaxAttempts
    BY ConstantsAssumption
<1>2. /\ RescheduleJob(r) \in Row
      /\ RescheduleJob(r).status = r.status /\ RescheduleJob(r).resv = r.resv
    <2>1. CASE r.status = "VERIFICATION_SCHEDULED" /\ r.job # "COMPLETED"
        BY <1>1, <2>1 DEF RescheduleJob, Row
    <2>2. CASE ~(r.status = "VERIFICATION_SCHEDULED" /\ r.job # "COMPLETED")
        BY <2>2 DEF RescheduleJob
    <2> QED
        BY <2>1, <2>2
<1> QED
    BY <1>2, PhaseType

\* A new schedule, for a row whose verification has not been sent.
LEMMA RescheduleGood ==
    ASSUME NEW r \in GoodRow, NEW p \in Phases,
           r.status \notin {"CONSENT_PENDING", "DEVICE_CONNECTING"}
    PROVE  [RescheduleJob(r) EXCEPT !.phase = p] \in GoodRow
<1>1. r \in Row /\ Coherent(r)
    BY DEF GoodRow
<1>2. 0 \in 0..MaxAttempts
    BY ConstantsAssumption
<1> DEFINE q == RescheduleJob(r)
           e == [q EXCEPT !.phase = p]
<1>3. /\ q \in Row /\ q.status = r.status /\ q.resv = r.resv
      /\ q.consented = r.consented /\ q.token = r.token /\ q.mail = r.mail
      /\ q.job = IF r.status = "VERIFICATION_SCHEDULED" THEN "PENDING" ELSE r.job
    <2>1. CASE r.status = "VERIFICATION_SCHEDULED"
        <3>1. r.job # "COMPLETED"
            BY <1>1, <2>1 DEF Coherent, HasJob
        <3> QED
            BY <1>1, <1>2, <2>1, <3>1 DEF RescheduleJob, Row
    <2>2. CASE r.status # "VERIFICATION_SCHEDULED"
        BY <1>1, <2>2 DEF RescheduleJob, Row
    <2> QED
        BY <2>1, <2>2
<1> HIDE DEF q
<1>4. /\ e \in Row /\ e.status = r.status /\ e.resv = r.resv
      /\ e.consented = r.consented /\ e.token = r.token /\ e.mail = r.mail
      /\ e.job = IF r.status = "VERIFICATION_SCHEDULED" THEN "PENDING" ELSE r.job
    BY <1>3 DEF Row
<1>5. Coherent(e)
    <2> HIDE DEF e
    <2> QED
        BY <1>1, <1>4 DEF Coherent, Charged, HasJob, HasSession, Backed, Unscheduled,
                          Linked, InTime, Started
<1> QED
    BY <1>4, <1>5 DEF GoodRow, q

\* apply_calendar_sync, an event that exists already.
LEMMA CalendarUpsertGood ==
    ASSUME NEW i \in Interviews, NEW what, NEW p \in Phases, iv \in GoodRows, bank \in Bank,
           CalendarUpsert(i, what, p)
    PROVE  iv' \in GoodRows /\ bank' \in Bank
<1> DEFINE r == iv[i]
           dated == IF what = "schedule" THEN [RescheduleJob(r) EXCEPT !.phase = p] ELSE r
           back == \/ r.status \in {"CANCELLED", "EXCLUDED"}
                   \/ /\ r.status \in {"CONSENT_PENDING", "DEVICE_CONNECTING", "UNABLE_TO_VERIFY"}
                      /\ what \in {"schedule", "candidate"}
           row == IF back THEN Cleanup(dated, "DETECTED") ELSE dated
<1>1. r \in GoodRow /\ r \in Row /\ r.resv # "CONSUMED"
    BY DEF GoodRows, GoodRow, CalendarUpsert, Coherent, Charged
<1>2. dated \in Row /\ dated.status = r.status /\ dated.resv = r.resv
    BY <1>1, RescheduleType
<1>3. row \in GoodRow
    <2>1. CASE back
        <3> HIDE DEF dated
        <3>1. dated.status # "DETECTED" /\ dated.resv # "CONSUMED"
            BY <1>1, <1>2, <2>1
        <3> QED
            BY <1>2, <2>1, <3>1, CleanupGood
    <2>2. CASE ~back
        <3>1. CASE what = "schedule"
            BY <1>1, <2>2, <3>1, RescheduleGood
        <3>2. CASE what # "schedule"
            BY <1>1, <2>2, <3>2
        <3> QED
            BY <3>1, <3>2
    <2> QED
        BY <2>1, <2>2
<1>4. CommitWrite(i, row)
    BY DEF CalendarUpsert
<1> HIDE DEF row
<1> QED
    BY <1>3, <1>4, CommitWriteGood

\* apply_calendar_sync and the disconnections, an event that is gone.
LEMMA CalendarRemoveGood ==
    ASSUME NEW i \in Interviews, NEW cancelled, iv \in GoodRows, bank \in Bank,
           CalendarRemove(i, cancelled)
    PROVE  iv' \in GoodRows /\ bank' \in Bank
<1> DEFINE to == IF cancelled \/ iv[i].status = "DEVICE_CONNECTING"
                 THEN "CANCELLED" ELSE "EXCLUDED"
<1>1. iv[i] \in GoodRow /\ iv[i] \in Row /\ iv[i].resv # "CONSUMED"
    BY DEF GoodRows, GoodRow, CalendarRemove, Coherent, Charged, Withdrawable,
           BeforeMonitoring, Started
<1>2. to \in {"DETECTED", "CANCELLED", "EXCLUDED"}
    OBVIOUS
<1>3. CommitWrite(i, Cleanup(iv[i], to))
    BY DEF CalendarRemove
<1> HIDE DEF to
<1>4. Cleanup(iv[i], to) \in GoodRow
    BY <1>1, <1>2, CleanupGood
<1> QED
    BY <1>3, <1>4, CommitWriteGood

-----------------------------------------------------------------------------
(* Actions keep rows coherent: the orchestrator *)

\* The first loop of the orchestrator.
LEMMA ExpireWindowGood ==
    ASSUME NEW i \in Interviews, iv \in GoodRows, bank \in Bank, ExpireWindow(i)
    PROVE  iv' \in GoodRows /\ bank' \in Bank
<1>1. iv[i] \in Row /\ iv[i].resv # "CONSUMED"
    BY DEF GoodRows, GoodRow, ExpireWindow, Coherent, Charged, Started
<1>2. Expire(iv[i]) \in GoodRow
    BY <1>1, ExpireGood
<1> QED
    BY <1>2, WithGood DEF ExpireWindow

\* A status that neither verifies nor starts, for a row that is not charged.
LEMMA RefusedGood ==
    ASSUME NEW r \in GoodRow, NEW st \in {"NO_CREDITS", "SUBSCRIPTION_INACTIVE"},
           r.status \in {"DETECTED", "PROTECTED"}
    PROVE  [r EXCEPT !.status = st] \in GoodRow
<1> DEFINE e == [r EXCEPT !.status = st]
<1>1. r \in Row /\ Coherent(r)
    BY DEF GoodRow
<1>2. st \in Statuses
    BY DEF Statuses
<1>3. e \in Row
    BY <1>1, <1>2 DEF Row
<1>4. /\ e.status = st /\ e.resv = r.resv /\ e.consented = r.consented
      /\ e.job = r.job /\ e.token = r.token /\ e.mail = r.mail
    BY <1>1 DEF Row
<1>5. Coherent(e)
    <2> HIDE DEF e
    <2> QED
        BY <1>1, <1>4 DEF Coherent, Charged, HasJob, HasSession, Backed, Unscheduled,
                          Linked, InTime, Started
<1> QED
    BY <1>3, <1>5 DEF GoodRow

\* DETECTED -> PROTECTED.
LEMMA ProtectedGood ==
    ASSUME NEW r \in GoodRow, r.status \in {"DETECTED", "PROTECTED"}
    PROVE  [r EXCEPT !.status = "PROTECTED"] \in GoodRow
<1> DEFINE e == [r EXCEPT !.status = "PROTECTED"]
<1>1. r \in Row /\ Coherent(r)
    BY DEF GoodRow
<1>2. e \in Row
    BY <1>1 DEF Row, Statuses
<1>3. /\ e.status = "PROTECTED" /\ e.resv = r.resv /\ e.consented = r.consented
      /\ e.job = r.job /\ e.token = r.token /\ e.mail = r.mail
    BY <1>1 DEF Row
<1>4. Coherent(e)
    <2> HIDE DEF e
    <2> QED
        BY <1>1, <1>3 DEF Coherent, Charged, HasJob, HasSession, Backed, Unscheduled,
                          Linked, InTime, Started
<1> QED
    BY <1>2, <1>4 DEF GoodRow

\* -> VERIFICATION_SCHEDULED, with a fresh job.
LEMMA ScheduledGood ==
    ASSUME NEW r \in GoodRow, NEW late \in BOOLEAN, r.status \in {"DETECTED", "PROTECTED"}
    PROVE  [r EXCEPT !.status = "VERIFICATION_SCHEDULED", !.stale = late,
                     !.job = "PENDING"] \in GoodRow
<1> DEFINE e == [r EXCEPT !.status = "VERIFICATION_SCHEDULED", !.stale = late,
                          !.job = "PENDING"]
<1>1. r \in Row /\ Coherent(r)
    BY DEF GoodRow
<1>2. e \in Row
    BY <1>1 DEF Row, Statuses
<1>3. /\ e.status = "VERIFICATION_SCHEDULED" /\ e.resv = r.resv
      /\ e.consented = r.consented /\ e.job = "PENDING"
      /\ e.token = r.token /\ e.mail = r.mail
    BY <1>1 DEF Row
<1>4. Coherent(e)
    <2> HIDE DEF e
    <2> QED
        BY <1>1, <1>3 DEF Coherent, Charged, HasJob, HasSession, Backed, Unscheduled,
                          Linked, InTime, Started
<1> QED
    BY <1>2, <1>4 DEF GoodRow

\* The orchestrator returns a refused interview to DETECTED.
LEMMA ReviveGood ==
    ASSUME NEW s \in Snapshot, iv \in GoodRows, bank \in Bank, Revive(s)
    PROVE  iv' \in GoodRows /\ bank' \in Bank
<1> DEFINE i == s.interview
<1>1. i \in Interviews
    BY DEF Snapshot
<1>2. CASE iv[i].status = s.status
    <2>1. CommitWrite(i, Cleanup(iv[i], "DETECTED"))
        BY <1>2 DEF Revive
    <2>2. iv[i] \in Row /\ iv[i] \in GoodRow /\ iv[i].resv # "CONSUMED"
        BY <1>1, <1>2 DEF Revive, GoodRows, GoodRow, Coherent, Charged, Started
    <2>3. Cleanup(iv[i], "DETECTED") \in GoodRow
        BY <2>2, CleanupGood
    <2> QED
        BY <1>1, <2>1, <2>3, CommitWriteGood
<1>3. CASE iv[i].status # s.status
    <2>1. ReserveCredit(i)
        BY <1>3 DEF Revive
    <2> QED
        BY <1>1, <2>1, ReserveCreditGood
<1> QED
    BY <1>2, <1>3

\* The orchestrator refuses an interview without credit or subscription.
LEMMA RefuseGood ==
    ASSUME NEW s \in Snapshot, iv \in GoodRows, bank \in Bank, Refuse(s)
    PROVE  iv' \in GoodRows /\ bank' \in Bank
<1> DEFINE i == s.interview
<1>1. i \in Interviews
    BY DEF Snapshot
<1>2. bank' \in Bank
    BY DEF Refuse
<1>3. CASE iv[i].status # s.status
    BY <1>2, <1>3 DEF Refuse
<1>4. CASE iv[i].status = s.status
    <2>1. /\ s.status \in {"DETECTED", "PROTECTED"}
          /\ Refusal(s) \in {"NO_CREDITS", "SUBSCRIPTION_INACTIVE"}
        BY DEF Refuse, Refusal
    <2>2. iv[i] \in GoodRow
        BY <1>1 DEF GoodRows
    <2>3. [iv[i] EXCEPT !.status = Refusal(s)] \in GoodRow
        BY <1>4, <2>1, <2>2, RefusedGood
    <2>4. iv' = With(iv, i, [iv[i] EXCEPT !.status = Refusal(s)])
        BY <1>1, <1>4 DEF Refuse, With, GoodRows
    <2> QED
        BY <1>1, <1>2, <2>3, <2>4, WithGood
<1> QED
    BY <1>3, <1>4

\* The orchestrator schedules a verification.
LEMMA AdvanceGood ==
    ASSUME NEW s \in Snapshot, iv \in GoodRows, bank \in Bank, Advance(s)
    PROVE  iv' \in GoodRows /\ bank' \in Bank
<1> DEFINE i == s.interview
           r == iv[i]
           moves == r.status = s.status \/ (s.status = "DETECTED" /\ r.status = "PROTECTED")
           e == [r EXCEPT !.status = "VERIFICATION_SCHEDULED", !.stale = s.moved,
                          !.job = IF @ = "COMPLETED" THEN @ ELSE "PENDING"]
<1>1. i \in Interviews /\ s.moved \in BOOLEAN
    BY DEF Snapshot
<1>2. bank' \in Bank
    BY DEF Advance
<1>3. CASE ~moves
    BY <1>2, <1>3 DEF Advance
<1>4. CASE moves
    <2>1. r \in GoodRow /\ r.status \in {"DETECTED", "PROTECTED"}
        BY <1>1, <1>4 DEF Advance, GoodRows
    <2>2. CASE s.far
        <3>1. iv' = With(iv, i, [r EXCEPT !.status = "PROTECTED"])
            BY <1>1, <1>4, <2>2 DEF Advance, With, GoodRows
        <3>2. [r EXCEPT !.status = "PROTECTED"] \in GoodRow
            BY <2>1, ProtectedGood
        <3> QED
            BY <1>1, <1>2, <3>1, <3>2, WithGood
    <2>3. CASE ~s.far
        <3>1. iv' = With(iv, i, e)
            BY <1>1, <1>4, <2>3 DEF Advance, With
        <3>2. r \in Row /\ r.job = "NONE"
            BY <2>1 DEF GoodRow, Coherent, Unscheduled
        <3>3. e = [r EXCEPT !.status = "VERIFICATION_SCHEDULED", !.stale = s.moved,
                            !.job = "PENDING"]
            BY <3>2
        <3>4. e \in GoodRow
            BY <1>1, <2>1, <3>3, ScheduledGood
        <3> QED
            BY <1>1, <1>2, <3>1, <3>4, WithGood
    <2> QED
        BY <2>2, <2>3
<1> QED
    BY <1>3, <1>4

\* The body of the second loop of the orchestrator, whatever row it had read.
LEMMA OrchestratorApplyGood ==
    ASSUME NEW s \in Snapshot, iv \in GoodRows, bank \in Bank, OrchestratorApply(s)
    PROVE  iv' \in GoodRows /\ bank' \in Bank
<1>1. CASE Revive(s)
    BY <1>1, ReviveGood
<1>2. CASE Refuse(s)
    BY <1>2, RefuseGood
<1>3. CASE Advance(s)
    BY <1>3, AdvanceGood
<1>4. CASE Keep(s)
    BY <1>4 DEF Keep
<1> QED
    BY <1>1, <1>2, <1>3, <1>4 DEF OrchestratorApply

-----------------------------------------------------------------------------
(* Actions keep rows coherent: verification delivery *)

\* A job leaves the queue with its interview.
LEMMA CancelledGood ==
    ASSUME NEW r \in GoodRow, r.status = "VERIFICATION_SCHEDULED",
           NEW st \in {"NO_CREDITS", "SUBSCRIPTION_INACTIVE"}
    PROVE  [r EXCEPT !.job = "CANCELLED", !.status = st] \in GoodRow
<1> DEFINE e == [r EXCEPT !.job = "CANCELLED", !.status = st]
<1>1. r \in Row /\ Coherent(r)
    BY DEF GoodRow
<1>2. e \in Row
    BY <1>1 DEF Row, Statuses, Protections
<1>3. /\ e.status = st /\ e.job = "CANCELLED" /\ e.resv = r.resv
      /\ e.phase = r.phase /\ e.stale = r.stale /\ e.consented = r.consented
      /\ e.token = r.token /\ e.mail = r.mail
    BY <1>1 DEF Row
<1>4. Coherent(e)
    <2> HIDE DEF e
    <2> QED
        BY <1>1, <1>3 DEF Coherent, Charged, HasJob, HasSession, Backed, Unscheduled,
                          Linked, InTime, DeliveryTime, Started
<1> QED
    BY <1>2, <1>4 DEF GoodRow

\* A job is leased when its time has come.
LEMMA LeasedGood ==
    ASSUME NEW r \in GoodRow, NEW w \in Workers, Claimable(r),
           r.status = "VERIFICATION_SCHEDULED"
    PROVE  /\ r.attempts + 1 \in 0..MaxAttempts
           /\ [r EXCEPT !.job = "PROCESSING", !.attempts = r.attempts + 1,
                        !.owner = w, !.leased = TRUE] \in GoodRow
<1> DEFINE n == r.attempts + 1
           e == [r EXCEPT !.job = "PROCESSING", !.attempts = n, !.owner = w, !.leased = TRUE]
<1>1. r \in Row /\ Coherent(r)
    BY DEF GoodRow
<1>2. n \in 0..MaxAttempts
    <2>1. r.attempts \in 0..MaxAttempts /\ r.attempts < MaxAttempts
        BY <1>1 DEF Row, Claimable
    <2> QED
        BY <2>1, ConstantsAssumption
<1> HIDE DEF n
<1>3. e \in Row
    BY <1>1, <1>2 DEF Row
<1>4. /\ e.status = r.status /\ e.job = "PROCESSING" /\ e.resv = r.resv
      /\ e.phase = r.phase /\ e.stale = r.stale /\ e.consented = r.consented
      /\ e.token = r.token /\ e.mail = r.mail
    BY <1>1 DEF Row
<1>5. ~r.stale => DeliveryTime(r)
    BY <1>1 DEF Claimable, Coherent, InTime
<1>6. Coherent(e)
    <2> HIDE DEF e
    <2> QED
        BY <1>1, <1>4, <1>5 DEF Coherent, Charged, HasJob, HasSession, Backed, Unscheduled,
                                Linked, InTime, DeliveryTime, Started
<1> QED
    BY <1>2, <1>3, <1>6 DEF GoodRow, n

\* authenti8_claim_verification_delivery, when the revalidation fails.
LEMMA ClaimRefusedGood ==
    ASSUME NEW r \in GoodRow, Claimable(r)
    PROVE  ClaimRefused(r) \in GoodRow
<1>1. r \in Row /\ Coherent(r)
    BY DEF GoodRow
<1>2. r.status = "VERIFICATION_SCHEDULED"
    BY <1>1 DEF Claimable, Coherent, HasJob
<1>3. CASE r.status = "VERIFICATION_SCHEDULED" /\ Ended(r)
    <2>1. r.resv # "CONSUMED"
        BY <1>1, <1>3 DEF Coherent, Charged, Started
    <2> QED
        BY <1>1, <1>3, <2>1, ExpireGood DEF ClaimRefused
<1>4. CASE r.status = "VERIFICATION_SCHEDULED" /\ ~Ended(r)
    <2> DEFINE st == IF bank.active THEN "NO_CREDITS" ELSE "SUBSCRIPTION_INACTIVE"
    <2>1. [r EXCEPT !.job = "CANCELLED", !.status = st] \in GoodRow
        BY <1>4, CancelledGood
    <2> QED
        BY <1>4, <2>1 DEF ClaimRefused
<1> QED
    BY <1>2, <1>3, <1>4 DEF Ended

\* authenti8_claim_verification_delivery.
LEMMA ClaimDeliveryGood ==
    ASSUME NEW w \in Workers, NEW i \in Interviews, iv \in GoodRows, bank \in Bank,
           ClaimDelivery(w, i)
    PROVE  iv' \in GoodRows /\ bank' \in Bank
<1> DEFINE r == iv[i]
<1>1. r \in GoodRow /\ Claimable(r)
    BY DEF GoodRows, ClaimDelivery
<1>2. CASE Deliverable(r) /\ ~Ended(r)
    <2>1. r.status = "VERIFICATION_SCHEDULED"
        BY <1>2 DEF Deliverable
    <2>2. Update(i, [r EXCEPT !.job = "PROCESSING", !.attempts = r.attempts + 1,
                              !.owner = w, !.leased = TRUE])
        BY <1>2 DEF ClaimDelivery
    <2> QED
        BY <1>1, <2>1, <2>2, LeasedGood, UpdateGood
<1>3. CASE ~(Deliverable(r) /\ ~Ended(r))
    <2>1. Update(i, ClaimRefused(r))
        BY <1>3 DEF ClaimDelivery
    <2> QED
        BY <1>1, <2>1, ClaimRefusedGood, UpdateGood
<1> QED
    BY <1>2, <1>3

\* A lease runs out.
LEMMA LeaseGood ==
    ASSUME NEW r \in GoodRow
    PROVE  [r EXCEPT !.leased = FALSE] \in GoodRow
<1> DEFINE e == [r EXCEPT !.leased = FALSE]
<1>1. r \in Row /\ Coherent(r)
    BY DEF GoodRow
<1>2. e \in Row
    BY <1>1 DEF Row, Statuses, Protections
<1>3. /\ e.status = r.status /\ e.job = r.job /\ e.resv = r.resv
      /\ e.phase = r.phase /\ e.stale = r.stale /\ e.consented = r.consented
      /\ e.token = r.token /\ e.mail = r.mail
    BY <1>1 DEF Row
<1>4. Coherent(e)
    <2> HIDE DEF e
    <2> QED
        BY <1>1, <1>3 DEF Coherent, Charged, HasJob, HasSession, Backed, Unscheduled,
                          Linked, InTime, DeliveryTime, Started
<1> QED
    BY <1>2, <1>4 DEF GoodRow

\* Time passes for a lease.
LEMMA LeaseExpiresGood ==
    ASSUME NEW i \in Interviews, iv \in GoodRows, bank \in Bank, LeaseExpires(i)
    PROVE  iv' \in GoodRows /\ bank' \in Bank
<1>1. [iv[i] EXCEPT !.leased = FALSE] \in GoodRow
    BY LeaseGood DEF GoodRows
<1>2. iv' = With(iv, i, [iv[i] EXCEPT !.leased = FALSE])
    BY DEF LeaseExpires, With, GoodRows
<1>3. bank' = bank
    BY DEF LeaseExpires
<1> QED
    BY <1>1, <1>2, <1>3, WithGood

\* The invitation is queued while the job is in time and the credit is held.
LEMMA DeliveredGood ==
    ASSUME NEW r \in GoodRow, Deliverable(r), r.job = "PROCESSING"
    PROVE  Delivered(r) \in GoodRow
<1> DEFINE e == Delivered(r)
<1>1. r \in Row /\ Coherent(r)
    BY DEF GoodRow
<1>2. e \in Row
    BY <1>1 DEF Delivered, Row, Statuses
<1>3. /\ e.status = "CONSENT_PENDING" /\ e.job = "COMPLETED" /\ e.resv = r.resv
      /\ e.phase = r.phase /\ e.stale = r.stale /\ e.consented = r.consented
    BY <1>1 DEF Delivered, Row
<1>4. /\ r.status = "VERIFICATION_SCHEDULED" /\ r.resv = "RESERVED"
      /\ ~r.stale => DeliveryTime(r)
    BY <1>1 DEF Deliverable, Coherent, Charged, InTime, Started
<1>5. Coherent(e)
    <2> HIDE DEF e
    <2> QED
        BY <1>1, <1>3, <1>4 DEF Coherent, Charged, HasJob, HasSession, Backed, Unscheduled,
                                Linked, InTime, DeliveryTime, Started
<1> QED
    BY <1>2, <1>5 DEF GoodRow

\* authenti8_complete_verification_delivery.
LEMMA CompleteDeliveryGood ==
    ASSUME NEW c \in Claim, iv \in GoodRows, bank \in Bank, CompleteDelivery(c)
    PROVE  iv' \in GoodRows /\ bank' \in Bank
<1> DEFINE i == c.interview
           r == iv[i]
<1>1. i \in Interviews
    BY DEF Claim
<1>2. r \in GoodRow /\ r \in Row /\ Coherent(r)
    BY <1>1 DEF GoodRows, GoodRow
<1>3. CASE ~Holds(c)
    BY <1>3 DEF CompleteDelivery
<1>4. CASE Holds(c) /\ Deliverable(r)
    <2>1. Update(i, Delivered(r)) /\ r.job = "PROCESSING"
        BY <1>4 DEF CompleteDelivery, Holds
    <2> QED
        BY <1>1, <1>2, <1>4, <2>1, DeliveredGood, UpdateGood
<1>5. CASE Holds(c) /\ ~Deliverable(r)
    <2>1. CASE r.status = "VERIFICATION_SCHEDULED"
        <3>1. Update(i, Expire(r))
            BY <1>5, <2>1 DEF CompleteDelivery
        <3>2. r.resv # "CONSUMED"
            BY <1>2, <2>1 DEF Coherent, Charged, Started
        <3> QED
            BY <1>1, <1>2, <3>1, <3>2, ExpireGood, UpdateGood
    <2>2. CASE r.status # "VERIFICATION_SCHEDULED"
        <3>1. Update(i, r)
            BY <1>5, <2>2 DEF CompleteDelivery
        <3> QED
            BY <1>1, <1>2, <3>1, UpdateGood
    <2> QED
        BY <2>1, <2>2
<1> QED
    BY <1>3, <1>4, <1>5

\* A failed attempt is put back.
LEMMA RetriedGood ==
    ASSUME NEW r \in GoodRow, r.job = "PROCESSING"
    PROVE  [r EXCEPT !.job = "PENDING", !.leased = FALSE] \in GoodRow
<1> DEFINE e == [r EXCEPT !.job = "PENDING", !.leased = FALSE]
<1>1. r \in Row /\ Coherent(r)
    BY DEF GoodRow
<1>2. e \in Row
    BY <1>1 DEF Row, Statuses, Protections
<1>3. /\ e.status = r.status /\ e.job = "PENDING" /\ e.resv = r.resv
      /\ e.phase = r.phase /\ e.stale = r.stale /\ e.consented = r.consented
      /\ e.token = r.token /\ e.mail = r.mail
    BY <1>1 DEF Row
<1>4. Coherent(e)
    <2> HIDE DEF e
    <2> QED
        BY <1>1, <1>3 DEF Coherent, Charged, HasJob, HasSession, Backed, Unscheduled,
                          Linked, InTime, DeliveryTime, Started
<1> QED
    BY <1>2, <1>4 DEF GoodRow

\* The last failed attempt ends the verification.
LEMMA FailedGood ==
    ASSUME NEW r \in GoodRow, r.job = "PROCESSING"
    PROVE  Failed(r) \in GoodRow
<1>1. r \in Row /\ Coherent(r) /\ r.status = "VERIFICATION_SCHEDULED"
    BY DEF GoodRow, Coherent, HasJob
<1>2. CASE r.attempts < MaxAttempts
    BY <1>2, RetriedGood DEF Failed
<1>3. CASE ~(r.attempts < MaxAttempts)
    <2> DEFINE q == Release(r, "INELIGIBLE")
               e == [q EXCEPT !.job = "FAILED", !.leased = FALSE, !.protection = "RELEASED",
                              !.status = "UNABLE_TO_VERIFY"]
    <2>1. q \in Row
        BY <1>1, ReleaseType
    <2>2. /\ q.status = r.status /\ q.resv # "CONSUMED" /\ q.consented = r.consented
          /\ q.token = r.token /\ q.mail = r.mail
        BY <1>1 DEF Release, Row, Coherent, Charged, Started
    <2> HIDE DEF q
    <2>3. Failed(r) = e
        BY <1>1, <1>3, <2>1, <2>2 DEF Failed, q
    <2>4. e \in Row
        <3>1. /\ "FAILED" \in {"NONE", "PENDING", "PROCESSING", "COMPLETED", "CANCELLED", "FAILED"}
              /\ "RELEASED" \in Protections /\ "UNABLE_TO_VERIFY" \in Statuses
            BY DEF Statuses, Protections
        <3> QED
            BY <2>1, <3>1 DEF Row
    <2>5. /\ e.status = "UNABLE_TO_VERIFY" /\ e.job = "FAILED" /\ e.resv # "CONSUMED"
          /\ e.consented = r.consented /\ e.token = r.token /\ e.mail = r.mail
        BY <2>1, <2>2 DEF Row
    <2>6. Coherent(e)
        <3> HIDE DEF e
        <3> QED
            BY <1>1, <2>5 DEF Coherent, Charged, HasJob, HasSession, Backed, Unscheduled,
                              Linked, InTime, Started
    <2> QED
        BY <2>3, <2>4, <2>6 DEF GoodRow
<1> QED
    BY <1>2, <1>3

\* authenti8_fail_verification_delivery, called by the worker.
LEMMA FailDeliveryGood ==
    ASSUME NEW c \in Claim, iv \in GoodRows, bank \in Bank, FailDelivery(c)
    PROVE  iv' \in GoodRows /\ bank' \in Bank
<1> DEFINE i == c.interview
<1>1. i \in Interviews
    BY DEF Claim
<1>2. CASE Holds(c)
    <2>1. Update(i, Failed(iv[i])) /\ iv[i].job = "PROCESSING"
        BY <1>2 DEF FailDelivery, Holds
    <2>2. Failed(iv[i]) \in GoodRow
        BY <1>1, <2>1, FailedGood DEF GoodRows
    <2> QED
        BY <1>1, <2>1, <2>2, UpdateGood
<1>3. CASE ~Holds(c)
    BY <1>3 DEF FailDelivery
<1> QED
    BY <1>2, <1>3

\* The same, for a job whose last lease ran out.
LEMMA FailExhaustedGood ==
    ASSUME NEW i \in Interviews, iv \in GoodRows, bank \in Bank, FailExhausted(i)
    PROVE  iv' \in GoodRows /\ bank' \in Bank
<1>1. Failed(iv[i]) \in GoodRow
    BY FailedGood DEF GoodRows, FailExhausted
<1> QED
    BY <1>1, UpdateGood DEF FailExhausted

-----------------------------------------------------------------------------
(* Actions keep rows coherent: e-mail, consent, monitoring *)

\* A message is delivered or given up.
LEMMA MailGoneGood ==
    ASSUME NEW r \in GoodRow
    PROVE  [r EXCEPT !.mail = FALSE] \in GoodRow
<1> DEFINE e == [r EXCEPT !.mail = FALSE]
<1>1. r \in Row /\ Coherent(r)
    BY DEF GoodRow
<1>2. e \in Row
    BY <1>1 DEF Row, Statuses, Protections
<1>3. /\ e.status = r.status /\ e.job = r.job /\ e.resv = r.resv
      /\ e.phase = r.phase /\ e.stale = r.stale /\ e.consented = r.consented
      /\ e.token = r.token /\ e.mail = FALSE
    BY <1>1 DEF Row
<1>4. Coherent(e)
    <2> HIDE DEF e
    <2> QED
        BY <1>1, <1>3 DEF Coherent, Charged, HasJob, HasSession, Backed, Unscheduled,
                          Linked, InTime, DeliveryTime, Started
<1> QED
    BY <1>2, <1>4 DEF GoodRow

\* A link is withdrawn.
LEMMA LinkGoneGood ==
    ASSUME NEW r \in GoodRow
    PROVE  [r EXCEPT !.token = FALSE] \in GoodRow
<1> DEFINE e == [r EXCEPT !.token = FALSE]
<1>1. r \in Row /\ Coherent(r)
    BY DEF GoodRow
<1>2. e \in Row
    BY <1>1 DEF Row, Statuses, Protections
<1>3. /\ e.status = r.status /\ e.job = r.job /\ e.resv = r.resv
      /\ e.phase = r.phase /\ e.stale = r.stale /\ e.consented = r.consented
      /\ e.token = FALSE /\ e.mail = r.mail
    BY <1>1 DEF Row
<1>4. Coherent(e)
    <2> HIDE DEF e
    <2> QED
        BY <1>1, <1>3 DEF Coherent, Charged, HasJob, HasSession, Backed, Unscheduled,
                          Linked, InTime, DeliveryTime, Started
<1> QED
    BY <1>2, <1>4 DEF GoodRow

\* An invitation that cannot be delivered ends the verification.
LEMMA UnreachableGood ==
    ASSUME NEW r \in GoodRow, r.mail = FALSE
    PROVE  Unreachable(r) \in GoodRow
<1>1. r \in Row /\ Coherent(r)
    BY DEF GoodRow
<1>2. CASE r.status # "CONSENT_PENDING"
    BY <1>2 DEF Unreachable
<1>3. CASE r.status = "CONSENT_PENDING"
    <2> DEFINE q == Release(r, "INELIGIBLE")
               f == Unprotect(q)
               e == [f EXCEPT !.status = "UNABLE_TO_VERIFY"]
    <2>1. q \in Row
        BY <1>1, ReleaseType
    <2>2. /\ q.resv # "CONSUMED" /\ q.consented = 0 /\ q.mail = FALSE
          /\ q.job \notin {"PENDING", "PROCESSING"}
        BY <1>1, <1>3 DEF Release, Row, Coherent, Charged, HasJob, HasSession, Started
    <2> HIDE DEF q
    <2>3. /\ f \in Row /\ f.resv # "CONSUMED" /\ f.consented = 0 /\ f.mail = FALSE
          /\ f.job \notin {"PENDING", "PROCESSING"}
        BY <2>1, <2>2 DEF Unprotect, Row, Protections
    <2>4. Unreachable(r) = e
        BY <1>3 DEF Unreachable, q
    <2> HIDE DEF f
    <2>5. /\ e \in Row /\ e.status = "UNABLE_TO_VERIFY" /\ e.resv # "CONSUMED"
          /\ e.consented = 0 /\ e.mail = FALSE /\ e.job \notin {"PENDING", "PROCESSING"}
        BY <2>3 DEF Row, Statuses
    <2>6. Coherent(e)
        <3> HIDE DEF e
        <3> QED
            BY <2>5 DEF Coherent, Charged, HasJob, HasSession, Backed, Unscheduled,
                        Linked, InTime, Started
    <2> QED
        BY <2>4, <2>5, <2>6 DEF GoodRow
<1> QED
    BY <1>2, <1>3

\* The three ways in which a message leaves the outbox.
LEMMA EmailGood ==
    ASSUME NEW i \in Interviews, iv \in GoodRows, bank \in Bank,
           EmailSent(i) \/ EmailUndeliverable(i) \/ EmailFailed(i)
    PROVE  iv' \in GoodRows /\ bank' \in Bank
<1> DEFINE r == [iv[i] EXCEPT !.mail = FALSE]
           t == [r EXCEPT !.token = FALSE]
<1>1. r \in GoodRow /\ r \in Row
    BY MailGoneGood DEF GoodRows, GoodRow
<1>2. iv[i] \in Row
    BY DEF GoodRows, GoodRow
<1>3. r.mail = FALSE
    BY <1>2 DEF Row
<1>4. t \in GoodRow /\ t.mail = FALSE
    <2> HIDE DEF r
    <2> QED
        BY <1>1, <1>3, LinkGoneGood DEF Row
<1>5. Unreachable(r) \in GoodRow
    BY <1>1, <1>3, UnreachableGood
<1>6. Unreachable(t) \in GoodRow
    BY <1>4, UnreachableGood
<1>7. Update(i, r) \/ Update(i, Unreachable(r)) \/ Update(i, Unreachable(t))
    BY DEF EmailSent, EmailUndeliverable, EmailFailed
<1> QED
    BY <1>1, <1>5, <1>6, <1>7, UpdateGood

\* The candidate accepts: the credit stays, a session is opened.
LEMMA AcceptedGood ==
    ASSUME NEW r \in GoodRow, r.status = "CONSENT_PENDING", r.resv = "RESERVED"
    PROVE  [r EXCEPT !.token = FALSE, !.status = "DEVICE_CONNECTING", !.consented = 1] \in GoodRow
<1> DEFINE e == [r EXCEPT !.token = FALSE, !.status = "DEVICE_CONNECTING", !.consented = 1]
<1>1. r \in Row /\ Coherent(r)
    BY DEF GoodRow
<1>2. e \in Row
    BY <1>1 DEF Row, Statuses, Protections
<1>3. /\ e.status = "DEVICE_CONNECTING" /\ e.job = r.job /\ e.resv = r.resv
      /\ e.phase = r.phase /\ e.stale = r.stale /\ e.consented = 1
      /\ e.token = FALSE /\ e.mail = r.mail
    BY <1>1 DEF Row
<1>4. Coherent(e)
    <2> HIDE DEF e
    <2> QED
        BY <1>1, <1>3 DEF Coherent, Charged, HasJob, HasSession, Backed, Unscheduled,
                          Linked, InTime, DeliveryTime, Started
<1> QED
    BY <1>2, <1>4 DEF GoodRow

\* The candidate declines: the credit is released.
LEMMA DeclinedGood ==
    ASSUME NEW r \in GoodRow, r.status = "CONSENT_PENDING"
    PROVE  [r EXCEPT !.token = FALSE, !.resv = "RELEASED", !.reason = "INELIGIBLE",
                     !.status = "CONSENT_DECLINED", !.protection = "RELEASED"] \in GoodRow
<1> DEFINE e == [r EXCEPT !.token = FALSE, !.resv = "RELEASED", !.reason = "INELIGIBLE",
                     !.status = "CONSENT_DECLINED", !.protection = "RELEASED"]
<1>1. r \in Row /\ Coherent(r)
    BY DEF GoodRow
<1>2. e \in Row
    BY <1>1 DEF Row, Statuses, Protections
<1>3. /\ e.status = "CONSENT_DECLINED" /\ e.job = r.job /\ e.resv = "RELEASED"
      /\ e.phase = r.phase /\ e.stale = r.stale /\ e.consented = r.consented
      /\ e.token = FALSE /\ e.mail = r.mail
    BY <1>1 DEF Row
<1>4. Coherent(e)
    <2> HIDE DEF e
    <2> QED
        BY <1>1, <1>3 DEF Coherent, Charged, HasJob, HasSession, Backed, Unscheduled,
                          Linked, InTime, DeliveryTime, Started
<1> QED
    BY <1>2, <1>4 DEF GoodRow

\* authenti8_record_candidate_consent.
LEMMA RecordConsentGood ==
    ASSUME NEW i \in Interviews, NEW accepted \in BOOLEAN, iv \in GoodRows, bank \in Bank,
           RecordConsent(i, accepted)
    PROVE  iv' \in GoodRows /\ bank' \in Bank
<1> DEFINE q == iv[i]
           r == [q EXCEPT !.token = FALSE]
<1>1. q \in GoodRow /\ q \in Row /\ Coherent(q)
    BY DEF GoodRows, GoodRow
<1>2. q.status = "CONSENT_PENDING" /\ q.resv = "RESERVED"
    BY <1>1 DEF RecordConsent, Row
<1>3. CASE accepted
    <2> DEFINE e == [q EXCEPT !.token = FALSE, !.status = "DEVICE_CONNECTING", !.consented = 1]
    <2>1. Update(i, [r EXCEPT !.status = "DEVICE_CONNECTING", !.consented = r.consented + 1])
        BY <1>3 DEF RecordConsent
    <2>2. q.consented = 0
        BY <1>1, <1>2 DEF Coherent, HasSession
    <2>3. [r EXCEPT !.status = "DEVICE_CONNECTING", !.consented = r.consented + 1] = e
        <3>1. r.consented + 1 = 1
            BY <1>1, <2>2 DEF Row
        <3> QED
            BY <1>1, <3>1 DEF Row
    <2>4. e \in GoodRow
        BY <1>1, <1>2, AcceptedGood
    <2> QED
        BY <2>1, <2>3, <2>4, UpdateGood
<1>4. CASE ~accepted
    <2> DEFINE e == [q EXCEPT !.token = FALSE, !.resv = "RELEASED", !.reason = "INELIGIBLE",
                              !.status = "CONSENT_DECLINED", !.protection = "RELEASED"]
    <2>1. Update(i, [Release(r, "INELIGIBLE") EXCEPT
                        !.status = "CONSENT_DECLINED", !.protection = "RELEASED"])
        BY <1>4 DEF RecordConsent
    <2>2. [Release(r, "INELIGIBLE") EXCEPT
              !.status = "CONSENT_DECLINED", !.protection = "RELEASED"] = e
        BY <1>1, <1>2 DEF Release, Row
    <2>3. e \in GoodRow
        BY <1>1, <1>2, DeclinedGood
    <2> QED
        BY <2>1, <2>2, <2>3, UpdateGood
<1> QED
    BY <1>3, <1>4

\* Monitoring starts: the credit is consumed and the session taken.
LEMMA StartedGood ==
    ASSUME NEW r \in GoodRow, r.status = "DEVICE_CONNECTING"
    PROVE  [r EXCEPT !.status = "MONITORING_ACTIVE", !.protection = "CONSUMED",
                     !.resv = "CONSUMED", !.consented = 0] \in GoodRow
<1> DEFINE e == [r EXCEPT !.status = "MONITORING_ACTIVE", !.protection = "CONSUMED",
                     !.resv = "CONSUMED", !.consented = 0]
<1>1. r \in Row /\ Coherent(r)
    BY DEF GoodRow
<1>2. e \in Row
    BY <1>1 DEF Row, Statuses, Protections
<1>3. /\ e.status = "MONITORING_ACTIVE" /\ e.job = r.job /\ e.resv = "CONSUMED"
      /\ e.phase = r.phase /\ e.stale = r.stale /\ e.consented = 0
      /\ e.token = r.token /\ e.mail = r.mail
    BY <1>1 DEF Row
<1>4. Coherent(e)
    <2> HIDE DEF e
    <2> QED
        BY <1>1, <1>3 DEF Coherent, Charged, HasJob, HasSession, Backed, Unscheduled,
                          Linked, InTime, DeliveryTime, Started
<1> QED
    BY <1>2, <1>4 DEF GoodRow

\* A start outside the window is possible only for a stale or an expired job.
LEMMA LateStartGood ==
    ASSUME NEW r \in GoodRow, r.status = "DEVICE_CONNECTING", r.resv = "RESERVED",
           ~MonitoringWindow(r)
    PROVE  [r EXCEPT !.resv = "RELEASED", !.reason = "INELIGIBLE", !.protection = "RELEASED"] \in GoodRow
<1> DEFINE e == [r EXCEPT !.resv = "RELEASED", !.reason = "INELIGIBLE", !.protection = "RELEASED"]
<1>1. r \in Row /\ Coherent(r)
    BY DEF GoodRow
<1>2. e \in Row
    BY <1>1 DEF Row, Statuses, Protections
<1>3. /\ e.status = r.status /\ e.job = r.job /\ e.resv = "RELEASED"
      /\ e.phase = r.phase /\ e.stale = r.stale /\ e.consented = r.consented
      /\ e.token = r.token /\ e.mail = r.mail
    BY <1>1 DEF Row
<1>4. Coherent(e)
    <2> HIDE DEF e
    <2> QED
        BY <1>1, <1>3 DEF Coherent, Charged, HasJob, HasSession, Backed, Unscheduled,
                          Linked, InTime, DeliveryTime, MonitoringWindow, Started
<1> QED
    BY <1>2, <1>4 DEF GoodRow

\* The refusals of authenti8_consume_credit.
LEMMA ConsumeRefusedGood ==
    ASSUME NEW r \in GoodRow, r.resv # "NONE"
    PROVE  ConsumeRefused(r) \in GoodRow
<1>1. r \in Row /\ Coherent(r)
    BY DEF GoodRow
<1>2. CASE r.resv \in {"CONSUMED", "RELEASED"}
    <2>1. r.resv \in Protections
        BY <1>2 DEF Protections
    <2> QED
        BY <1>2, <2>1, MarkGood DEF ConsumeRefused
<1>3. CASE r.resv = "RESERVED" /\ r.status # "DEVICE_CONNECTING"
    BY <1>3 DEF ConsumeRefused
<1>4. CASE r.resv = "RESERVED" /\ r.status = "DEVICE_CONNECTING" /\ ~MonitoringWindow(r)
    <2>1. ConsumeRefused(r) = [Release(r, "INELIGIBLE") EXCEPT !.protection = "RELEASED"]
        BY <1>4 DEF ConsumeRefused
    <2>2. [Release(r, "INELIGIBLE") EXCEPT !.protection = "RELEASED"] =
          [r EXCEPT !.resv = "RELEASED", !.reason = "INELIGIBLE", !.protection = "RELEASED"]
        BY <1>1, <1>4 DEF Release, Row
    <2>3. [r EXCEPT !.resv = "RELEASED", !.reason = "INELIGIBLE",
                    !.protection = "RELEASED"] \in GoodRow
        BY <1>4, LateStartGood
    <2> QED
        BY <2>1, <2>2, <2>3
<1>5. CASE r.resv = "RESERVED" /\ r.status = "DEVICE_CONNECTING" /\ MonitoringWindow(r)
    <2> DEFINE p == IF bank.active THEN "UNPROTECTED_NO_CREDITS" ELSE "UNPROTECTED_SUBSCRIPTION"
    <2>1. ConsumeRefused(r) = [r EXCEPT !.protection = p]
        BY <1>5 DEF ConsumeRefused
    <2>2. p \in Protections
        BY DEF Protections
    <2> QED
        BY <2>1, <2>2, MarkGood
<1>6. r.resv \in {"RESERVED", "CONSUMED", "RELEASED"}
    BY <1>1 DEF Row
<1> QED
    BY <1>2, <1>3, <1>4, <1>5, <1>6

\* authenti8_consume_credit.
LEMMA ConsumeCreditGood ==
    ASSUME NEW i \in Interviews, iv \in GoodRows, bank \in Bank, ConsumeCredit(i)
    PROVE  iv' \in GoodRows /\ bank' \in Bank
<1> DEFINE r == iv[i]
           e == [r EXCEPT !.status = "MONITORING_ACTIVE", !.protection = "CONSUMED",
                          !.resv = "CONSUMED", !.consented = 0]
<1>1. r \in GoodRow
    BY DEF GoodRows
<1>2. CASE StartAllowed(r)
    <2>1. Commit(With(iv, i, e), Charge(bank))
        BY <1>2 DEF ConsumeCredit
    <2>2. e \in GoodRow
        BY <1>1, <1>2, StartedGood DEF StartAllowed
    <2>3. Charge(bank) \in Bank
        <3>1. bank.allowance - 1 \in Int /\ bank.extra - 1 \in Int
            BY DEF Bank
        <3> QED
            BY <3>1 DEF Charge, Bank
    <2> QED
        BY <2>1, <2>2, <2>3, WithGood, CommitGood
<1>3. CASE ~StartAllowed(r)
    <2>1. Update(i, ConsumeRefused(r)) /\ r.resv # "NONE"
        BY <1>3 DEF ConsumeCredit
    <2> QED
        BY <1>1, <2>1, ConsumeRefusedGood, UpdateGood
<1> QED
    BY <1>2, <1>3

\* Monitoring ends.
LEMMA FinishedGood ==
    ASSUME NEW r \in GoodRow, r.status = "MONITORING_ACTIVE"
    PROVE  [r EXCEPT !.status = "MEETING_COMPLETED"] \in GoodRow
<1> DEFINE e == [r EXCEPT !.status = "MEETING_COMPLETED"]
<1>1. r \in Row /\ Coherent(r)
    BY DEF GoodRow
<1>2. e \in Row
    BY <1>1 DEF Row, Statuses, Protections
<1>3. /\ e.status = "MEETING_COMPLETED" /\ e.job = r.job /\ e.resv = r.resv
      /\ e.phase = r.phase /\ e.stale = r.stale /\ e.consented = r.consented
      /\ e.token = r.token /\ e.mail = r.mail
    BY <1>1 DEF Row
<1>4. Coherent(e)
    <2> HIDE DEF e
    <2> QED
        BY <1>1, <1>3 DEF Coherent, Charged, HasJob, HasSession, Backed, Unscheduled,
                          Linked, InTime, DeliveryTime, Started
<1> QED
    BY <1>2, <1>4 DEF GoodRow

\* Monitoring ends, as a step.
LEMMA FinishMonitoringGood ==
    ASSUME NEW i \in Interviews, iv \in GoodRows, bank \in Bank, FinishMonitoring(i)
    PROVE  iv' \in GoodRows /\ bank' \in Bank
<1>1. [iv[i] EXCEPT !.status = "MEETING_COMPLETED"] \in GoodRow
    BY FinishedGood DEF GoodRows, FinishMonitoring
<1>2. iv' = With(iv, i, [iv[i] EXCEPT !.status = "MEETING_COMPLETED"])
    BY DEF FinishMonitoring, With, GoodRows
<1>3. bank' = bank
    BY DEF FinishMonitoring
<1> QED
    BY <1>1, <1>2, <1>3, WithGood

-----------------------------------------------------------------------------
(* Actions keep rows coherent: manual operations, billing, time *)

\* The reason of a release says nothing about coherence.
LEMMA ReasonGood ==
    ASSUME NEW r \in GoodRow, NEW why \in {"NONE", "MANUAL", "ENTITLEMENT", "INELIGIBLE"}
    PROVE  [r EXCEPT !.reason = why] \in GoodRow
BY DEF GoodRow, Row, Coherent, Charged, HasJob, HasSession, Backed, Unscheduled, Linked,
       InTime, DeliveryTime

\* authenti8_release_credit.
LEMMA ReleaseCreditGood ==
    ASSUME NEW i \in Interviews, iv \in GoodRows, bank \in Bank, ReleaseCredit(i)
    PROVE  iv' \in GoodRows /\ bank' \in Bank
<1> DEFINE r == iv[i]
<1>1. r \in GoodRow /\ r \in Row /\ Coherent(r)
    BY DEF GoodRows, GoodRow
<1>2. CASE r.status \in Verifying
    <2> DEFINE e == Expire(r)
               why == IF e.reason = "INELIGIBLE" THEN "MANUAL" ELSE e.reason
    <2>1. r.resv # "CONSUMED"
        BY <1>1, <1>2 DEF Coherent, Charged, Verifying, Started
    <2>2. e \in GoodRow
        BY <1>1, <2>1, ExpireGood
    <2>3. Update(i, [e EXCEPT !.reason = why])
        BY <1>2 DEF ReleaseCredit
    <2> HIDE DEF e
    <2>4. why \in {"NONE", "MANUAL", "ENTITLEMENT", "INELIGIBLE"}
        BY <2>2 DEF GoodRow, Row
    <2>5. [e EXCEPT !.reason = why] \in GoodRow
        <3> HIDE DEF why
        <3> QED
            BY <2>2, <2>4, ReasonGood
    <2> QED
        BY <2>3, <2>5, UpdateGood
<1>3. CASE r.status \notin Verifying
    <2>1. r.status \in {"DETECTED", "PROTECTED"}
        BY <1>3 DEF ReleaseCredit
    <2>2. Release(r, "MANUAL") \in GoodRow
        BY <1>1, <2>1, ReleaseGood
    <2>3. [Release(r, "MANUAL") EXCEPT !.protection = "RELEASED"] \in GoodRow
        BY <2>2, MarkGood DEF Protections
    <2>4. Update(i, [Release(r, "MANUAL") EXCEPT !.protection = "RELEASED"])
        BY <1>3 DEF ReleaseCredit
    <2> QED
        BY <2>3, <2>4, UpdateGood
<1> QED
    BY <1>2, <1>3

\* The operations on the ledger and the subscription.
LEMMA BillingGood ==
    ASSUME iv \in GoodRows, bank \in Bank, Billing
    PROVE  iv' \in GoodRows /\ bank' \in Bank
<1>1. ASSUME NEW n \in {-1, 1}, ExtraCredits(n)
      PROVE  iv' \in GoodRows /\ bank' \in Bank
    <2>1. bank.extra + n \in Int
        BY DEF Bank
    <2>2. [bank EXCEPT !.extra = @ + n] \in Bank
        BY <2>1 DEF Bank
    <2> QED
        BY <1>1, <2>2, CommitGood DEF ExtraCredits
<1>2. ASSUME NEW byWebhook \in BOOLEAN, PeriodEnds(byWebhook)
      PROVE  iv' \in GoodRows /\ bank' \in Bank
    <2> DEFINE b == [bank EXCEPT !.granted = FALSE, !.allowance = 0]
    <2>1. b \in Bank
        <3>1. ASSUME NEW n \in Int
              PROVE  [bank EXCEPT !.granted = FALSE, !.allowance = n] \in Bank
            BY DEF Bank
        <3>2. 0 \in Int
            OBVIOUS
        <3> QED
            BY <3>1, <3>2, Zenon
    <2>2. CASE byWebhook
        <3>1. Commit(iv, b)
            BY <1>2, <2>2 DEF PeriodEnds
        <3> HIDE DEF b
        <3> QED
            BY <2>1, <3>1, CommitGood
    <2>3. CASE ~byWebhook
        <3>1. iv' = iv /\ bank' = b
            BY <1>2, <2>3 DEF PeriodEnds
        <3> QED
            BY <2>1, <3>1
    <2> QED
        BY <2>2, <2>3
<1>3. ASSUME SubscriptionChanges
      PROVE  iv' \in GoodRows /\ bank' \in Bank
    <2>1. [bank EXCEPT !.active = ~@] \in Bank
        BY DEF Bank
    <2> QED
        BY <1>3, <2>1, CommitGood DEF SubscriptionChanges
<1>4. ASSUME Reconcile
      PROVE  iv' \in GoodRows /\ bank' \in Bank
    BY <1>4, ReconciledGood, EnsureAllowanceType DEF Reconcile
<1>5. ASSUME ReconcileExpired
      PROVE  iv' \in GoodRows /\ bank' \in Bank
    <2> DEFINE rows == Reconciled(iv, bank)
               over(i) == rows[i].phase = "over" /\ rows[i].resv = "RELEASED"
               done == [i \in Interviews |->
                          IF over(i) THEN [rows[i] EXCEPT !.protection = "RELEASED"]
                          ELSE rows[i]]
    <2>1. iv' = done /\ bank' = EnsureAllowance(bank)
        BY <1>5 DEF ReconcileExpired
    <2>2. rows \in GoodRows
        BY ReconciledGood
    <2> HIDE DEF rows
    <2>3. ASSUME NEW i \in Interviews
          PROVE  done[i] \in GoodRow
        <3>1. rows[i] \in GoodRow /\ "RELEASED" \in Protections
            BY <2>2 DEF GoodRows, Protections
        <3>2. [rows[i] EXCEPT !.protection = "RELEASED"] \in GoodRow
            BY <3>1, MarkGood
        <3> QED
            BY <3>1, <3>2
    <2> QED
        BY <2>1, <2>3, EnsureAllowanceType DEF GoodRows
<1> QED
    BY <1>1, <1>2, <1>3, <1>4, <1>5 DEF Billing

\* Once a delivery is due it stays due, and a window that is over stays over.
LEMMA LaterGood ==
    ASSUME NEW r \in GoodRow, r.phase # "over"
    PROVE  [r EXCEPT !.phase = NextPhase[r.phase]] \in GoodRow
<1> DEFINE p == NextPhase[r.phase]
           e == [r EXCEPT !.phase = p]
<1>1. r \in Row /\ Coherent(r)
    BY DEF GoodRow
<1>2. p \in Phases /\ (DeliveryTime(r) => p \in {"live", "grace", "over"})
    BY <1>1 DEF Row, Phases, NextPhase, DeliveryTime
<1> HIDE DEF p
<1>3. e \in Row
    BY <1>1, <1>2 DEF Row
<1>4. /\ e.status = r.status /\ e.job = r.job /\ e.resv = r.resv
      /\ e.phase = p /\ e.stale = r.stale /\ e.consented = r.consented
      /\ e.token = r.token /\ e.mail = r.mail
    BY <1>1 DEF Row
<1>5. Coherent(e)
    <2> HIDE DEF e
    <2> QED
        BY <1>1, <1>2, <1>4 DEF Coherent, Charged, HasJob, HasSession, Backed, Unscheduled,
                                Linked, InTime, DeliveryTime
<1> QED
    BY <1>3, <1>5 DEF GoodRow, p

\* Time passes for a schedule.
LEMMA TickGood ==
    ASSUME NEW i \in Interviews, iv \in GoodRows, bank \in Bank, Tick(i)
    PROVE  iv' \in GoodRows /\ bank' \in Bank
<1>1. [iv[i] EXCEPT !.phase = NextPhase[iv[i].phase]] \in GoodRow
    BY LaterGood DEF GoodRows, Tick
<1>2. iv' = With(iv, i, [iv[i] EXCEPT !.phase = NextPhase[iv[i].phase]])
    BY DEF Tick, With, GoodRows
<1>3. bank' = bank
    BY DEF Tick
<1> QED
    BY <1>1, <1>2, <1>3, WithGood

-----------------------------------------------------------------------------
(* The whole step *)

\* Every step leaves coherent rows and a well-formed ledger.
LEMMA NextGood ==
    ASSUME IInv, Next
    PROVE  iv' \in GoodRows /\ bank' \in Bank
<1> USE DEF IInv, TypeOK
<1>1. iv \in GoodRows /\ bank \in Bank
    BY DEF GoodRows
<1>2. \A s \in seen : s \in Snapshot
    OBVIOUS
<1>3. \A c \in claim : c \in Claim
    OBVIOUS
<1>4. Slots \subseteq Phases
    BY ConstantsAssumption
<1>5. ASSUME NEW i \in Interviews, Calendar(i)
      PROVE  iv' \in GoodRows /\ bank' \in Bank
    <2>1. CASE \E p \in Slots : CalendarInsert(i, p)
        BY <1>1, <1>4, <2>1, CalendarInsertGood
    <2>2. CASE \E what \in {"same", "candidate"} : CalendarUpsert(i, what, iv[i].phase)
        <3>1. iv[i].phase \in Phases
            BY <1>1 DEF Row
        <3> QED
            BY <1>1, <2>2, <3>1, CalendarUpsertGood
    <2>3. CASE \E p \in Slots : CalendarUpsert(i, "schedule", p)
        BY <1>1, <1>4, <2>3, CalendarUpsertGood
    <2>4. CASE \E cancelled \in BOOLEAN : CalendarRemove(i, cancelled)
        BY <1>1, <2>4, CalendarRemoveGood
    <2> QED
        BY <1>5, <2>1, <2>2, <2>3, <2>4 DEF Calendar
<1>6. ASSUME NEW i \in Interviews, Orchestrator(i)
      PROVE  iv' \in GoodRows /\ bank' \in Bank
    <2>1. CASE ExpireWindow(i)
        BY <1>1, <2>1, ExpireWindowGood
    <2>2. CASE OrchestratorRead(i)
        BY <1>1, <2>2 DEF OrchestratorRead
    <2>3. CASE \E s \in seen : s.interview = i /\ OrchestratorApply(s)
        BY <1>1, <1>2, <2>3, OrchestratorApplyGood
    <2> QED
        BY <1>6, <2>1, <2>2, <2>3 DEF Orchestrator
<1>7. ASSUME NEW i \in Interviews, Candidate(i)
      PROVE  iv' \in GoodRows /\ bank' \in Bank
    <2>1. CASE EmailSent(i) \/ EmailUndeliverable(i) \/ EmailFailed(i)
        BY <1>1, <2>1, EmailGood
    <2>2. CASE \E accepted \in BOOLEAN : RecordConsent(i, accepted)
        BY <1>1, <2>2, RecordConsentGood
    <2>3. CASE ConsumeCredit(i)
        BY <1>1, <2>3, ConsumeCreditGood
    <2>4. CASE FinishMonitoring(i)
        BY <1>1, <2>4, FinishMonitoringGood
    <2> QED
        BY <1>7, <2>1, <2>2, <2>3, <2>4 DEF Candidate
<1>8. ASSUME NEW i \in Interviews, ReleaseCredit(i) \/ ReserveManually(i) \/ Tick(i)
      PROVE  iv' \in GoodRows /\ bank' \in Bank
    BY <1>1, <1>8, ReleaseCreditGood, ReserveCreditGood, TickGood DEF ReserveManually
<1>9. ASSUME Delivery
      PROVE  iv' \in GoodRows /\ bank' \in Bank
    <2>1. CASE \E i \in Interviews : FailExhausted(i) \/ LeaseExpires(i)
        BY <1>1, <2>1, FailExhaustedGood, LeaseExpiresGood
    <2>2. CASE \E i \in Interviews, w \in Workers : ClaimDelivery(w, i)
        BY <1>1, <2>2, ClaimDeliveryGood
    <2>3. CASE \E c \in claim : CompleteDelivery(c) \/ FailDelivery(c) \/ WorkerCrash(c)
        <3>1. PICK c \in claim : CompleteDelivery(c) \/ FailDelivery(c) \/ WorkerCrash(c)
            BY <2>3
        <3>2. CASE CompleteDelivery(c)
            BY <1>1, <1>3, <3>2, CompleteDeliveryGood
        <3>3. CASE FailDelivery(c)
            BY <1>1, <1>3, <3>3, FailDeliveryGood
        <3>4. CASE WorkerCrash(c)
            BY <1>1, <3>4 DEF WorkerCrash
        <3> QED
            BY <3>1, <3>2, <3>3, <3>4
    <2> QED
        BY <1>9, <2>1, <2>2, <2>3 DEF Delivery
<1>10. ASSUME Billing
       PROVE  iv' \in GoodRows /\ bank' \in Bank
    BY <1>1, <1>10, BillingGood
<1> QED
    BY <1>5, <1>6, <1>7, <1>8, <1>9, <1>10 DEF Next

\* What the orchestrator has read stays well-formed.
LEMMA NextSeen ==
    ASSUME IInv, Next
    PROVE  seen' \subseteq Snapshot
<1>1. seen \subseteq Snapshot /\ bank.active \in BOOLEAN
    BY DEF IInv, TypeOK, Bank
<1>2. CASE seen' = seen
    BY <1>1, <1>2
<1>3. ASSUME NEW i \in Interviews, OrchestratorRead(i)
      PROVE  seen' \subseteq Snapshot
    <2> DEFINE s == [interview |-> i, status |-> iv[i].status,
                     protection |-> iv[i].protection, active |-> bank.active,
                     far |-> iv[i].phase = "far", moved |-> FALSE]
    <2>1. iv[i] \in Row
        BY DEF IInv, TypeOK
    <2>2. s \in Snapshot
        BY <1>1, <2>1 DEF Snapshot, Row
    <2>3. seen' = seen \cup {s}
        BY <1>3 DEF OrchestratorRead
    <2> QED
        BY <1>1, <2>2, <2>3
<1>4. ASSUME NEW s \in seen, OrchestratorApply(s)
      PROVE  seen' \subseteq Snapshot
    BY <1>1, <1>4 DEF OrchestratorApply
<1>5. ASSUME NEW i \in Interviews, NEW what, NEW p, CalendarUpsert(i, what, p)
      PROVE  seen' \subseteq Snapshot
    <2>1. CASE what = "schedule"
        <3>1. seen' = {[s EXCEPT !.moved = @ \/ s.interview = i] : s \in seen}
            BY <1>5, <2>1 DEF CalendarUpsert
        <3>2. ASSUME NEW s \in seen
              PROVE  [s EXCEPT !.moved = @ \/ s.interview = i] \in Snapshot
            BY <1>1 DEF Snapshot
        <3> QED
            BY <3>1, <3>2
    <2>2. CASE what # "schedule"
        BY <1>2, <1>5, <2>2 DEF CalendarUpsert
    <2> QED
        BY <2>1, <2>2
<1>6. \/ seen' = seen
      \/ \E i \in Interviews : OrchestratorRead(i)
      \/ \E s \in seen : OrchestratorApply(s)
      \/ \E i \in Interviews : \E what, p : CalendarUpsert(i, what, p)
    BY DEF Next, Calendar, Orchestrator, Candidate, Delivery, Billing, CalendarInsert,
           CalendarRemove, ExpireWindow, EmailSent, EmailUndeliverable, EmailFailed,
           RecordConsent, ConsumeCredit, FinishMonitoring, ReleaseCredit, ReserveManually,
           Tick, FailExhausted, LeaseExpires, ClaimDelivery, CompleteDelivery, FailDelivery,
           WorkerCrash, ExtraCredits, PeriodEnds, SubscriptionChanges, Reconcile,
           ReconcileExpired
<1> QED
    BY <1>2, <1>3, <1>4, <1>5, <1>6

\* The claims that workers hold stay well-formed: attempts never exceed the limit.
LEMMA NextClaim ==
    ASSUME IInv, Next
    PROVE  claim' \subseteq Claim
<1>1. claim \subseteq Claim /\ iv \in GoodRows
    BY DEF IInv, TypeOK, GoodRows
<1>2. ASSUME NEW i \in Interviews, NEW w \in Workers, ClaimDelivery(w, i)
      PROVE  claim' \subseteq Claim
    <2> DEFINE r == iv[i]
               c == [worker |-> w, interview |-> i, attempts |-> r.attempts + 1,
                     answered |-> FALSE]
    <2>1. r \in GoodRow /\ Claimable(r)
        BY <1>1, <1>2 DEF GoodRows, ClaimDelivery
    <2>2. CASE Deliverable(r) /\ ~Ended(r)
        <3>1. r.attempts + 1 \in 0..MaxAttempts
            BY <2>1, <2>2, LeasedGood DEF Deliverable
        <3>2. c \in Claim
            BY <3>1 DEF Claim
        <3>3. claim' = claim \cup {c}
            BY <1>2, <2>2 DEF ClaimDelivery
        <3> QED
            BY <1>1, <3>2, <3>3
    <2>3. CASE ~(Deliverable(r) /\ ~Ended(r))
        <3>1. claim' = claim
            BY <1>2, <2>3 DEF ClaimDelivery
        <3> QED
            BY <1>1, <3>1
    <2> QED
        BY <2>2, <2>3
<1>3. ASSUME NEW c \in claim, CompleteDelivery(c)
      PROVE  claim' \subseteq Claim
    <2>1. [c EXCEPT !.answered = TRUE] \in Claim
        BY <1>1 DEF Claim
    <2>2. \/ claim' = claim \ {c}
          \/ claim' = (claim \ {c}) \cup {[c EXCEPT !.answered = TRUE]}
        BY <1>3 DEF CompleteDelivery
    <2> QED
        BY <1>1, <2>1, <2>2
<1>4. ASSUME NEW c \in claim, claim' = claim \ {c}
      PROVE  claim' \subseteq Claim
    BY <1>1, <1>4
<1>5. \/ claim' = claim
      \/ \E i \in Interviews, w \in Workers : ClaimDelivery(w, i)
      \/ \E c \in claim : CompleteDelivery(c)
      \/ \E c \in claim : claim' = claim \ {c}
    BY DEF Next, Calendar, Orchestrator, Candidate, Delivery, Billing, CalendarInsert,
           CalendarUpsert, CalendarRemove, ExpireWindow, OrchestratorRead,
           OrchestratorApply, EmailSent, EmailUndeliverable, EmailFailed,
           RecordConsent, ConsumeCredit, FinishMonitoring, ReleaseCredit, ReserveManually,
           Tick, FailExhausted, LeaseExpires, FailDelivery, WorkerCrash, ExtraCredits,
           PeriodEnds, SubscriptionChanges, Reconcile, ReconcileExpired
<1> QED
    BY <1>1, <1>2, <1>3, <1>4, <1>5

\* The bound on environment changes is kept.
LEMMA NextChanges ==
    ASSUME IInv, Next
    PROVE  changes' \in 0..MaxChanges
<1>1. changes \in 0..MaxChanges /\ MaxChanges \in Nat
    BY ConstantsAssumption DEF IInv, TypeOK
<1>2. changes' = changes \/ Change
    BY DEF Next, Calendar, Orchestrator, Candidate, Delivery, Billing, CalendarInsert,
           CalendarUpsert, CalendarRemove, ExpireWindow, OrchestratorRead,
           OrchestratorApply, EmailSent, EmailUndeliverable, EmailFailed,
           RecordConsent, ConsumeCredit, FinishMonitoring, ReleaseCredit, ReserveManually,
           Tick, FailExhausted, LeaseExpires, ClaimDelivery, CompleteDelivery, FailDelivery,
           WorkerCrash, ExtraCredits, PeriodEnds, SubscriptionChanges, Reconcile,
           ReconcileExpired
<1> QED
    BY <1>1, <1>2 DEF Change

-----------------------------------------------------------------------------
(* The theorems *)

\* An organization starts with rows that are coherent because they are empty.
LEMMA InitGood == Init => IInv
<1> SUFFICES ASSUME Init PROVE IInv
    OBVIOUS
<1>1. 0 \in 0..MaxAttempts /\ 0 \in 0..MaxChanges /\ Allowance \in Int
    BY ConstantsAssumption
<1>2. NoRow \in Row
    BY <1>1 DEF NoRow, Row, Statuses, Phases, Protections
<1>3. Coherent(NoRow)
    BY DEF NoRow, Coherent, Charged, HasJob, HasSession, Backed, Unscheduled, Linked,
           InTime, Started
<1>4. iv \in [Interviews -> GoodRow] /\ iv \in [Interviews -> Row]
    BY <1>2, <1>3 DEF Init, GoodRow
<1>5. bank \in Bank
    BY <1>1 DEF Init, Bank
<1> QED
    BY <1>1, <1>4, <1>5 DEF Init, IInv, TypeOK

\* Every step of the code, and every stuttering step, keeps the rows coherent.
LEMMA StepGood == IInv /\ [Next]_vars => IInv'
<1> SUFFICES ASSUME IInv, [Next]_vars PROVE IInv'
    OBVIOUS
<1>1. CASE Next
    <2>1. iv' \in GoodRows /\ bank' \in Bank
        BY <1>1, NextGood
    <2>2. seen' \subseteq Snapshot /\ claim' \subseteq Claim /\ changes' \in 0..MaxChanges
        BY <1>1, NextSeen, NextClaim, NextChanges
    <2>3. iv' \in [Interviews -> Row]
        BY <2>1 DEF GoodRows, GoodRow
    <2> QED
        BY <2>1, <2>2, <2>3 DEF IInv, TypeOK, GoodRows
<1>2. CASE UNCHANGED vars
    BY <1>2 DEF vars, IInv, TypeOK
<1> QED
    BY <1>1, <1>2

\* The rows of the interviews are coherent in every reachable state.
THEOREM Invariance == Spec => []IInv
BY InitGood, StepGood, PTL DEF Spec

\* The state has its type; in particular no delivery job is attempted more than
\* MaxAttempts times, whatever workers crash and answers are lost.
THEOREM TypeCorrect == Spec => []TypeOK
<1>1. IInv => TypeOK
    BY DEF IInv
<1> QED
    BY <1>1, Invariance, PTL

\* No candidate is asked for consent, or connects a device, without a reserved
\* credit while the window is open (authenti8_reconcile_entitlement expires what
\* it releases; authenti8_complete_verification_delivery checks again).
THEOREM VerificationsAreBacked == Spec => []ReservationBacksVerification
<1>1. IInv => ReservationBacksVerification
    BY DEF IInv, GoodRow, Coherent, Backed, ReservationBacksVerification
<1> QED
    BY <1>1, Invariance, PTL

\* An interview has cost a credit exactly when its monitoring has started: no
\* release, refund, cancellation or retry undoes or repeats the charge.
THEOREM StartsAreCharged == Spec => []ChargedIffStarted
<1>1. IInv => ChargedIffStarted
    BY DEF IInv, GoodRow, Coherent, Charged, ChargedIffStarted
<1> QED
    BY <1>1, Invariance, PTL

\* A verification is scheduled exactly while its delivery job can still run.
THEOREM ScheduledHaveJobs == Spec => []ScheduledHasLiveJob
<1>1. IInv => ScheduledHasLiveJob
    BY DEF IInv, GoodRow, Coherent, HasJob, ScheduledHasLiveJob
<1> QED
    BY <1>1, Invariance, PTL

\* Exactly one consented session waits for a connecting device, and none
\* otherwise: the check of authenti8_sync_monitoring_session never fails.
THEOREM SessionsAreUnique == Spec => []OneConsentedSession
<1>1. IInv => OneConsentedSession
    BY DEF IInv, GoodRow, Coherent, HasSession, OneConsentedSession
<1> QED
    BY <1>1, Invariance, PTL

\* No usable verification link, and no message carrying one, survives the
\* withdrawal or the rescheduling of its interview.
THEOREM LinksArePending == Spec => []LinkIsForPendingConsent
<1>1. IInv => LinkIsForPendingConsent
    BY DEF IInv, GoodRow, Coherent, Linked, LinkIsForPendingConsent, Started
<1> QED
    BY <1>1, Invariance, PTL

\* No invitation of a job that follows the schedule is sent early, whatever moves
\* while workers deliver it.
THEOREM InvitationsAreInTime == Spec => []InvitedInTime
<1>1. IInv => InvitedInTime
    BY DEF IInv, GoodRow, Coherent, InTime, InvitedInTime
<1> QED
    BY <1>1, Invariance, PTL

-----------------------------------------------------------------------------
(* What a transaction does to a row, as the candidate and the customer see it *)

Early == {"open", "invited", "accepted"}

\* A reservation belongs to an interview that may still start, and an event that
\* has not been seen yet has none.
Settled(r) ==
    /\ r.resv = "RESERVED" => Stage(r) \in Early
    /\ r.status = "ABSENT" => r.resv = "NONE"

\* The relations between an old row r and a new row t that keep it.
Still(r, t) == Stage(t) = Stage(r) /\ Hold(t) = Hold(r)
Lapses(r, t) == Stage(r) \in Early /\ Stage(t) = "open" /\ Hold(r) # "spent"
Appears(r, t) == t.status = "ABSENT" => r.status = "ABSENT" /\ t.resv = r.resv

\* The row is left alone, or falls back and perhaps loses its credit ...
Eases(r, t) ==
    /\ Appears(r, t)
    /\ \/ Still(r, t)
       \/ /\ Lapses(r, t)
          /\ Hold(t) = Hold(r) \/ (Hold(r) = "held" /\ Hold(t) = "returned")

\* ... or is reserved a credit, which may be lost again before the commit.
Drifts(r, t) ==
    /\ Appears(r, t)
    /\ \/ Still(r, t)
       \/ /\ Lapses(r, t)
          /\ \/ Hold(t) = Hold(r)
             \/ Hold(r) \in {"none", "held", "returned"} /\ Hold(t) \in {"held", "returned"}

\* The same status and the same credit.
LEMMA SameEases ==
    ASSUME NEW r, NEW t, t.status = r.status, t.resv = r.resv, t.reason = r.reason
    PROVE  Eases(r, t)
BY DEF Eases, Still, Stage, Hold, Appears

\* Falling back, with or without the credit.
LEMMA LapseEases ==
    ASSUME NEW r \in Row, NEW t \in Row, Stage(r) \in Early, r.resv # "CONSUMED",
           Stage(t) = "open", t.status # "ABSENT",
           \/ t.resv = r.resv /\ t.reason = r.reason
           \/ r.resv = "RESERVED" /\ t.resv = "RELEASED" /\ t.reason # "MANUAL"
    PROVE  Eases(r, t)
BY DEF Eases, Lapses, Hold, Appears, Row

LEMMA EaseIsDrift ==
    ASSUME NEW r, NEW t, Eases(r, t)
    PROVE  Drifts(r, t)
BY DEF Eases, Drifts

\* What happens to a row in one transaction adds up to one such change.
LEMMA DriftsTrans ==
    ASSUME NEW r, NEW s, NEW t, Drifts(r, s), Drifts(s, t)
    PROVE  Drifts(r, t)
<1>1. Appears(r, t)
    BY DEF Drifts, Appears
<1>2. CASE Still(r, s)
    BY <1>1, <1>2 DEF Drifts, Still, Lapses
<1>3. CASE ~Still(r, s)
    <2>1. Lapses(r, s)
        BY <1>3 DEF Drifts
    <2> QED
        BY <1>1, <1>3, <2>1 DEF Drifts, Still, Lapses, Early
<1> QED
    BY <1>2, <1>3

LEMMA DriftsSettled ==
    ASSUME NEW r \in Row, NEW t \in Row, Settled(r), Drifts(r, t)
    PROVE  Settled(t)
<1>1. t.status = "ABSENT" => t.resv = "NONE"
    BY DEF Drifts, Appears, Settled
<1>2. ASSUME t.resv = "RESERVED" PROVE Stage(t) \in Early
    <2>1. Hold(t) = "held"
        BY <1>2 DEF Hold
    <2>2. CASE Still(r, t)
        <3>1. Hold(r) = "held"
            BY <2>1, <2>2 DEF Still
        <3>2. r.resv = "RESERVED"
            BY <3>1 DEF Hold, Row
        <3> QED
            BY <2>2, <3>2 DEF Settled, Still
    <2>3. CASE Lapses(r, t)
        BY <2>3 DEF Lapses, Early
    <2> QED
        BY <2>2, <2>3 DEF Drifts
<1> QED
    BY <1>1, <1>2 DEF Settled

-----------------------------------------------------------------------------
(* The row transformers *)

\* What a release writes.
LEMMA ReleaseFields ==
    ASSUME NEW r \in Row, NEW why \in {"MANUAL", "ENTITLEMENT", "INELIGIBLE"}
    PROVE  /\ Release(r, why) \in Row
           /\ Release(r, why).status = r.status
           /\ Release(r, why).phase = r.phase
           /\ Release(r, why).resv = IF r.resv = "RESERVED" THEN "RELEASED" ELSE r.resv
           /\ Release(r, why).reason = IF r.resv = "RESERVED" THEN why ELSE r.reason
<1>1. Release(r, why) \in Row
    BY ReleaseType
<1> QED
    BY <1>1 DEF Release, Row

\* What an expiry writes.
LEMMA ExpireFields ==
    ASSUME NEW r \in Row
    PROVE  /\ Expire(r) \in Row
           /\ Expire(r).status = "UNABLE_TO_VERIFY"
           /\ Expire(r).resv = IF r.resv = "RESERVED" THEN "RELEASED" ELSE r.resv
           /\ Expire(r).reason = IF r.resv = "RESERVED" THEN "INELIGIBLE" ELSE r.reason
<1> DEFINE c == CancelJob(r)
           d == Release(c, "INELIGIBLE")
           f == Unprotect(d)
<1>1. c \in Row /\ c.resv = r.resv /\ c.reason = r.reason
    <2>1. CASE r.job \in {"PENDING", "PROCESSING"}
        <3>1. c = [r EXCEPT !.job = "CANCELLED", !.owner = NoWorker, !.leased = FALSE]
            BY <2>1 DEF CancelJob
        <3> HIDE DEF c
        <3>2. c \in Row
            BY <3>1 DEF Row
        <3> QED
            BY <3>1, <3>2 DEF Row
    <2>2. CASE r.job \notin {"PENDING", "PROCESSING"}
        BY <2>2 DEF CancelJob
    <2> QED
        BY <2>1, <2>2
<1> HIDE DEF c
<1>2. /\ d \in Row
      /\ d.resv = IF r.resv = "RESERVED" THEN "RELEASED" ELSE r.resv
      /\ d.reason = IF r.resv = "RESERVED" THEN "INELIGIBLE" ELSE r.reason
    BY <1>1, ReleaseFields
<1> HIDE DEF d
<1>3. f \in Row /\ f.resv = d.resv /\ f.reason = d.reason
    BY <1>2 DEF Unprotect, Row, Protections
<1> HIDE DEF f
<1> DEFINE e == [f EXCEPT !.status = "UNABLE_TO_VERIFY", !.token = FALSE, !.mail = FALSE,
                          !.consented = 0]
<1>4. Expire(r) = e
    BY DEF Expire, f, d, c
<1>5. e \in Row
    BY <1>3 DEF Row, Statuses
<1>6. e.status = "UNABLE_TO_VERIFY" /\ e.resv = f.resv /\ e.reason = f.reason
    BY <1>3 DEF Row
<1> QED
    BY <1>2, <1>3, <1>4, <1>5, <1>6

\* An expiry of an interview that has not started.
LEMMA ExpireEases ==
    ASSUME NEW r \in Row, Stage(r) \in Early, r.resv # "CONSUMED"
    PROVE  Eases(r, Expire(r))
<1>1. Stage(Expire(r)) = "open"
    BY ExpireFields DEF Stage
<1> QED
    BY <1>1, ExpireFields, LapseEases

\* A release that leaves an open interview where it is.
LEMMA ReleaseEases ==
    ASSUME NEW r \in Row, NEW why \in {"ENTITLEMENT", "INELIGIBLE"}, NEW t \in Row,
           r.status \notin {"CONSENT_PENDING", "DEVICE_CONNECTING", "ABSENT"}, Settled(r),
           t.status = Release(r, why).status, t.resv = Release(r, why).resv,
           t.reason = Release(r, why).reason
    PROVE  Eases(r, t)
<1>1. /\ t.status = r.status
      /\ t.resv = IF r.resv = "RESERVED" THEN "RELEASED" ELSE r.resv
      /\ t.reason = IF r.resv = "RESERVED" THEN why ELSE r.reason
    BY ReleaseFields
<1>2. CASE r.resv = "RESERVED"
    <2>1. Stage(r) \in Early
        BY <1>2 DEF Settled
    <2>2. Stage(r) = "open" /\ Stage(t) = Stage(r)
        BY <1>1, <2>1 DEF Stage, Early
    <2> QED
        BY <1>1, <1>2, <2>1, <2>2, LapseEases
<1>3. CASE r.resv # "RESERVED"
    BY <1>1, <1>3, SameEases
<1> QED
    BY <1>2, <1>3

\* The open statuses.
LEMMA VerifyingEarly ==
    ASSUME NEW r, r.status \in Withdrawable
    PROVE  Stage(r) \in Early
BY DEF Stage, Withdrawable, BeforeMonitoring, Early

-----------------------------------------------------------------------------
(* Reconciliation and reservation *)

Rows == [Interviews -> Row]
AllSettled(rows) == \A i \in Interviews : Settled(rows[i])

\* Trimming the entitlement takes credits and lets verifications lapse, no more.
LEMMA TrimEases ==
    ASSUME NEW rows \in Rows, NEW D, NEW i \in Interviews, Settled(rows[i])
    PROVE  Trim(rows, D)[i] \in Row /\ Eases(rows[i], Trim(rows, D)[i])
<1> DEFINE q == rows[i]
           r == IF i \in D THEN q ELSE Release(q, "ENTITLEMENT")
<1>1. q \in Row
    BY DEF Rows
<1>2. Trim(rows, D)[i] = IF r.status \in Verifying /\ r.resv \notin {"RESERVED", "CONSUMED"}
                         THEN Expire(r) ELSE r
    BY DEF Trim
<1>3. /\ r \in Row /\ r.status = q.status
      /\ \/ r.resv = q.resv /\ r.reason = q.reason
         \/ q.resv = "RESERVED" /\ r.resv = "RELEASED" /\ r.reason = "ENTITLEMENT"
    BY <1>1, ReleaseFields
<1>4. q.resv = "RESERVED" => Stage(q) \in Early
    BY DEF Settled
<1> HIDE DEF r, q
<1>5. CASE r.status \in Verifying /\ r.resv \notin {"RESERVED", "CONSUMED"}
    <2> DEFINE e == Expire(r)
    <2>1. /\ e \in Row /\ e.status = "UNABLE_TO_VERIFY" /\ e.resv = r.resv
          /\ e.reason = r.reason
        BY <1>3, <1>5, ExpireFields
    <2>2. Stage(q) \in Early
        BY <1>3, <1>5 DEF Stage, Verifying, Early
    <2>3. Stage(e) = "open"
        BY <2>1 DEF Stage
    <2>4. q.resv # "CONSUMED"
        BY <1>3, <1>5
    <2> HIDE DEF e
    <2>5. Eases(q, e)
        BY <1>1, <1>3, <2>1, <2>2, <2>3, <2>4, LapseEases
    <2> QED
        BY <1>2, <1>5, <2>1, <2>5 DEF e, q
<1>6. CASE ~(r.status \in Verifying /\ r.resv \notin {"RESERVED", "CONSUMED"})
    <2>1. CASE r.resv = q.resv /\ r.reason = q.reason
        BY <1>2, <1>3, <1>6, <2>1, SameEases DEF q
    <2>2. CASE q.resv = "RESERVED" /\ r.resv = "RELEASED" /\ r.reason = "ENTITLEMENT"
        <3>1. q.status \notin Verifying
            BY <1>3, <1>6, <2>2
        <3>2. Stage(q) = "open" /\ Stage(r) = "open" /\ q.status # "ABSENT"
            BY <1>3, <1>4, <2>2, <3>1 DEF Stage, Early, Verifying, Settled, q
        <3>3. Eases(q, r)
            BY <1>1, <1>3, <1>4, <2>2, <3>2, LapseEases
        <3> QED
            BY <1>2, <1>3, <1>6, <3>3 DEF q
    <2> QED
        BY <1>3, <2>1, <2>2
<1> QED
    BY <1>5, <1>6

\* A reservation of an interview that is waiting.
LEMMA GrantDrifts ==
    ASSUME NEW r \in Row, NEW t \in Row, r.status = "DETECTED", t.status = "DETECTED",
           r.resv = "NONE" \/ (r.resv = "RELEASED" /\ r.reason # "MANUAL"),
           t.resv = "RESERVED"
    PROVE  Drifts(r, t)
BY DEF Drifts, Appears, Lapses, Stage, Hold, Early

\* Handing out free credits gives them to waiting interviews only.
LEMMA SettleDrifts ==
    ASSUME NEW rows \in Rows, NEW b, NEW i \in Interviews
    PROVE  Drifts(rows[i], Settle(rows, b)[i])
<1> DEFINE q == rows[i]
           g == [q EXCEPT !.resv = "RESERVED", !.reason = "NONE"]
           r == IF i \in Grants(rows, b) THEN g ELSE q
           t == [r EXCEPT !.protection = ProtectionOf(r, b)]
<1>1. q \in Row
    BY DEF Rows
<1>2. /\ r \in Row /\ r.status = q.status
      /\ \/ r.resv = q.resv /\ r.reason = q.reason
         \/ i \in Grants(rows, b) /\ r.resv = "RESERVED"
    <2>1. g \in Row /\ g.status = q.status /\ g.resv = "RESERVED"
        BY <1>1 DEF Row
    <2> QED
        BY <1>1, <2>1
<1>3. i \in Grants(rows, b) => /\ q.status = "DETECTED"
                               /\ q.resv = "NONE" \/ (q.resv = "RELEASED" /\ q.reason # "MANUAL")
    BY DEF Grants, Waiting
<1>4. Settle(rows, b)[i] = IF Protectable(r) THEN t ELSE r
    BY DEF Settle
<1> HIDE DEF r, q
<1>5. Drifts(q, r)
    BY <1>1, <1>2, <1>3, GrantDrifts, SameEases, EaseIsDrift
<1>6. Eases(r, t)
    <2>1. t.status = r.status /\ t.resv = r.resv /\ t.reason = r.reason
        BY <1>2 DEF Row
    <2> QED
        BY <2>1, SameEases
<1>7. Drifts(q, t)
    BY <1>5, <1>6, EaseIsDrift, DriftsTrans
<1> QED
    BY <1>4, <1>5, <1>7 DEF q

\* authenti8_reconcile_entitlement.
LEMMA ReconciledDrifts ==
    ASSUME NEW rows \in Rows, NEW b, NEW i \in Interviews, AllSettled(rows)
    PROVE  Drifts(rows[i], Reconciled(rows, b)[i])
<1> DEFINE e == EnsureAllowance(b)
           T == Trim(rows, Desired(rows, Entitlement(e)))
<1>1. \A j \in Interviews : T[j] \in Row /\ Eases(rows[j], T[j])
    BY TrimEases DEF AllSettled
<1>2. T \in Rows
    BY <1>1 DEF Trim, Rows
<1>3. Reconciled(rows, b) = Settle(T, e)
    BY DEF Reconciled
<1> HIDE DEF T, e
<1>4. Drifts(T[i], Settle(T, e)[i])
    BY <1>2, SettleDrifts
<1>5. Drifts(rows[i], T[i])
    BY <1>1, EaseIsDrift
<1> QED
    BY <1>3, <1>4, <1>5, DriftsTrans

\* Any transaction that leaves settled rows, deferred triggers included.
LEMMA CommitDrifts ==
    ASSUME NEW rows \in Rows, NEW b, AllSettled(rows), Commit(rows, b),
           NEW i \in Interviews
    PROVE  Drifts(rows[i], iv'[i])
<1>1. Drifts(rows[i], rows[i])
    BY SameEases, EaseIsDrift
<1>2. Drifts(rows[i], Reconciled(rows, b)[i])
    BY ReconciledDrifts
<1> QED
    BY <1>1, <1>2 DEF Commit

\* The types of what a reservation, and the credit trigger, may write.
LEMMA ReserveDrifts ==
    ASSUME NEW rows \in Rows, NEW b, NEW i \in Interviews
    PROVE  Reserve(rows, b, i) \in Row /\ Drifts(rows[i], Reserve(rows, b, i))
<1> DEFINE r == rows[i]
           t == Reserve(rows, b, i)
           g == [r EXCEPT !.resv = "RESERVED", !.reason = "NONE", !.protection = "RESERVED"]
           mark(p) == [r EXCEPT !.protection = p]
<1>1. r \in Row
    BY DEF Rows
<1>2. g \in Row /\ g.status = r.status /\ g.resv = "RESERVED"
    BY <1>1 DEF Row, Protections
<1>3. ASSUME NEW p \in Protections
      PROVE  mark(p) \in Row /\ Drifts(r, mark(p))
    <2>1. /\ mark(p) \in Row /\ mark(p).status = r.status /\ mark(p).resv = r.resv
          /\ mark(p).reason = r.reason
        BY <1>1 DEF Row
    <2> QED
        BY <2>1, SameEases, EaseIsDrift
<1>4. \/ t = r
      \/ \E p \in Protections : t = mark(p)
      \/ /\ r.status = "DETECTED" /\ ~ManuallyReleased(r)
         /\ r.resv \notin {"RESERVED", "CONSUMED"} /\ t = g
    BY DEF Reserve, Reservable, Protections
<1>5. CASE t = r
    BY <1>1, <1>5, SameEases, EaseIsDrift
<1>6. CASE \E p \in Protections : t = mark(p)
    BY <1>3, <1>6
<1>7. CASE /\ r.status = "DETECTED" /\ ~ManuallyReleased(r)
           /\ r.resv \notin {"RESERVED", "CONSUMED"} /\ t = g
    <2>1. r.resv = "NONE" \/ (r.resv = "RELEASED" /\ r.reason # "MANUAL")
        BY <1>1, <1>7 DEF Row, ManuallyReleased
    <2> HIDE DEF g, r
    <2>2. Drifts(r, g)
        BY <1>1, <1>2, <1>7, <2>1, GrantDrifts
    <2> QED
        BY <1>2, <1>7, <2>2 DEF r
<1> QED
    BY <1>4, <1>5, <1>6, <1>7

LEMMA CreditTriggerDrifts ==
    ASSUME NEW rows \in Rows, NEW b, NEW i \in Interviews, Settled(rows[i])
    PROVE  /\ CreditTrigger(rows, b, i) \in Row
           /\ Drifts(rows[i], CreditTrigger(rows, b, i))
<1> DEFINE r == rows[i]
           t == CreditTrigger(rows, b, i)
<1>1. r \in Row
    BY DEF Rows
<1>2. CASE r.status = "DETECTED" /\ ~Ended(r)
    BY <1>2, ReserveDrifts DEF CreditTrigger
<1>3. CASE (r.status = "DETECTED" /\ Ended(r)) \/ r.status \in {"CANCELLED", "EXCLUDED"}
    <2> DEFINE q == Release(r, "INELIGIBLE")
    <2>1. t = [q EXCEPT !.protection = "RELEASED"]
        BY <1>3 DEF CreditTrigger
    <2>2. q \in Row
        BY <1>1, ReleaseFields
    <2> HIDE DEF q
    <2>3. t \in Row /\ t.status = q.status /\ t.resv = q.resv /\ t.reason = q.reason
        BY <2>1, <2>2 DEF Row, Protections
    <2> HIDE DEF t
    <2>4. Eases(r, t)
        BY <1>1, <1>3, <2>3, ReleaseEases DEF q
    <2> QED
        BY <2>3, <2>4, EaseIsDrift DEF t
<1>4. CASE r.status \notin {"DETECTED", "CANCELLED", "EXCLUDED"}
    <2>1. t = r
        BY <1>4 DEF CreditTrigger
    <2> QED
        BY <1>1, <2>1, SameEases, EaseIsDrift
<1> QED
    BY <1>2, <1>3, <1>4

-----------------------------------------------------------------------------
(* Counting reservations *)

\* At most n elements of a finite set have fewer than n predecessors in a strict
\* linear order, given by the sets of predecessors.
LEMMA FewPrecede ==
    ASSUME NEW S, IsFiniteSet(S), NEW n \in Nat, NEW before \in [S -> SUBSET S],
           \A i \in S : i \notin before[i],
           \A i, j \in S : i # j => i \in before[j] \/ j \in before[i],
           \A i, j \in S : i \in before[j] => before[i] \subseteq before[j]
    PROVE  LET T == {i \in S : Cardinality(before[i]) < n}
           IN  IsFiniteSet(T) /\ Cardinality(T) <= n
<1> DEFINE T == {i \in S : Cardinality(before[i]) < n}
           rank == [i \in T |-> Cardinality(before[i])]
<1>1. IsFiniteSet(T)
    BY FS_Subset
<1>2. \A i \in S : IsFiniteSet(before[i]) /\ Cardinality(before[i]) \in Nat
    BY FS_Subset, FS_CardinalityType
<1>3. ASSUME NEW i \in S, NEW j \in S, i \in before[j]
      PROVE  Cardinality(before[i]) < Cardinality(before[j])
    <2>1. before[i] \subseteq before[j] /\ i \notin before[i]
        BY <1>3
    <2>2. Cardinality(before[i]) <= Cardinality(before[j])
        BY <1>2, <2>1, FS_Subset
    <2>3. Cardinality(before[i]) # Cardinality(before[j])
        BY <1>2, <1>3, <2>1, FS_Subset
    <2> QED
        BY <1>2, <2>2, <2>3
<1>4. rank \in [T -> 0..(n - 1)]
    BY <1>2
<1>5. ASSUME NEW i \in T, NEW j \in T, i # j
      PROVE  rank[i] # rank[j]
    <2>1. i \in before[j] \/ j \in before[i]
        BY <1>5
    <2>2. Cardinality(before[i]) # Cardinality(before[j])
        BY <1>2, <1>3, <2>1
    <2> QED
        BY <2>2
<1>6. rank \in Injection(T, 0..(n - 1))
    BY <1>4, <1>5 DEF Injection, IsInjective
<1>7. IsFiniteSet(0..(n - 1)) /\ Cardinality(0..(n - 1)) = n
    BY FS_Interval
<1>8. Cardinality(T) <= Cardinality(0..(n - 1))
    BY <1>6, <1>7, FS_Injection
<1> QED
    BY <1>1, <1>7, <1>8

\* The order in which the credits are handed out is linear and strict.
LEMMA StartsOrder ==
    ASSUME NEW rows \in Rows,
           NEW i \in Interviews, NEW j \in Interviews, NEW k \in Interviews
    PROVE  /\ ~StartsBefore(rows, i, i)
           /\ i # j => StartsBefore(rows, i, j) \/ StartsBefore(rows, j, i)
           /\ StartsBefore(rows, i, j) /\ StartsBefore(rows, j, k) => StartsBefore(rows, i, k)
<1>1. i \in Nat /\ j \in Nat /\ k \in Nat
    BY ConstantsAssumption
<1>2. rows[i].phase \in Phases /\ rows[j].phase \in Phases /\ rows[k].phase \in Phases
    BY DEF Rows, Row
<1>3. \A p \in Phases : PhaseIndex[p] \in 0..5
    BY DEF PhaseIndex, Phases
<1>4. \A p, q \in Phases : PhaseIndex[p] = PhaseIndex[q] => p = q
    BY DEF PhaseIndex, Phases
<1> QED
    BY <1>1, <1>2, <1>3, <1>4 DEF StartsBefore

LEMMA OutranksOrder ==
    ASSUME NEW rows \in Rows,
           NEW i \in Interviews, NEW j \in Interviews, NEW k \in Interviews
    PROVE  /\ ~Outranks(rows, i, i)
           /\ i # j => Outranks(rows, i, j) \/ Outranks(rows, j, i)
           /\ Outranks(rows, i, j) /\ Outranks(rows, j, k) => Outranks(rows, i, k)
BY StartsOrder DEF Outranks

\* The entitlement covers no more interviews than it has credits.
LEMMA DesiredBound ==
    ASSUME NEW rows \in Rows, NEW n \in Nat
    PROVE  IsFiniteSet(Desired(rows, n)) /\ Cardinality(Desired(rows, n)) <= n
<1> DEFINE S == {i \in Interviews : Protectable(rows[i])}
           before == [i \in S |-> {j \in S : Outranks(rows, j, i)}]
           T == {i \in S : Cardinality(before[i]) < n}
<1>1. IsFiniteSet(S)
    BY ConstantsAssumption, FS_Subset
<1>2. before \in [S -> SUBSET S]
    OBVIOUS
<1>3. Desired(rows, n) = T
    BY DEF Desired
<1>4. \A i \in S : i \notin before[i]
    BY OutranksOrder
<1>5. \A i, j \in S : i # j => i \in before[j] \/ j \in before[i]
    BY OutranksOrder
<1>6. \A i, j \in S : i \in before[j] => before[i] \subseteq before[j]
    BY OutranksOrder
<1> HIDE DEF S, before
<1>7. IsFiniteSet(T) /\ Cardinality(T) <= n
    BY <1>1, <1>2, <1>4, <1>5, <1>6, FewPrecede
<1> QED
    BY <1>3, <1>7

\* No more credits are handed out than are free.
LEMMA GrantsBound ==
    ASSUME NEW rows \in Rows, NEW b, NEW n \in Nat,
           n = IF b.active THEN Available(rows, b) ELSE 0
    PROVE  IsFiniteSet(Grants(rows, b)) /\ Cardinality(Grants(rows, b)) <= n
<1> DEFINE S == Waiting(rows)
           before == [i \in S |-> {j \in S : StartsBefore(rows, j, i)}]
           T == {i \in S : Cardinality(before[i]) < n}
<1>1. S \subseteq Interviews /\ IsFiniteSet(S)
    BY ConstantsAssumption, FS_Subset DEF Waiting
<1> HIDE DEF S
<1>2. before \in [S -> SUBSET S]
    OBVIOUS
<1>3. Grants(rows, b) = T
    BY DEF Grants, S
<1>4. \A i \in S : i \notin before[i]
    BY <1>1, StartsOrder
<1>5. \A i, j \in S : i # j => i \in before[j] \/ j \in before[i]
    BY <1>1, StartsOrder
<1>6. \A i, j \in S : i \in before[j] => before[i] \subseteq before[j]
    BY <1>1, StartsOrder
<1> HIDE DEF before
<1>7. IsFiniteSet(T) /\ Cardinality(T) <= n
    BY <1>1, <1>2, <1>4, <1>5, <1>6, FewPrecede
<1> QED
    BY <1>3, <1>7

\* NoOverbooking, of any rows and ledger.
Booked(rows, b) ==
    /\ b.active /\ b.granted /\ Reserved(rows) # {}
       => Cardinality(Reserved(rows)) <= Balance(b)
    /\ ~b.active => Reserved(rows) = {}

LEMMA ReservedFinite ==
    ASSUME NEW rows
    PROVE  IsFiniteSet(Reserved(rows)) /\ Cardinality(Reserved(rows)) \in Nat
BY ConstantsAssumption, FS_Subset, FS_CardinalityType DEF Reserved

\* Taking reservations away never overbooks.
LEMMA FewerBooked ==
    ASSUME NEW rows, NEW less, NEW b \in Bank, Booked(rows, b),
           Reserved(less) \subseteq Reserved(rows)
    PROVE  Booked(less, b)
<1>1. Cardinality(Reserved(less)) <= Cardinality(Reserved(rows))
    BY ReservedFinite, FS_Subset
<1>2. /\ Cardinality(Reserved(less)) \in Nat /\ Cardinality(Reserved(rows)) \in Nat
      /\ Balance(b) \in Int
    BY ReservedFinite DEF Bank, Balance
<1> QED
    BY <1>1, <1>2 DEF Booked

\* After a reconciliation nothing is overbooked, whatever was before.
LEMMA ReconciledBooked ==
    ASSUME NEW rows \in Rows, NEW b \in Bank, AllSettled(rows)
    PROVE  Booked(Reconciled(rows, b), EnsureAllowance(b))
<1> DEFINE e == EnsureAllowance(b)
           ent == Entitlement(e)
           D == Desired(rows, ent)
           T == Trim(rows, D)
           G == Grants(T, e)
           R == Reserved(T)
           free == IF e.active THEN Available(T, e) ELSE 0
<1>1. e \in Bank
    BY EnsureAllowanceType
<1> HIDE DEF e
<1>2. Balance(e) \in Int
    BY <1>1 DEF Bank, Balance
<1>3. ent \in Nat /\ ent = IF e.active /\ Balance(e) > 0 THEN Balance(e) ELSE 0
    BY <1>2 DEF Entitlement
<1> HIDE DEF ent
<1>4. IsFiniteSet(D) /\ Cardinality(D) <= ent /\ Cardinality(D) \in Nat
    BY <1>3, DesiredBound, FS_CardinalityType
<1> HIDE DEF D
<1>5. T \in Rows
    <2>1. \A j \in Interviews : T[j] \in Row
        BY TrimEases DEF AllSettled
    <2> QED
        BY <2>1 DEF Trim, Rows
<1>6. R \subseteq D
    <2> SUFFICES ASSUME NEW i \in Interviews, T[i].resv = "RESERVED", i \notin D
                 PROVE  FALSE
        BY DEF Reserved
    <2> DEFINE r == Release(rows[i], "ENTITLEMENT")
    <2>1. r \in Row /\ r.resv # "RESERVED"
        BY ReleaseFields DEF Rows
    <2>2. T[i] = r \/ T[i] = Expire(r)
        BY DEF Trim
    <2> HIDE DEF r
    <2>3. Expire(r).resv # "RESERVED"
        BY <2>1, ExpireFields
    <2> QED
        BY <2>1, <2>2, <2>3
<1>7. IsFiniteSet(R) /\ Cardinality(R) \in Nat /\ Cardinality(R) <= ent
    BY <1>3, <1>4, <1>6, FS_Subset, FS_CardinalityType
<1> HIDE DEF T
<1>8. Reserved(Settle(T, e)) \subseteq R \cup G
    <2> SUFFICES ASSUME NEW i \in Interviews, Settle(T, e)[i].resv = "RESERVED", i \notin G
                 PROVE  T[i].resv = "RESERVED"
        BY DEF Reserved
    <2>1. T[i] \in Row
        BY <1>5 DEF Rows
    <2>2. \/ Settle(T, e)[i] = T[i]
          \/ Settle(T, e)[i] = [T[i] EXCEPT !.protection = ProtectionOf(T[i], e)]
        BY DEF Settle
    <2> QED
        BY <2>1, <2>2 DEF Row
<1>9. Available(T, e) \in Nat
      /\ Available(T, e) = IF Balance(e) > Cardinality(R) THEN Balance(e) - Cardinality(R) ELSE 0
    BY <1>2, <1>7 DEF Available
<1>10. free \in Nat
    BY <1>9
<1>11. IsFiniteSet(G) /\ Cardinality(G) <= free /\ Cardinality(G) \in Nat
    BY <1>5, <1>10, GrantsBound, FS_CardinalityType
<1> HIDE DEF R, G
<1>12. IsFiniteSet(R \cup G) /\ Cardinality(R \cup G) <= Cardinality(R) + Cardinality(G)
    <2>1. /\ IsFiniteSet(R \cup G)
          /\ Cardinality(R \cup G) = Cardinality(R) + Cardinality(G) - Cardinality(R \cap G)
        BY <1>7, <1>11, FS_Union
    <2>2. Cardinality(R \cap G) \in Nat
        BY <1>7, FS_Subset, FS_CardinalityType
    <2> QED
        BY <1>7, <1>11, <2>1, <2>2
<1> DEFINE S == Reserved(Settle(T, e))
<1>13. IsFiniteSet(S) /\ Cardinality(S) \in Nat /\ Cardinality(S) <= Cardinality(R \cup G)
    BY <1>8, <1>12, FS_Subset, FS_CardinalityType
<1>14. Cardinality(R \cup G) \in Nat
    BY <1>12, FS_CardinalityType
<1>15. S # {} => Cardinality(S) > 0
    BY <1>13, FS_EmptySet
<1> HIDE DEF S
<1>16. Cardinality(S) <= Cardinality(R) + free
    BY <1>7, <1>10, <1>11, <1>12, <1>13, <1>14
<1>17. e.active /\ S # {} => Cardinality(S) <= Balance(e)
    BY <1>2, <1>3, <1>7, <1>9, <1>13, <1>15, <1>16
<1>18. ~e.active => S = {}
    BY <1>3, <1>7, <1>13, <1>15, <1>16
<1>19. Reconciled(rows, b) = Settle(T, e)
    BY DEF Reconciled, T, D, ent, e
<1> QED
    BY <1>17, <1>18, <1>19 DEF Booked, S, e

\* A reservation takes one of the free credits.
LEMMA ReserveBooked ==
    ASSUME NEW rows \in Rows, NEW b \in Bank, NEW i \in Interviews, Booked(rows, b),
           Reservable(rows[i], b) => EnsureAllowance(b) = b
    PROVE  Booked(With(rows, i, Reserve(rows, b, i)), b)
<1> DEFINE r == rows[i]
           t == Reserve(rows, b, i)
           new == With(rows, i, t)
<1>1. r \in Row /\ t \in Row
    BY ReserveDrifts DEF Rows
<1>2. \A j \in Interviews : new[j] = IF j = i THEN t ELSE rows[j]
    BY DEF With, Rows
<1>3. t.resv = "RESERVED" =>
        \/ r.resv = "RESERVED"
        \/ Reservable(r, b) /\ Available(rows, EnsureAllowance(b)) # 0
    <2>1. \/ t.resv = r.resv
          \/ Reservable(r, b) /\ Available(rows, EnsureAllowance(b)) # 0
        BY <1>1 DEF Reserve, Reservable, Row
    <2> QED
        BY <2>1
<1> HIDE DEF new, t
<1>4. CASE t.resv # "RESERVED" \/ r.resv = "RESERVED"
    <2>1. Reserved(new) \subseteq Reserved(rows)
        BY <1>2, <1>4 DEF Reserved
    <2> QED
        BY <2>1, FewerBooked DEF new, t
<1>5. CASE t.resv = "RESERVED" /\ r.resv # "RESERVED"
    <2>1. b.active /\ Available(rows, b) # 0
        BY <1>3, <1>5 DEF Reservable
    <2>2. Reserved(new) \subseteq Reserved(rows) \cup {i}
        BY <1>2 DEF Reserved
    <2> DEFINE R == Reserved(rows)
    <2>3. IsFiniteSet(R) /\ Cardinality(R) \in Nat /\ Balance(b) \in Int
        BY ReservedFinite DEF Bank, Balance
    <2>4. Cardinality(R) < Balance(b)
        BY <2>1, <2>3 DEF Available
    <2> HIDE DEF R
    <2>5. /\ IsFiniteSet(R \cup {i}) /\ Cardinality(R \cup {i}) \in Nat
          /\ Cardinality(R \cup {i}) <= Cardinality(R) + 1
        <3>1. /\ IsFiniteSet(R \cup {i})
              /\ Cardinality(R \cup {i}) = IF i \in R THEN Cardinality(R)
                                           ELSE Cardinality(R) + 1
            BY <2>3, FS_AddElement
        <3> QED
            BY <2>3, <3>1
    <2>6. /\ Cardinality(Reserved(new)) <= Cardinality(R \cup {i})
          /\ Cardinality(Reserved(new)) \in Nat
        BY <2>2, <2>5, FS_Subset, FS_CardinalityType DEF R
    <2>7. Cardinality(Reserved(new)) <= Balance(b)
        BY <2>3, <2>4, <2>5, <2>6
    <2> QED
        BY <2>1, <2>7 DEF Booked, new, t
<1> QED
    BY <1>4, <1>5

\* So does the credit trigger, or it takes a reservation away.
LEMMA CreditTriggerBooked ==
    ASSUME NEW rows \in Rows, NEW b \in Bank, NEW i \in Interviews, Booked(rows, b),
           Reservable(rows[i], b) => EnsureAllowance(b) = b
    PROVE  Booked(With(rows, i, CreditTrigger(rows, b, i)), b)
<1> DEFINE r == rows[i]
           t == CreditTrigger(rows, b, i)
           new == With(rows, i, t)
<1>1. CASE r.status = "DETECTED" /\ ~Ended(r)
    BY <1>1, ReserveBooked DEF CreditTrigger
<1>2. CASE ~(r.status = "DETECTED" /\ ~Ended(r))
    <2>1. r \in Row
        BY DEF Rows
    <2>2. t.resv = "RESERVED" => r.resv = "RESERVED"
        <3> DEFINE q == Release(r, "INELIGIBLE")
        <3>1. q \in Row /\ q.resv # "RESERVED"
            BY <2>1, ReleaseFields
        <3>2. t = r \/ t = [q EXCEPT !.protection = "RELEASED"]
            BY <1>2 DEF CreditTrigger
        <3> HIDE DEF q
        <3>3. [q EXCEPT !.protection = "RELEASED"].resv = q.resv
            BY <3>1 DEF Row
        <3> QED
            BY <3>1, <3>2, <3>3
    <2>3. \A j \in Interviews : new[j] = IF j = i THEN t ELSE rows[j]
        BY DEF With, Rows
    <2> HIDE DEF new, t
    <2>4. Reserved(new) \subseteq Reserved(rows)
        BY <2>2, <2>3 DEF Reserved
    <2> QED
        BY <2>4, FewerBooked DEF new, t
<1> QED
    BY <1>1, <1>2

-----------------------------------------------------------------------------
(* The kinds of steps *)

\* The second inductive invariant: a reservation belongs to an interview that may
\* still start, and no more is reserved than the ledger holds.
SInv == IInv /\ AllSettled(iv) /\ NoOverbooking

\* What a transaction that leaves the ledger alone may do to a row.
Touches(r, t) ==
    \/ Eases(r, t)
    \/ /\ t.status # "ABSENT"
       /\ \/ Lapses(r, t) /\ Hold(r) \in {"held", "returned"} /\ Hold(t) = "given back"
          \/ /\ Stage(r) = "accepted" /\ Stage(t) = "accepted"
             /\ Hold(r) = "held" /\ Hold(t) = "returned"
          \/ /\ Hold(r) = "held" /\ Hold(t) = "held"
             /\ \/ Stage(r) = "open" /\ Stage(t) = "invited"
                \/ Stage(r) = "invited" /\ Stage(t) = "accepted"
          \/ /\ Stage(r) = "invited" /\ Stage(t) = "declined"
             /\ Hold(r) = "held" /\ Hold(t) = "returned"
          \/ /\ Stage(r) = "monitored" /\ Stage(t) = "finished" /\ Hold(t) = Hold(r)

Quiet ==
    \/ UNCHANGED <<iv, bank>>
    \/ \E i \in Interviews : \E t \in Row : Update(i, t) /\ Touches(iv[i], t)

\* A transaction that reserves credits or changes the ledger.
Writes ==
    \E rows \in Rows, b \in Bank :
        /\ Commit(rows, b)
        /\ \A i \in Interviews : Drifts(iv[i], rows[i])
        /\ b = bank => Booked(rows, b)

\* A start, a new month, and a reconciliation.
Monitored(r) == [r EXCEPT !.status = "MONITORING_ACTIVE", !.protection = "CONSUMED",
                          !.resv = "CONSUMED", !.consented = 0]
Starts ==
    \E i \in Interviews :
        StartAllowed(iv[i]) /\ Commit(With(iv, i, Monitored(iv[i])), Charge(bank))

NewMonth == iv' = iv /\ bank' = [bank EXCEPT !.granted = FALSE, !.allowance = 0]

Reconciles ==
    /\ bank' = EnsureAllowance(bank)
    /\ \A i \in Interviews :
         LET t == Reconciled(iv, bank)[i]
         IN  iv'[i].status = t.status /\ iv'[i].resv = t.resv /\ iv'[i].reason = t.reason

Kinds == Quiet \/ Writes \/ Starts \/ NewMonth \/ Reconciles

\* What the invariant says of one row.
LEMMA RowFacts ==
    ASSUME SInv, NEW i \in Interviews
    PROVE  /\ iv \in Rows /\ iv[i] \in Row /\ iv[i] \in GoodRow /\ bank \in Bank
           /\ Settled(iv[i]) /\ AllSettled(iv)
           /\ iv[i].status \in Started <=> iv[i].resv = "CONSUMED"
           /\ iv[i].job \in {"PENDING", "PROCESSING"} => iv[i].status = "VERIFICATION_SCHEDULED"
BY DEF SInv, IInv, TypeOK, Rows, AllSettled, GoodRow, Coherent, Charged, HasJob

LEMMA BookedNow ==
    ASSUME SInv
    PROVE  Booked(iv, bank)
BY DEF SInv, NoOverbooking, Booked

\* Writing one row.
LEMMA WithRows ==
    ASSUME NEW rows \in Rows, NEW i \in Interviews, NEW t \in Row
    PROVE  /\ With(rows, i, t) \in Rows
           /\ \A j \in Interviews : With(rows, i, t)[j] = IF j = i THEN t ELSE rows[j]
BY DEF With, Rows

\* Transactions that write a row and reserve a credit for it, or not.
LEMMA ReserveWrites ==
    ASSUME SInv, NEW i \in Interviews, ReserveCredit(i)
    PROVE  Writes
<1> DEFINE t == Reserve(iv, bank, i)
           rows == With(iv, i, t)
           b == IF Reservable(iv[i], bank) THEN EnsureAllowance(bank) ELSE bank
<1>1. iv \in Rows /\ bank \in Bank /\ AllSettled(iv) /\ Booked(iv, bank)
    BY RowFacts, BookedNow
<1>2. t \in Row /\ Drifts(iv[i], t)
    BY <1>1, ReserveDrifts
<1>3. rows \in Rows /\ \A j \in Interviews : rows[j] = IF j = i THEN t ELSE iv[j]
    BY <1>1, <1>2, WithRows
<1>4. Commit(rows, b)
    BY DEF ReserveCredit, CommitReserving
<1>5. b = bank => Booked(rows, bank)
    BY <1>1, ReserveBooked
<1>6. b \in Bank
    BY <1>1, EnsureAllowanceType
<1> HIDE DEF t, rows, b
<1>7. \A j \in Interviews : Drifts(iv[j], rows[j])
    BY <1>2, <1>3, SameEases, EaseIsDrift
<1> QED
    BY <1>3, <1>4, <1>5, <1>6, <1>7 DEF Writes

LEMMA CommitWriteWrites ==
    ASSUME SInv, NEW i \in Interviews, NEW r \in Row, Eases(iv[i], r), CommitWrite(i, r)
    PROVE  Writes
<1> DEFINE old == With(iv, i, r)
           t == CreditTrigger(old, bank, i)
           rows == With(old, i, t)
           b == IF Reservable(old[i], bank) THEN EnsureAllowance(bank) ELSE bank
<1>1. /\ iv \in Rows /\ bank \in Bank /\ AllSettled(iv) /\ Booked(iv, bank)
      /\ iv[i] \in Row /\ Settled(iv[i])
    BY RowFacts, BookedNow
<1>2. old \in Rows /\ \A j \in Interviews : old[j] = IF j = i THEN r ELSE iv[j]
    BY <1>1, WithRows
<1>3. Commit(rows, b)
    BY DEF CommitWrite, CommitReserving
<1>4. b \in Bank
    BY <1>1, EnsureAllowanceType
<1> HIDE DEF old
<1>5. Drifts(iv[i], r) /\ Settled(r)
    BY <1>1, EaseIsDrift, DriftsSettled
<1>6. t \in Row /\ Drifts(r, t)
    BY <1>2, <1>5, CreditTriggerDrifts
<1>7. rows \in Rows /\ \A j \in Interviews : rows[j] = IF j = i THEN t ELSE old[j]
    BY <1>2, <1>6, WithRows
<1>8. Booked(old, bank)
    <2>1. r.resv = "RESERVED" => iv[i].resv = "RESERVED"
        BY <1>1 DEF Eases, Still, Hold, Row
    <2>2. Reserved(old) \subseteq Reserved(iv)
        BY <1>2, <2>1 DEF Reserved
    <2> QED
        BY <1>1, <2>2, FewerBooked
<1>9. b = bank => Booked(rows, bank)
    BY <1>1, <1>2, <1>8, CreditTriggerBooked
<1> HIDE DEF t, rows, b
<1>10. \A j \in Interviews : Drifts(iv[j], rows[j])
    BY <1>2, <1>5, <1>6, <1>7, SameEases, EaseIsDrift, DriftsTrans
<1> QED
    BY <1>3, <1>4, <1>7, <1>9, <1>10 DEF Writes

-----------------------------------------------------------------------------
(* The calendar *)

\* Rescheduling and cleaning up keep the credit as it is.
LEMMA DatedFields ==
    ASSUME NEW r \in Row, NEW p \in Phases
    PROVE  LET d == [RescheduleJob(r) EXCEPT !.phase = p]
           IN  d \in Row /\ d.status = r.status /\ d.resv = r.resv /\ d.reason = r.reason
<1> DEFINE q == RescheduleJob(r)
<1>1. q \in Row /\ q.status = r.status /\ q.resv = r.resv /\ q.reason = r.reason
    <2>1. CASE r.status = "VERIFICATION_SCHEDULED" /\ r.job # "COMPLETED"
        <3> DEFINE e == [r EXCEPT !.job = "PENDING", !.attempts = 0, !.owner = NoWorker,
                                  !.leased = FALSE, !.stale = FALSE]
        <3>1. q = e
            BY <2>1 DEF RescheduleJob
        <3>2. 0 \in 0..MaxAttempts
            BY ConstantsAssumption
        <3>3. e \in Row
            BY <3>2 DEF Row
        <3>4. e.status = r.status /\ e.resv = r.resv /\ e.reason = r.reason
            BY DEF Row
        <3> QED
            BY <3>1, <3>3, <3>4
    <2>2. CASE ~(r.status = "VERIFICATION_SCHEDULED" /\ r.job # "COMPLETED")
        BY <2>2 DEF RescheduleJob
    <2> QED
        BY <2>1, <2>2
<1> HIDE DEF q
<1>2. /\ [q EXCEPT !.phase = p] \in Row /\ [q EXCEPT !.phase = p].status = q.status
      /\ [q EXCEPT !.phase = p].resv = q.resv /\ [q EXCEPT !.phase = p].reason = q.reason
    BY <1>1 DEF Row
<1> QED
    BY <1>1, <1>2 DEF q

LEMMA CleanupFields ==
    ASSUME NEW r \in Row, NEW to \in {"DETECTED", "CANCELLED", "EXCLUDED"}
    PROVE  /\ Cleanup(r, to) \in Row /\ Cleanup(r, to).status = to
           /\ Cleanup(r, to).resv = r.resv /\ Cleanup(r, to).reason = r.reason
<1>1. 0 \in 0..MaxAttempts /\ to \in Statuses
    BY ConstantsAssumption DEF Statuses
<1>2. CASE r.status = to
    BY <1>2 DEF Cleanup
<1>3. CASE r.status # to
    <2> DEFINE e == [r EXCEPT !.status = to, !.job = "NONE", !.attempts = 0,
                              !.owner = NoWorker, !.leased = FALSE, !.stale = FALSE,
                              !.token = FALSE, !.mail = FALSE, !.consented = 0]
    <2>1. Cleanup(r, to) = e
        BY <1>3 DEF Cleanup
    <2>2. e \in Row
        BY <1>1 DEF Row
    <2>3. e.status = to /\ e.resv = r.resv /\ e.reason = r.reason
        BY DEF Row
    <2> QED
        BY <2>1, <2>2, <2>3
<1> QED
    BY <1>2, <1>3

\* An interview goes from one open status to another.
LEMMA OpenEases ==
    ASSUME NEW r \in Row, NEW t \in Row, Stage(r) \in Early, r.resv # "CONSUMED",
           t.status \in {"DETECTED", "CANCELLED", "EXCLUDED", "NO_CREDITS",
                         "SUBSCRIPTION_INACTIVE", "UNABLE_TO_VERIFY", "PROTECTED",
                         "VERIFICATION_SCHEDULED"},
           t.resv = r.resv, t.reason = r.reason
    PROVE  Eases(r, t)
<1>1. Stage(t) = "open" /\ t.status # "ABSENT"
    BY DEF Stage
<1> QED
    BY <1>1, LapseEases

LEMMA CalendarKinds ==
    ASSUME SInv, NEW i \in Interviews, Calendar(i)
    PROVE  Kinds
<1>1. /\ iv[i] \in Row /\ Settled(iv[i]) /\ bank \in Bank
      /\ iv[i].status \in Started <=> iv[i].resv = "CONSUMED"
    BY RowFacts
<1>2. Slots \subseteq Phases /\ 0 \in 0..MaxAttempts /\ iv[i].phase \in Phases
    BY <1>1, ConstantsAssumption DEF Row
<1>3. ASSUME NEW p \in Phases, CalendarInsert(i, p)
      PROVE  Writes
    <2> DEFINE r == [NoRow EXCEPT !.status = "DETECTED", !.phase = p]
    <2>1. r \in Row /\ r.status = "DETECTED" /\ r.resv = "NONE"
        BY <1>2 DEF NoRow, Row, Statuses, Protections
    <2>2. iv[i].status = "ABSENT" /\ iv[i].resv = "NONE" /\ CommitWrite(i, r)
        BY <1>1, <1>3 DEF CalendarInsert, Settled
    <2> HIDE DEF r
    <2>3. Eases(iv[i], r)
        BY <2>1, <2>2 DEF Eases, Appears, Still, Stage, Hold
    <2> QED
        BY <2>1, <2>2, <2>3, CommitWriteWrites
<1>4. ASSUME NEW what, NEW p \in Phases, CalendarUpsert(i, what, p)
      PROVE  Writes
    <2> DEFINE r == iv[i]
               dated == IF what = "schedule" THEN [RescheduleJob(r) EXCEPT !.phase = p] ELSE r
               back == \/ r.status \in {"CANCELLED", "EXCLUDED"}
                       \/ /\ r.status \in {"CONSENT_PENDING", "DEVICE_CONNECTING",
                                           "UNABLE_TO_VERIFY"}
                          /\ what \in {"schedule", "candidate"}
               clean == Cleanup(dated, "DETECTED")
               row == IF back THEN clean ELSE dated
    <2>1. CommitWrite(i, row)
        BY <1>4 DEF CalendarUpsert
    <2>2. dated \in Row /\ dated.status = r.status /\ dated.resv = r.resv /\ dated.reason = r.reason
        BY <1>1, DatedFields
    <2> HIDE DEF dated
    <2>3. /\ clean \in Row /\ clean.status = "DETECTED" /\ clean.resv = dated.resv
          /\ clean.reason = dated.reason
        BY <2>2, CleanupFields
    <2>4. back => Stage(r) \in Early /\ r.resv # "CONSUMED"
        BY <1>1 DEF Stage, Early, Started
    <2> HIDE DEF clean
    <2>5. back => Eases(r, clean)
        BY <1>1, <2>2, <2>3, <2>4, OpenEases
    <2>6. Eases(r, dated)
        BY <2>2, SameEases
    <2>7. row \in Row /\ Eases(iv[i], row)
        BY <2>2, <2>3, <2>5, <2>6
    <2> HIDE DEF row
    <2> QED
        BY <2>1, <2>7, CommitWriteWrites
<1>5. ASSUME NEW cancelled, CalendarRemove(i, cancelled)
      PROVE  Writes
    <2> DEFINE to == IF cancelled \/ iv[i].status = "DEVICE_CONNECTING"
                     THEN "CANCELLED" ELSE "EXCLUDED"
               clean == Cleanup(iv[i], to)
    <2>1. CommitWrite(i, clean) /\ iv[i].status \in Withdrawable
        BY <1>5 DEF CalendarRemove
    <2>2. to \in {"CANCELLED", "EXCLUDED"}
        OBVIOUS
    <2> HIDE DEF to
    <2>3. /\ clean \in Row /\ clean.status = to /\ clean.resv = iv[i].resv
          /\ clean.reason = iv[i].reason
        BY <1>1, <2>2, CleanupFields
    <2>4. Stage(iv[i]) \in Early /\ iv[i].resv # "CONSUMED"
        BY <1>1, <2>1, VerifyingEarly DEF Withdrawable, BeforeMonitoring, Started
    <2> HIDE DEF clean
    <2>5. Eases(iv[i], clean)
        BY <1>1, <2>2, <2>3, <2>4, OpenEases
    <2> QED
        BY <2>1, <2>3, <2>5, CommitWriteWrites
<1> QED
    BY <1>2, <1>3, <1>4, <1>5 DEF Calendar, Kinds

-----------------------------------------------------------------------------
(* The orchestrator and the delivery workers *)

\* A transaction that writes one row and fires no trigger.
LEMMA EaseQuiet ==
    ASSUME NEW i \in Interviews, NEW t \in Row, Update(i, t), Eases(iv[i], t)
    PROVE  Kinds
BY DEF Kinds, Quiet, Touches

LEMMA OrchestratorKinds ==
    ASSUME SInv, NEW i \in Interviews, Orchestrator(i)
    PROVE  Kinds
<1>1. /\ iv \in Rows /\ bank \in Bank
      /\ \A j \in Interviews : /\ iv[j] \in Row /\ Settled(iv[j])
                               /\ iv[j].status \in Started <=> iv[j].resv = "CONSUMED"
    BY RowFacts DEF SInv, IInv, TypeOK, Rows
<1>2. CASE ExpireWindow(i)
    <2> DEFINE t == Expire(iv[i])
    <2>1. Stage(iv[i]) \in Early /\ iv[i].resv # "CONSUMED"
        BY <1>1, <1>2 DEF ExpireWindow, Stage, Early, Started
    <2>2. t \in Row /\ Eases(iv[i], t)
        BY <1>1, <2>1, ExpireFields, ExpireEases
    <2>3. Update(i, t)
        BY <1>2 DEF ExpireWindow, Update
    <2> QED
        BY <2>2, <2>3, EaseQuiet
<1>3. CASE OrchestratorRead(i)
    BY <1>3 DEF OrchestratorRead, Kinds, Quiet
<1>4. ASSUME NEW s \in seen, OrchestratorApply(s)
      PROVE  Kinds
    <2> DEFINE k == s.interview
               r == iv[k]
    <2>1. s \in Snapshot /\ k \in Interviews /\ s.status \in Statuses
        BY DEF SInv, IInv, TypeOK, Snapshot
    <2>2. r \in Row /\ (r.status \in Started <=> r.resv = "CONSUMED")
        BY <1>1, <2>1
    <2>3. CASE Revive(s)
        <3>1. CASE r.status = s.status
            <4> DEFINE t == Cleanup(r, "DETECTED")
            <4>1. CommitWrite(k, t) /\ s.status \in {"NO_CREDITS", "SUBSCRIPTION_INACTIVE"}
                BY <2>3, <3>1 DEF Revive
            <4>2. Stage(r) \in Early /\ r.resv # "CONSUMED"
                BY <2>2, <3>1, <4>1 DEF Stage, Early, Started
            <4>3. t \in Row /\ t.status = "DETECTED" /\ t.resv = r.resv /\ t.reason = r.reason
                BY <2>2, CleanupFields
            <4>4. Eases(r, t)
                BY <2>2, <4>2, <4>3, OpenEases
            <4> QED
                BY <2>1, <4>1, <4>3, <4>4, CommitWriteWrites DEF Kinds
        <3>2. CASE r.status # s.status
            <4>1. ReserveCredit(k)
                BY <2>3, <3>2 DEF Revive
            <4> QED
                BY <2>1, <4>1, ReserveWrites DEF Kinds
        <3> QED
            BY <3>1, <3>2
    <2>4. CASE Refuse(s)
        <3> DEFINE to == Refusal(s)
                   t == [r EXCEPT !.status = to]
        <3>1. to # s.status /\ bank' = bank
            BY <2>4 DEF Refuse
        <3>2. to \in {"SUBSCRIPTION_INACTIVE", "NO_CREDITS"} /\ s.status \in {"DETECTED", "PROTECTED"}
            BY <3>1 DEF Refusal
        <3> HIDE DEF to
        <3>3. CASE r.status = s.status
            <4>1. iv' = [iv EXCEPT ![k].status = to]
                BY <2>4, <3>3 DEF Refuse, to
            <4>2. iv' = With(iv, k, t)
                BY <1>1, <4>1 DEF With, Rows
            <4>3. t \in Row /\ t.status = to /\ t.resv = r.resv /\ t.reason = r.reason
                BY <2>2, <3>2 DEF Row, Statuses
            <4>4. Stage(r) \in Early /\ r.resv # "CONSUMED"
                BY <2>2, <3>2, <3>3 DEF Stage, Early, Started
            <4> HIDE DEF t
            <4>5. Eases(r, t)
                BY <2>2, <3>2, <4>3, <4>4, OpenEases
            <4> QED
                BY <2>1, <3>1, <4>2, <4>3, <4>5, EaseQuiet DEF Update
        <3>4. CASE r.status # s.status
            BY <2>4, <3>4 DEF Refuse, Kinds, Quiet
        <3> QED
            BY <3>3, <3>4
    <2>5. CASE Advance(s)
        <3> DEFINE moves == \/ r.status = s.status
                            \/ s.status = "DETECTED" /\ r.status = "PROTECTED"
                   t == IF s.far THEN [r EXCEPT !.status = "PROTECTED"]
                        ELSE [r EXCEPT !.status = "VERIFICATION_SCHEDULED", !.stale = s.moved,
                                       !.job = IF @ = "COMPLETED" THEN @ ELSE "PENDING"]
        <3>1. s.status \in {"DETECTED", "PROTECTED"} /\ bank' = bank /\ s.moved \in BOOLEAN
            BY <2>1, <2>5 DEF Advance, Snapshot
        <3>2. CASE moves
            <4>1. iv' = With(iv, k, t)
                BY <1>1, <2>5, <3>2 DEF Advance, With, Rows
            <4>2. /\ t \in Row /\ t.resv = r.resv /\ t.reason = r.reason
                  /\ t.status \in {"PROTECTED", "VERIFICATION_SCHEDULED"}
                <5>1. CASE s.far
                    BY <2>2, <5>1 DEF Row, Statuses
                <5>2. CASE ~s.far
                    BY <2>2, <3>1, <5>2, ZenonT(30) DEF Row, Statuses
                <5> QED
                    BY <5>1, <5>2
            <4>3. Stage(r) \in Early /\ r.resv # "CONSUMED"
                BY <2>2, <3>1, <3>2 DEF Stage, Early, Started
            <4> HIDE DEF t
            <4>4. Eases(r, t)
                BY <2>2, <4>2, <4>3, OpenEases
            <4> QED
                BY <2>1, <3>1, <4>1, <4>2, <4>4, EaseQuiet DEF Update
        <3>3. CASE ~moves
            BY <2>5, <3>3 DEF Advance, Kinds, Quiet
        <3> QED
            BY <3>2, <3>3
    <2>6. CASE Keep(s)
        BY <2>6 DEF Keep, Kinds, Quiet
    <2> QED
        BY <1>4, <2>3, <2>4, <2>5, <2>6 DEF OrchestratorApply
<1> QED
    BY <1>2, <1>3, <1>4 DEF Orchestrator

\* A failed delivery, whose job was running.
LEMMA FailedEases ==
    ASSUME NEW r \in Row, Settled(r), r.status = "VERIFICATION_SCHEDULED",
           r.resv # "CONSUMED"
    PROVE  Failed(r) \in Row /\ Eases(r, Failed(r))
<1> DEFINE q == Release(r, "INELIGIBLE")
           f == [q EXCEPT !.job = "FAILED", !.leased = FALSE, !.protection = "RELEASED",
                          !.status = "UNABLE_TO_VERIFY"]
           p == [r EXCEPT !.job = "PENDING", !.leased = FALSE]
<1>1. /\ q \in Row /\ q.status = "VERIFICATION_SCHEDULED"
      /\ \/ q.resv = r.resv /\ q.reason = r.reason
         \/ r.resv = "RESERVED" /\ q.resv = "RELEASED" /\ q.reason = "INELIGIBLE"
    BY ReleaseFields
<1> HIDE DEF q
<1>2. /\ f \in Row /\ f.status = "UNABLE_TO_VERIFY" /\ f.resv = q.resv /\ f.reason = q.reason
    <2>1. "UNABLE_TO_VERIFY" \in Statuses /\ "RELEASED" \in Protections
        BY DEF Statuses, Protections
    <2>2. f \in Row
        BY <1>1, <2>1 DEF Row
    <2>3. f.status = "UNABLE_TO_VERIFY" /\ f.resv = q.resv /\ f.reason = q.reason
        BY <1>1 DEF Row
    <2> QED
        BY <2>2, <2>3
<1>3. p \in Row /\ p.status = r.status /\ p.resv = r.resv /\ p.reason = r.reason
    BY DEF Row
<1>4. Stage(r) = "open" /\ Stage(f) = "open"
    BY <1>2 DEF Stage
<1>5. Failed(r) = p \/ Failed(r) = f
    BY <1>1 DEF Failed, q, Row
<1> HIDE DEF f, p
<1>6. Eases(r, f)
    BY <1>1, <1>2, <1>4, LapseEases DEF Early
<1>7. Eases(r, p)
    BY <1>3, SameEases
<1> QED
    BY <1>2, <1>3, <1>5, <1>6, <1>7

LEMMA DeliveryKinds ==
    ASSUME SInv, Delivery
    PROVE  Kinds
<1>1. /\ iv \in Rows /\ bank \in Bank
      /\ \A j \in Interviews :
           /\ iv[j] \in Row /\ iv[j] \in GoodRow /\ Settled(iv[j])
           /\ iv[j].status \in Started <=> iv[j].resv = "CONSUMED"
           /\ iv[j].job \in {"PENDING", "PROCESSING"} => iv[j].status = "VERIFICATION_SCHEDULED"
    BY RowFacts DEF SInv, IInv, TypeOK, Rows
<1>2. \A c \in claim : c.interview \in Interviews
    BY DEF SInv, IInv, TypeOK, Claim
<1>3. ASSUME NEW i \in Interviews, FailExhausted(i)
      PROVE  Kinds
    <2>1. iv[i].job = "PROCESSING" /\ Update(i, Failed(iv[i]))
        BY <1>3 DEF FailExhausted
    <2>2. iv[i].status = "VERIFICATION_SCHEDULED" /\ iv[i].resv # "CONSUMED"
        BY <1>1, <2>1 DEF Started
    <2> QED
        BY <1>1, <2>1, <2>2, FailedEases, EaseQuiet
<1>4. ASSUME NEW i \in Interviews, LeaseExpires(i)
      PROVE  Kinds
    <2> DEFINE t == [iv[i] EXCEPT !.leased = FALSE]
    <2>1. t \in Row /\ t.status = iv[i].status /\ t.resv = iv[i].resv /\ t.reason = iv[i].reason
        BY <1>1 DEF Row
    <2>2. Update(i, t)
        BY <1>1, <1>4 DEF LeaseExpires, Update, With, Rows
    <2> HIDE DEF t
    <2> QED
        BY <2>1, <2>2, SameEases, EaseQuiet
<1>5. ASSUME NEW i \in Interviews, NEW w \in Workers, ClaimDelivery(w, i)
      PROVE  Kinds
    <2> DEFINE r == iv[i]
    <2>1. /\ r \in Row /\ r \in GoodRow /\ Settled(r) /\ Claimable(r)
          /\ r.status = "VERIFICATION_SCHEDULED" /\ r.resv # "CONSUMED"
        BY <1>1, <1>5 DEF ClaimDelivery, Claimable, Started
    <2>2. CASE Deliverable(r) /\ ~Ended(r)
        <3> DEFINE t == [r EXCEPT !.job = "PROCESSING", !.attempts = r.attempts + 1,
                                  !.owner = w, !.leased = TRUE]
        <3>1. Update(i, t)
            BY <1>5, <2>2 DEF ClaimDelivery
        <3>2. r.attempts + 1 \in 0..MaxAttempts
            BY <2>1, <2>2, LeasedGood DEF Deliverable
        <3>3. t \in Row /\ t.status = r.status /\ t.resv = r.resv /\ t.reason = r.reason
            BY <2>1, <3>2 DEF Row
        <3> HIDE DEF t
        <3> QED
            BY <3>1, <3>3, SameEases, EaseQuiet
    <2>3. CASE ~(Deliverable(r) /\ ~Ended(r))
        <3> DEFINE t == ClaimRefused(r)
                   q == [r EXCEPT !.job = "CANCELLED",
                           !.status = IF bank.active THEN "NO_CREDITS" ELSE "SUBSCRIPTION_INACTIVE"]
        <3>1. Update(i, t)
            BY <1>5, <2>3 DEF ClaimDelivery
        <3>2. Stage(r) \in Early
            BY <2>1 DEF Stage, Early
        <3>3. Expire(r) \in Row /\ Eases(r, Expire(r))
            BY <2>1, <3>2, ExpireFields, ExpireEases
        <3>4. /\ q \in Row /\ q.status \in {"NO_CREDITS", "SUBSCRIPTION_INACTIVE"}
              /\ q.resv = r.resv /\ q.reason = r.reason
            BY <2>1 DEF Row, Statuses
        <3>5. t = Expire(r) \/ t = q
            BY <2>1 DEF ClaimRefused
        <3> HIDE DEF t, q
        <3>6. Eases(r, q)
            BY <2>1, <3>2, <3>4, OpenEases
        <3> QED
            BY <3>1, <3>3, <3>4, <3>5, <3>6, EaseQuiet
    <2> QED
        BY <2>2, <2>3
<1>6. ASSUME NEW c \in claim, CompleteDelivery(c)
      PROVE  Kinds
    <2> DEFINE i == c.interview
               r == iv[i]
    <2>1. i \in Interviews
        BY <1>2
    <2> HIDE DEF i
    <2>2. r \in Row /\ Settled(r) /\ (r.status \in Started <=> r.resv = "CONSUMED")
        BY <1>1, <2>1
    <2>3. CASE ~Holds(c)
        BY <1>6, <2>3 DEF CompleteDelivery, Kinds, Quiet
    <2>4. CASE Holds(c) /\ Deliverable(r)
        <3> DEFINE t == Delivered(r)
        <3>1. Update(i, t)
            BY <1>6, <2>4 DEF CompleteDelivery, i
        <3>2. t \in Row /\ t.status = "CONSENT_PENDING" /\ t.resv = r.resv /\ t.reason = r.reason
            BY <2>2 DEF Delivered, Row, Statuses
        <3>3. r.status = "VERIFICATION_SCHEDULED" /\ r.resv = "RESERVED"
            BY <2>2, <2>4 DEF Deliverable, Started
        <3> HIDE DEF t
        <3>4. Touches(r, t)
            BY <3>2, <3>3 DEF Touches, Stage, Hold
        <3> QED
            BY <2>1, <3>1, <3>2, <3>4 DEF Kinds, Quiet
    <2>5. CASE Holds(c) /\ ~Deliverable(r)
        <3> DEFINE t == IF r.status = "VERIFICATION_SCHEDULED" THEN Expire(r) ELSE r
        <3>1. Update(i, t)
            BY <1>6, <2>5 DEF CompleteDelivery, i
        <3>2. CASE r.status = "VERIFICATION_SCHEDULED"
            <4>1. Stage(r) \in Early /\ r.resv # "CONSUMED"
                BY <2>2, <3>2 DEF Stage, Early, Started
            <4>2. Expire(r) \in Row /\ Eases(r, Expire(r))
                BY <2>2, <4>1, ExpireFields, ExpireEases
            <4> QED
                BY <2>1, <3>1, <3>2, <4>2, EaseQuiet
        <3>3. CASE r.status # "VERIFICATION_SCHEDULED"
            BY <2>1, <2>2, <3>1, <3>3, SameEases, EaseQuiet
        <3> QED
            BY <3>2, <3>3
    <2> QED
        BY <2>3, <2>4, <2>5
<1>7. ASSUME NEW c \in claim, FailDelivery(c)
      PROVE  Kinds
    <2>1. CASE Holds(c)
        <3>1. iv[c.interview].job = "PROCESSING" /\ Update(c.interview, Failed(iv[c.interview]))
            BY <1>7, <2>1 DEF FailDelivery, Holds
        <3>2. /\ iv[c.interview].status = "VERIFICATION_SCHEDULED"
              /\ iv[c.interview].resv # "CONSUMED"
            BY <1>1, <1>2, <3>1 DEF Started
        <3> QED
            BY <1>1, <1>2, <3>1, <3>2, FailedEases, EaseQuiet
    <2>2. CASE ~Holds(c)
        BY <1>7, <2>2 DEF FailDelivery, Kinds, Quiet
    <2> QED
        BY <2>1, <2>2
<1>8. ASSUME NEW c \in claim, WorkerCrash(c)
      PROVE  Kinds
    BY <1>8 DEF WorkerCrash, Kinds, Quiet
<1> QED
    BY <1>3, <1>4, <1>5, <1>6, <1>7, <1>8 DEF Delivery

-----------------------------------------------------------------------------
(* Candidates, users, billing and time *)

\* A candidate who cannot be reached.
LEMMA UnreachableEases ==
    ASSUME NEW r \in Row, r.status = "CONSENT_PENDING" => r.resv # "CONSUMED"
    PROVE  Unreachable(r) \in Row /\ Eases(r, Unreachable(r))
<1>1. CASE r.status = "CONSENT_PENDING"
    <2> DEFINE q == Release(r, "INELIGIBLE")
               u == Unprotect(q)
               t == [u EXCEPT !.status = "UNABLE_TO_VERIFY"]
    <2>1. /\ q \in Row
          /\ \/ q.resv = r.resv /\ q.reason = r.reason
             \/ r.resv = "RESERVED" /\ q.resv = "RELEASED" /\ q.reason = "INELIGIBLE"
        BY ReleaseFields
    <2> HIDE DEF q
    <2>2. u \in Row /\ u.resv = q.resv /\ u.reason = q.reason
        BY <2>1 DEF Unprotect, Row, Protections
    <2> HIDE DEF u
    <2>3. t \in Row /\ t.status = "UNABLE_TO_VERIFY" /\ t.resv = u.resv /\ t.reason = u.reason
        BY <2>2 DEF Row, Statuses
    <2>4. Unreachable(r) = t
        BY <1>1 DEF Unreachable, u, q
    <2> HIDE DEF t
    <2>5. Stage(r) \in Early /\ Stage(t) = "open"
        BY <1>1, <2>3 DEF Stage, Early
    <2>6. Eases(r, t)
        BY <1>1, <2>1, <2>2, <2>3, <2>5, LapseEases
    <2> QED
        BY <2>3, <2>4, <2>6
<1>2. CASE r.status # "CONSENT_PENDING"
    BY <1>2, SameEases DEF Unreachable
<1> QED
    BY <1>1, <1>2

LEMMA EasesTrans ==
    ASSUME NEW r, NEW s, NEW t, s.status = r.status, s.resv = r.resv, s.reason = r.reason,
           Eases(s, t)
    PROVE  Eases(r, t)
BY DEF Eases, Appears, Still, Lapses, Stage, Hold

LEMMA CandidateKinds ==
    ASSUME SInv, NEW i \in Interviews, Candidate(i)
    PROVE  Kinds
<1> DEFINE r == iv[i]
<1>1. /\ r \in Row /\ Settled(r) /\ bank \in Bank /\ iv \in Rows
      /\ r.status \in Started <=> r.resv = "CONSUMED"
    BY RowFacts
<1>2. CASE EmailSent(i) \/ EmailUndeliverable(i) \/ EmailFailed(i)
    <2> DEFINE m == [r EXCEPT !.mail = FALSE]
               n == [m EXCEPT !.token = FALSE]
    <2>1. m \in Row /\ m.status = r.status /\ m.resv = r.resv /\ m.reason = r.reason
        BY <1>1 DEF Row
    <2> HIDE DEF m
    <2>2. n \in Row /\ n.status = m.status /\ n.resv = m.resv /\ n.reason = m.reason
        BY <2>1 DEF Row
    <2> HIDE DEF n
    <2>3. /\ Unreachable(m) \in Row /\ Eases(m, Unreachable(m))
          /\ Unreachable(n) \in Row /\ Eases(n, Unreachable(n))
        BY <1>1, <2>1, <2>2, UnreachableEases DEF Started
    <2>4. \/ Update(i, m) \/ Update(i, Unreachable(m)) \/ Update(i, Unreachable(n))
        BY <1>2 DEF EmailSent, EmailUndeliverable, EmailFailed, m, n
    <2>5. Eases(r, m) /\ Eases(r, Unreachable(m)) /\ Eases(r, Unreachable(n))
        <3>1. Eases(r, m)
            BY <2>1, SameEases
        <3>2. Eases(r, Unreachable(m))
            BY <2>1, <2>3, EasesTrans
        <3>3. n.status = r.status /\ n.resv = r.resv /\ n.reason = r.reason
            BY <2>1, <2>2
        <3>4. Eases(r, Unreachable(n))
            BY <2>3, <3>3, EasesTrans
        <3> QED
            BY <3>1, <3>2, <3>4
    <2> QED
        BY <2>1, <2>3, <2>4, <2>5, EaseQuiet
<1>3. ASSUME NEW accepted, RecordConsent(i, accepted)
      PROVE  Kinds
    <2> DEFINE m == [r EXCEPT !.token = FALSE]
               yes == [m EXCEPT !.status = "DEVICE_CONNECTING", !.consented = m.consented + 1]
               q == Release(m, "INELIGIBLE")
               no == [q EXCEPT !.status = "CONSENT_DECLINED", !.protection = "RELEASED"]
    <2>1. m \in Row /\ m.status = r.status /\ m.resv = r.resv
        BY <1>1 DEF Row
    <2>2. r.status = "CONSENT_PENDING" /\ r.resv = "RESERVED"
        BY <1>3, <2>1 DEF RecordConsent
    <2>3. Update(i, yes) \/ Update(i, no)
        BY <1>3 DEF RecordConsent
    <2> HIDE DEF m
    <2>4. q \in Row /\ q.resv = "RELEASED" /\ q.reason = "INELIGIBLE"
        BY <2>1, <2>2, ReleaseFields
    <2> HIDE DEF q
    <2>5. /\ no \in Row /\ no.status = "CONSENT_DECLINED" /\ no.resv = "RELEASED"
          /\ no.reason = "INELIGIBLE"
        BY <2>4 DEF Row, Statuses, Protections
    <2>6. yes \in Row /\ yes.status = "DEVICE_CONNECTING" /\ yes.resv = "RESERVED"
        <3>1. m.consented + 1 \in Nat
            BY <2>1 DEF Row
        <3> QED
            BY <2>1, <2>2, <3>1 DEF Row, Statuses
    <2> HIDE DEF no, yes
    <2>7. Touches(r, yes) /\ Touches(r, no)
        BY <2>2, <2>5, <2>6 DEF Touches, Stage, Hold
    <2> QED
        BY <2>3, <2>5, <2>6, <2>7 DEF Kinds, Quiet
<1>4. CASE ConsumeCredit(i)
    <2>1. CASE StartAllowed(r)
        BY <1>4, <2>1 DEF ConsumeCredit, Kinds, Starts, Monitored
    <2>2. CASE ~StartAllowed(r)
        <3> DEFINE t == ConsumeRefused(r)
                   q == Release(r, "INELIGIBLE")
                   late == [q EXCEPT !.protection = "RELEASED"]
                   mark(p) == [r EXCEPT !.protection = p]
        <3>1. Update(i, t) /\ r.resv # "NONE"
            BY <1>4, <2>2 DEF ConsumeCredit
        <3>2. \/ t = r \/ \E p \in Protections : t = mark(p)
              \/ r.resv = "RESERVED" /\ r.status = "DEVICE_CONNECTING" /\ t = late
            <4>1. r.resv \in {"CONSUMED", "RELEASED", "RESERVED"}
                BY <1>1, <3>1 DEF Row
            <4> QED
                BY <4>1 DEF ConsumeRefused, Protections
        <3> HIDE DEF t
        <3>3. CASE t = r
            BY <1>1, <3>1, <3>3, SameEases, EaseQuiet
        <3>4. ASSUME NEW p \in Protections, t = mark(p)
              PROVE  Kinds
            <4>1. t \in Row /\ t.status = r.status /\ t.resv = r.resv /\ t.reason = r.reason
                BY <1>1, <3>4 DEF Row
            <4> QED
                BY <3>1, <4>1, SameEases, EaseQuiet
        <3>5. CASE r.resv = "RESERVED" /\ r.status = "DEVICE_CONNECTING" /\ t = late
            <4>1. /\ q \in Row /\ q.status = r.status /\ q.resv = "RELEASED"
                  /\ q.reason = "INELIGIBLE"
                BY <1>1, <3>5, ReleaseFields
            <4> HIDE DEF q
            <4>2. /\ t \in Row /\ t.status = "DEVICE_CONNECTING" /\ t.resv = "RELEASED"
                  /\ t.reason = "INELIGIBLE"
                BY <3>5, <4>1 DEF Row, Protections
            <4>3. Touches(r, t)
                BY <3>5, <4>2 DEF Touches, Stage, Hold
            <4> QED
                BY <3>1, <4>2, <4>3 DEF Kinds, Quiet
        <3> QED
            BY <3>2, <3>3, <3>4, <3>5
    <2> QED
        BY <2>1, <2>2
<1>5. CASE FinishMonitoring(i)
    <2> DEFINE t == [r EXCEPT !.status = "MEETING_COMPLETED"]
    <2>1. r.status = "MONITORING_ACTIVE" /\ Update(i, t)
        BY <1>1, <1>5 DEF FinishMonitoring, Update, With, Rows
    <2>2. t \in Row /\ t.status = "MEETING_COMPLETED" /\ t.resv = r.resv /\ t.reason = r.reason
        BY <1>1 DEF Row, Statuses
    <2> HIDE DEF t
    <2>3. Touches(r, t)
        BY <2>1, <2>2 DEF Touches, Stage, Hold
    <2> QED
        BY <2>1, <2>2, <2>3 DEF Kinds, Quiet
<1> QED
    BY <1>2, <1>3, <1>4, <1>5 DEF Candidate

\* Someone of the organization gives a credit back, or time passes.
LEMMA ManualKinds ==
    ASSUME SInv, NEW i \in Interviews, ReleaseCredit(i) \/ ReserveManually(i) \/ Tick(i)
    PROVE  Kinds
<1> DEFINE r == iv[i]
<1>1. /\ r \in Row /\ Settled(r) /\ iv \in Rows
      /\ r.status \in Started <=> r.resv = "CONSUMED"
    BY RowFacts
<1>2. CASE ReleaseCredit(i) /\ r.status \in Verifying
    <2> DEFINE e == Expire(r)
               t == [e EXCEPT !.reason = IF @ = "INELIGIBLE" THEN "MANUAL" ELSE @]
    <2>1. Update(i, t)
        BY <1>2 DEF ReleaseCredit
    <2>2. /\ e \in Row /\ e.status = "UNABLE_TO_VERIFY"
          /\ e.resv = IF r.resv = "RESERVED" THEN "RELEASED" ELSE r.resv
          /\ e.reason = IF r.resv = "RESERVED" THEN "INELIGIBLE" ELSE r.reason
        BY <1>1, ExpireFields
    <2> HIDE DEF e
    <2>3. /\ t \in Row /\ t.status = e.status /\ t.resv = e.resv
          /\ t.reason = IF e.reason = "INELIGIBLE" THEN "MANUAL" ELSE e.reason
        BY <2>2 DEF Row
    <2> HIDE DEF t
    <2>4. Stage(r) \in Early /\ r.resv # "CONSUMED" /\ Stage(t) = "open"
        BY <1>1, <1>2, <2>2, <2>3 DEF Stage, Early, Verifying, Started
    <2>5. r.resv \in {"NONE", "RESERVED", "RELEASED"}
        BY <1>1, <2>4 DEF Row
    <2>6. Touches(r, t)
        <3>1. t.status # "ABSENT" /\ Hold(r) # "spent"
            BY <2>2, <2>3, <2>5 DEF Hold
        <3>2. CASE r.resv = "NONE"
            <4>1. Hold(r) = "none" /\ Hold(t) = "none"
                BY <2>2, <2>3, <3>2 DEF Hold
            <4> QED
                BY <2>4, <3>1, <4>1 DEF Touches, Eases, Appears, Lapses
        <3>3. CASE r.resv = "RESERVED"
            <4>1. Hold(r) = "held" /\ Hold(t) = "given back"
                BY <2>2, <2>3, <3>3 DEF Hold
            <4> QED
                BY <2>4, <3>1, <4>1 DEF Touches, Lapses
        <3>4. CASE r.resv = "RELEASED"
            <4>1. \/ Hold(t) = Hold(r)
                  \/ Hold(r) = "returned" /\ Hold(t) = "given back"
                BY <2>2, <2>3, <3>4 DEF Hold
            <4> QED
                BY <2>4, <3>1, <4>1 DEF Touches, Eases, Appears, Lapses
        <3> QED
            BY <2>5, <3>2, <3>3, <3>4
    <2> QED
        BY <2>1, <2>3, <2>6 DEF Kinds, Quiet
<1>3. CASE ReleaseCredit(i) /\ r.status \notin Verifying
    <2> DEFINE q == Release(r, "MANUAL")
               t == [q EXCEPT !.protection = "RELEASED"]
    <2>1. r.status \in {"DETECTED", "PROTECTED"} /\ r.resv = "RESERVED" /\ Update(i, t)
        BY <1>3 DEF ReleaseCredit
    <2>2. q \in Row /\ q.status = r.status /\ q.resv = "RELEASED" /\ q.reason = "MANUAL"
        BY <1>1, <2>1, ReleaseFields
    <2> HIDE DEF q
    <2>3. t \in Row /\ t.status = r.status /\ t.resv = "RELEASED" /\ t.reason = "MANUAL"
        BY <2>2 DEF Row, Protections
    <2> HIDE DEF t
    <2>4. Touches(r, t)
        BY <2>1, <2>3 DEF Touches, Lapses, Stage, Hold, Early
    <2> QED
        BY <2>1, <2>3, <2>4 DEF Kinds, Quiet
<1>4. CASE ReserveManually(i)
    BY <1>4, ReserveWrites DEF ReserveManually, Kinds
<1>5. CASE Tick(i)
    <2> DEFINE p == NextPhase[r.phase]
               t == [r EXCEPT !.phase = p]
    <2>1. r.phase # "over" /\ Update(i, t)
        BY <1>1, <1>5 DEF Tick, Update, With, Rows
    <2>2. p \in Phases
        BY <1>1, <2>1 DEF Row, Phases, NextPhase
    <2> HIDE DEF p
    <2>3. t \in Row /\ t.status = r.status /\ t.resv = r.resv /\ t.reason = r.reason
        BY <1>1, <2>2 DEF Row
    <2> HIDE DEF t
    <2> QED
        BY <2>1, <2>3, SameEases, EaseQuiet
<1> QED
    BY <1>2, <1>3, <1>4, <1>5

\* Purchases, refunds, subscriptions, months and reconciliations.
LEMMA BillingKinds ==
    ASSUME SInv, Billing
    PROVE  Kinds
<1>1. iv \in Rows /\ Booked(iv, bank)
    BY BookedNow DEF SInv, IInv, TypeOK, Rows
<1> bank \in Bank
    BY DEF SInv, IInv, TypeOK
<1>2. ASSUME NEW b \in Bank, b = bank => Booked(iv, b), Commit(iv, b)
      PROVE  Writes
    <2>1. \A i \in Interviews : Drifts(iv[i], iv[i])
        BY SameEases, EaseIsDrift
    <2> QED
        BY <1>1, <1>2, <2>1 DEF Writes
<1>3. ASSUME NEW n \in {-1, 1}, ExtraCredits(n)
      PROVE  Kinds
    <2>1. bank.extra + n \in Int
        BY <1>1 DEF Bank
    <2>2. [bank EXCEPT !.extra = @ + n] \in Bank
        BY <1>1, <2>1 DEF Bank
    <2> QED
        BY <1>1, <1>2, <1>3, <2>2 DEF ExtraCredits, Kinds
<1>4. CASE SubscriptionChanges
    <2>1. [bank EXCEPT !.active = ~@] \in Bank
        BY DEF Bank
    <2> QED
        BY <1>1, <1>2, <1>4, <2>1 DEF SubscriptionChanges, Kinds
<1>5. ASSUME NEW byWebhook \in BOOLEAN, PeriodEnds(byWebhook)
      PROVE  Kinds
    <2> DEFINE b == [bank EXCEPT !.granted = FALSE, !.allowance = 0]
    <2>1. b \in Bank
        <3>1. ASSUME NEW n \in Int
              PROVE  [bank EXCEPT !.granted = FALSE, !.allowance = n] \in Bank
            BY DEF Bank
        <3>2. 0 \in Int
            OBVIOUS
        <3> QED
            BY <3>1, <3>2, Zenon
    <2>2. Commit(iv, b) \/ (iv' = iv /\ bank' = b)
        BY <1>5 DEF PeriodEnds
    <2>3. b = bank => Booked(iv, b)
        BY <1>1
    <2>4. CASE Commit(iv, b)
        BY <1>2, <2>1, <2>3, <2>4 DEF Kinds
    <2>5. CASE iv' = iv /\ bank' = b
        BY <2>5 DEF Kinds, NewMonth
    <2> QED
        BY <2>2, <2>4, <2>5
<1>6. CASE Reconcile
    BY <1>6 DEF Reconcile, Kinds, Reconciles
<1>7. CASE ReconcileExpired
    <2> DEFINE rows == Reconciled(iv, bank)
               mark(i) == [rows[i] EXCEPT !.protection = "RELEASED"]
    <2>1. rows \in GoodRows
        BY ReconciledGood DEF SInv, IInv, TypeOK, GoodRows
    <2>2. /\ bank' = EnsureAllowance(bank)
          /\ \A i \in Interviews : iv'[i] = mark(i) \/ iv'[i] = rows[i]
        BY <1>7 DEF ReconcileExpired
    <2> HIDE DEF rows
    <2>3. \A i \in Interviews : /\ mark(i).status = rows[i].status
                                /\ mark(i).resv = rows[i].resv
                                /\ mark(i).reason = rows[i].reason
        BY <2>1 DEF GoodRows, GoodRow, Row
    <2> HIDE DEF mark
    <2>4. \A i \in Interviews : /\ iv'[i].status = rows[i].status
                                /\ iv'[i].resv = rows[i].resv
                                /\ iv'[i].reason = rows[i].reason
        BY <2>2, <2>3
    <2> QED
        BY <2>2, <2>4 DEF Kinds, Reconciles, rows
<1> QED
    BY <1>3, <1>4, <1>5, <1>6, <1>7 DEF Billing

LEMMA NextKinds ==
    ASSUME SInv, Next
    PROVE  Kinds
BY CalendarKinds, OrchestratorKinds, CandidateKinds, ManualKinds, DeliveryKinds, BillingKinds
   DEF Next

-----------------------------------------------------------------------------
(* Every kind of step keeps the invariant and the contract *)

\* The credits of the period, as the contract counts them.
Credit(b) == Balance(b) + (IF b.granted THEN 0 ELSE Allowance)

\* Granting the allowance does not change them.
LEMMA EnsureKeepsCredit ==
    ASSUME NEW b \in Bank
    PROVE  /\ Credit(EnsureAllowance(b)) = Credit(b) /\ Credit(b) \in Int
           /\ EnsureAllowance(b) \in Bank
<1>1. EnsureAllowance(b) \in Bank
    BY EnsureAllowanceType
<1>2. Allowance \in Int /\ b.allowance \in Int /\ b.extra \in Int /\ b.granted \in BOOLEAN
    BY ConstantsAssumption DEF Bank
<1>3. CASE b.active /\ ~b.granted
    <2> DEFINE e == [b EXCEPT !.granted = TRUE, !.allowance = @ + Allowance]
    <2>1. EnsureAllowance(b) = e
        BY <1>3 DEF EnsureAllowance
    <2>2. e.granted = TRUE /\ e.allowance = b.allowance + Allowance /\ e.extra = b.extra
        BY DEF Bank
    <2> HIDE DEF e
    <2> QED
        BY <1>1, <1>2, <1>3, <2>1, <2>2 DEF Credit, Balance
<1>4. CASE ~(b.active /\ ~b.granted)
    BY <1>1, <1>2, <1>4 DEF EnsureAllowance, Credit, Balance
<1> QED
    BY <1>3, <1>4

\* A start costs exactly one.
LEMMA ChargeCredit ==
    ASSUME NEW b \in Bank
    PROVE  Charge(b) \in Bank /\ Credit(Charge(b)) = Credit(b) - 1 /\ Charge(b) # b
<1>1. Allowance \in Int /\ b.allowance \in Int /\ b.extra \in Int /\ b.granted \in BOOLEAN
    BY ConstantsAssumption DEF Bank
<1>2. CASE b.allowance > 0
    <2> DEFINE e == [b EXCEPT !.allowance = @ - 1]
    <2>1. Charge(b) = e
        BY <1>2 DEF Charge
    <2>2. /\ e \in Bank /\ e.granted = b.granted /\ e.allowance = b.allowance - 1
          /\ e.extra = b.extra
        BY <1>1 DEF Bank
    <2> HIDE DEF e
    <2> QED
        BY <1>1, <2>1, <2>2 DEF Credit, Balance
<1>3. CASE ~(b.allowance > 0)
    <2> DEFINE e == [b EXCEPT !.extra = @ - 1]
    <2>1. Charge(b) = e
        BY <1>3 DEF Charge
    <2>2. /\ e \in Bank /\ e.granted = b.granted /\ e.allowance = b.allowance
          /\ e.extra = b.extra - 1
        BY <1>1 DEF Bank
    <2> HIDE DEF e
    <2> QED
        BY <1>1, <2>1, <2>2 DEF Credit, Balance
<1> QED
    BY <1>2, <1>3

\* The started row, and what is committed for the others.
LEMMA StartRows ==
    ASSUME SInv, NEW i \in Interviews, StartAllowed(iv[i]),
           Commit(With(iv, i, Monitored(iv[i])), Charge(bank))
    PROVE  LET rows == With(iv, i, Monitored(iv[i]))
           IN  /\ rows \in Rows /\ AllSettled(rows)
               /\ \A j \in Interviews \ {i} : rows[j] = iv[j]
               /\ Stage(iv[i]) = "accepted" /\ Hold(iv[i]) = "held"
               /\ Stage(rows[i]) = "monitored" /\ Hold(rows[i]) = "spent"
               /\ iv' = Reconciled(rows, Charge(bank))
               /\ bank' = EnsureAllowance(Charge(bank))
               /\ \A j \in Interviews : Drifts(rows[j], iv'[j])
<1> DEFINE t == Monitored(iv[i])
           rows == With(iv, i, t)
<1>1. iv \in Rows /\ iv[i] \in Row /\ AllSettled(iv) /\ bank \in Bank
    BY RowFacts
<1>2. t \in Row /\ t.status = "MONITORING_ACTIVE" /\ t.resv = "CONSUMED"
    <2>1. "MONITORING_ACTIVE" \in Statuses /\ "CONSUMED" \in Protections
        BY DEF Statuses, Protections
    <2>2. t \in Row
        BY <1>1, <2>1 DEF Monitored, Row
    <2>3. t.status = "MONITORING_ACTIVE" /\ t.resv = "CONSUMED"
        BY <1>1 DEF Monitored, Row
    <2> QED
        BY <2>2, <2>3
<1> HIDE DEF t
<1>3. rows \in Rows /\ \A j \in Interviews : rows[j] = IF j = i THEN t ELSE iv[j]
    BY <1>1, <1>2, WithRows
<1> HIDE DEF rows
<1>4. Stage(t) = "monitored" /\ Hold(t) = "spent" /\ Settled(t)
    BY <1>2 DEF Stage, Hold, Settled
<1>5. AllSettled(rows)
    BY <1>1, <1>3, <1>4 DEF AllSettled
<1>6. Stage(iv[i]) = "accepted" /\ Hold(iv[i]) = "held"
    BY DEF StartAllowed, Stage, Hold
<1>7. Commit(rows, Charge(bank))
    BY DEF rows, t
<1>8. iv' = Reconciled(rows, Charge(bank)) /\ bank' = EnsureAllowance(Charge(bank))
    BY <1>1, <1>7, ChargeCredit DEF Commit
<1>9. \A j \in Interviews : Drifts(rows[j], iv'[j])
    BY <1>3, <1>5, <1>7, CommitDrifts
<1> QED
    BY <1>3, <1>4, <1>5, <1>6, <1>8, <1>9 DEF rows, t

\* A single touched row stays settled and does not gain a reservation.
LEMMA TouchSettled ==
    ASSUME NEW r \in Row, NEW t \in Row, Settled(r), Touches(r, t)
    PROVE  Settled(t) /\ (t.resv = "RESERVED" => r.resv = "RESERVED")
<1>1. CASE Eases(r, t)
    <2>1. t.resv = "RESERVED" => r.resv = "RESERVED"
        BY <1>1 DEF Eases, Still, Hold, Row
    <2> QED
        BY <1>1, <2>1, EaseIsDrift, DriftsSettled
<1>2. CASE ~Eases(r, t)
    <2>1. t.status # "ABSENT"
        BY <1>2 DEF Touches
    <2>2. t.resv = "RESERVED" => Hold(t) = "held"
        BY DEF Hold
    <2>3. Hold(r) = "held" => r.resv = "RESERVED"
        BY DEF Hold, Row
    <2>4. Hold(t) = "held" => /\ Hold(r) = "held" /\ Stage(t) \in Early
                              \/ Stage(r) = "monitored"
        BY <1>2 DEF Touches, Early
    <2>5. Stage(r) = "monitored" => Hold(r) # "held"
        BY <2>3 DEF Settled, Early
    <2>6. Stage(r) = "monitored" /\ Hold(t) = "held" => FALSE
        BY <1>2, <2>5 DEF Touches, Early, Lapses
    <2> QED
        BY <2>1, <2>2, <2>3, <2>4, <2>6 DEF Settled
<1> QED
    BY <1>1, <1>2

LEMMA KindsSettled ==
    ASSUME SInv, Kinds, iv' \in Rows
    PROVE  AllSettled(iv')
<1>1. iv \in Rows /\ AllSettled(iv) /\ bank \in Bank
    BY DEF SInv, IInv, TypeOK, Rows
<1>2. \A i \in Interviews : iv[i] \in Row /\ iv'[i] \in Row /\ Settled(iv[i])
    BY <1>1 DEF Rows, AllSettled
<1>3. CASE UNCHANGED <<iv, bank>> \/ NewMonth
    BY <1>1, <1>3 DEF NewMonth
<1>4. ASSUME NEW i \in Interviews, NEW t \in Row, Update(i, t), Touches(iv[i], t)
      PROVE  AllSettled(iv')
    <2>1. \A j \in Interviews : iv'[j] = IF j = i THEN t ELSE iv[j]
        BY <1>1, <1>4, WithRows DEF Update
    <2> QED
        BY <1>2, <1>4, <2>1, TouchSettled DEF AllSettled
<1>5. ASSUME NEW rows \in Rows, NEW b \in Bank, Commit(rows, b),
             \A i \in Interviews : Drifts(iv[i], rows[i])
      PROVE  AllSettled(iv')
    <2>1. AllSettled(rows)
        BY <1>2, <1>5, DriftsSettled DEF AllSettled, Rows
    <2>2. \A i \in Interviews : Drifts(rows[i], iv'[i]) /\ rows[i] \in Row /\ Settled(rows[i])
        BY <1>5, <2>1, CommitDrifts DEF AllSettled, Rows
    <2> QED
        BY <1>2, <2>2, DriftsSettled DEF AllSettled
<1>6. CASE Starts
    <2>1. PICK i \in Interviews :
             StartAllowed(iv[i]) /\ Commit(With(iv, i, Monitored(iv[i])), Charge(bank))
        BY <1>6 DEF Starts
    <2> DEFINE rows == With(iv, i, Monitored(iv[i]))
    <2>2. rows \in Rows /\ AllSettled(rows) /\ \A j \in Interviews : Drifts(rows[j], iv'[j])
        BY <2>1, StartRows
    <2> HIDE DEF rows
    <2> QED
        BY <1>2, <2>2, DriftsSettled DEF AllSettled, Rows
<1>7. CASE Reconciles
    <2> DEFINE t == Reconciled(iv, bank)
    <2>1. \A i \in Interviews : Drifts(iv[i], t[i])
        BY <1>1, ReconciledDrifts
    <2>2. \A i \in Interviews : /\ iv'[i].status = t[i].status /\ iv'[i].resv = t[i].resv
                                /\ iv'[i].reason = t[i].reason
        BY <1>7 DEF Reconciles
    <2> HIDE DEF t
    <2>3. \A i \in Interviews : Drifts(iv[i], iv'[i])
        BY <2>1, <2>2, SameEases, EaseIsDrift, DriftsTrans
    <2> QED
        BY <1>2, <2>3, DriftsSettled DEF AllSettled
<1> QED
    BY <1>3, <1>4, <1>5, <1>6, <1>7 DEF Kinds, Quiet, Writes

LEMMA KindsBooked ==
    ASSUME SInv, Kinds
    PROVE  NoOverbooking'
<1>1. iv \in Rows /\ AllSettled(iv) /\ bank \in Bank /\ Booked(iv, bank)
    BY BookedNow DEF SInv, IInv, TypeOK, Rows
<1>2. \A i \in Interviews : iv[i] \in Row /\ Settled(iv[i])
    BY <1>1 DEF Rows, AllSettled
<1>3. Booked(iv', bank')
    <2>1. CASE UNCHANGED <<iv, bank>>
        BY <1>1, <2>1
    <2>2. CASE NewMonth
        <3> DEFINE b == [bank EXCEPT !.granted = FALSE, !.allowance = 0]
        <3>1. bank' = b /\ iv' = iv
            BY <2>2 DEF NewMonth
        <3>2. b.granted = FALSE /\ b.active = bank.active
            BY <1>1 DEF Bank
        <3> HIDE DEF b
        <3> QED
            BY <1>1, <3>1, <3>2 DEF Booked
    <2>3. ASSUME NEW i \in Interviews, NEW t \in Row, Update(i, t), Touches(iv[i], t)
          PROVE  Booked(iv', bank')
        <3>1. \A j \in Interviews : iv'[j] = IF j = i THEN t ELSE iv[j]
            BY <1>1, <2>3, WithRows DEF Update
        <3>2. t.resv = "RESERVED" => iv[i].resv = "RESERVED"
            BY <1>2, <2>3, TouchSettled
        <3>3. Reserved(iv') \subseteq Reserved(iv) /\ bank' = bank
            BY <2>3, <3>1, <3>2 DEF Reserved, Update
        <3> QED
            BY <1>1, <3>3, FewerBooked
    <2>4. ASSUME NEW rows \in Rows, NEW b \in Bank, Commit(rows, b), b = bank => Booked(rows, b),
                 \A i \in Interviews : Drifts(iv[i], rows[i])
          PROVE  Booked(iv', bank')
        <3>1. AllSettled(rows)
            BY <1>2, <2>4, DriftsSettled DEF AllSettled, Rows
        <3>2. Booked(Reconciled(rows, b), EnsureAllowance(b))
            BY <3>1, ReconciledBooked
        <3> QED
            BY <2>4, <3>2 DEF Commit
    <2>5. CASE Starts
        <3>1. PICK i \in Interviews :
                 StartAllowed(iv[i]) /\ Commit(With(iv, i, Monitored(iv[i])), Charge(bank))
            BY <2>5 DEF Starts
        <3> DEFINE rows == With(iv, i, Monitored(iv[i]))
        <3>2. /\ rows \in Rows /\ AllSettled(rows)
              /\ iv' = Reconciled(rows, Charge(bank)) /\ bank' = EnsureAllowance(Charge(bank))
            BY <3>1, StartRows
        <3> HIDE DEF rows
        <3>3. Charge(bank) \in Bank
            BY <1>1, ChargeCredit
        <3> QED
            BY <3>2, <3>3, ReconciledBooked
    <2>6. CASE Reconciles
        <3>1. Booked(Reconciled(iv, bank), EnsureAllowance(bank))
            BY <1>1, ReconciledBooked
        <3>2. bank' = EnsureAllowance(bank) /\ Reserved(iv') = Reserved(Reconciled(iv, bank))
            BY <2>6 DEF Reconciles, Reserved
        <3> QED
            BY <3>1, <3>2 DEF Booked
    <2> QED
        BY <2>1, <2>2, <2>3, <2>4, <2>5, <2>6 DEF Kinds, Quiet, Writes
<1> QED
    BY <1>3 DEF Booked, NoOverbooking

\* Every step keeps the invariant.
LEMMA StepSettled == SInv /\ [Next]_vars => SInv'
<1> SUFFICES ASSUME SInv, [Next]_vars PROVE SInv'
    OBVIOUS
<1>1. IInv'
    BY StepGood DEF SInv
<1>2. CASE Next
    <2>1. iv' \in Rows
        BY <1>1 DEF IInv, TypeOK, Rows
    <2> QED
        BY <1>1, <1>2, <2>1, NextKinds, KindsSettled, KindsBooked DEF SInv, AllSettled
<1>3. CASE UNCHANGED vars
    BY <1>1, <1>3 DEF vars, SInv, AllSettled, NoOverbooking, Reserved, Balance
<1> QED
    BY <1>2, <1>3

LEMMA InitSettled == Init => SInv
<1> SUFFICES ASSUME Init PROVE SInv
    OBVIOUS
<1>1. IInv
    BY InitGood
<1>2. \A i \in Interviews : iv[i] = NoRow
    BY DEF Init
<1>3. AllSettled(iv)
    BY <1>2 DEF AllSettled, Settled, NoRow
<1>4. Reserved(iv) = {}
    BY <1>2 DEF Reserved, NoRow
<1>5. NoOverbooking
    BY <1>4 DEF NoOverbooking
<1> QED
    BY <1>1, <1>3, <1>5 DEF SInv

THEOREM SettledInvariance == Spec => []SInv
BY InitSettled, StepSettled, PTL DEF Spec

-----------------------------------------------------------------------------
(* The contract with candidates and customers *)

\* The moves of ConsentContract, between the stage and credit (h, k) of one row.
Behind(r, t) ==
    \/ Still(r, t)
    \/ /\ Lapses(r, t)
       /\ \/ Hold(t) = Hold(r)
          \/ Hold(r) \in {"none", "held", "returned"} /\ Hold(t) \in {"held", "returned"}
          \/ Hold(r) \in {"held", "returned"} /\ Hold(t) = "given back"
    \/ /\ Stage(r) = "accepted" /\ Stage(t) = "accepted"
       /\ Hold(r) = "held" /\ Hold(t) = "returned"

\* What that says of the mapped variables.
LEMMA MapsBackground ==
    ASSUME NEW i \in Interviews, Behind(iv[i], iv'[i])
    PROVE  Contract!Background(i)
BY DEF Behind, Still, Lapses, Early, Contract!Background, Contract!Untouched, Contract!Lapse,
       Contract!LateStart, Contract!CreditMoves

LEMMA DriftsBehind ==
    ASSUME NEW r, NEW t, Drifts(r, t)
    PROVE  Behind(r, t)
BY DEF Drifts, Behind, Still

LEMMA MapsTypes ==
    ASSUME iv' \in Rows, bank' \in Bank
    PROVE  /\ [i \in Interviews |-> Stage(iv'[i])] \in [Interviews -> Contract!Stages]
           /\ [i \in Interviews |-> Hold(iv'[i])] \in [Interviews -> Contract!Holdings]
           /\ Credit(bank') \in Int
<1>1. ASSUME NEW i \in Interviews
      PROVE  Stage(iv'[i]) \in Contract!Stages /\ Hold(iv'[i]) \in Contract!Holdings
    <2>1. iv'[i] \in Row
        BY DEF Rows
    <2> QED
        BY <2>1 DEF Stage, Hold, Row, Contract!Stages, Contract!Holdings
<1> QED
    BY <1>1, EnsureKeepsCredit

\* A bookkeeping step.
LEMMA MapsManage ==
    ASSUME iv' \in Rows, bank' \in Bank,
           \A i \in Interviews : Behind(iv[i], iv'[i])
    PROVE  Contract!Next
<1>1. \A i \in Interviews : Contract!Background(i)
    BY MapsBackground
<1>2. Contract!Manage
    BY <1>1, MapsTypes DEF Contract!Manage, Credit
<1> QED
    BY <1>2, MapsTypes DEF Contract!Next

\* A single row changes, the ledger does not.
LEMMA MapsTouch ==
    ASSUME SInv, iv' \in Rows, bank' \in Bank,
           NEW i \in Interviews, NEW t \in Row, Update(i, t), Touches(iv[i], t)
    PROVE  Contract!Next
<1>1. iv \in Rows /\ bank' = bank
    BY DEF SInv, IInv, TypeOK, Rows, Update
<1>2. \A j \in Interviews : iv'[j] = IF j = i THEN t ELSE iv[j]
    BY <1>1, WithRows DEF Update
<1>3. CASE Behind(iv[i], t)
    <2>1. \A j \in Interviews : Behind(iv[j], iv'[j])
        BY <1>2, <1>3 DEF Behind, Still
    <2> QED
        BY <2>1, MapsManage
<1>4. CASE ~Behind(iv[i], t)
    <2>1. \/ /\ Hold(iv[i]) = "held" /\ Hold(t) = "held"
             /\ \/ Stage(iv[i]) = "open" /\ Stage(t) = "invited"
                \/ Stage(iv[i]) = "invited" /\ Stage(t) = "accepted"
          \/ /\ Stage(iv[i]) = "invited" /\ Stage(t) = "declined"
             /\ Hold(iv[i]) = "held" /\ Hold(t) = "returned"
          \/ /\ Stage(iv[i]) = "monitored" /\ Stage(t) = "finished"
             /\ Hold(t) = Hold(iv[i])
        BY <1>4, EaseIsDrift, DriftsBehind DEF Touches, Behind
    <2>2. iv'[i] = t
        BY <1>2
    <2>3. Contract!Offer(i) \/ Contract!Accept(i) \/ Contract!Decline(i) \/ Contract!Finish(i)
        BY <2>1, <2>2 DEF Contract!Offer, Contract!Accept, Contract!Decline, Contract!Finish,
           Contract!Moves
    <2>4. Contract!Alone(i)
        BY <1>1, <1>2 DEF Contract!Alone, Contract!Untouched
    <2> QED
        BY <2>3, <2>4, MapsTypes DEF Contract!Next, Credit
<1> QED
    BY <1>3, <1>4

LEMMA MapsStart ==
    ASSUME SInv, iv' \in Rows, bank' \in Bank, Starts
    PROVE  Contract!Next
<1>1. PICK i \in Interviews :
         StartAllowed(iv[i]) /\ Commit(With(iv, i, Monitored(iv[i])), Charge(bank))
    BY DEF Starts
<1> DEFINE rows == With(iv, i, Monitored(iv[i]))
<1>2. /\ \A j \in Interviews \ {i} : rows[j] = iv[j]
      /\ Stage(iv[i]) = "accepted" /\ Hold(iv[i]) = "held"
      /\ Stage(rows[i]) = "monitored" /\ Hold(rows[i]) = "spent"
      /\ bank' = EnsureAllowance(Charge(bank))
      /\ \A j \in Interviews : Drifts(rows[j], iv'[j])
    BY <1>1, StartRows
<1> HIDE DEF rows
<1>3. Stage(iv'[i]) = "monitored" /\ Hold(iv'[i]) = "spent"
    BY <1>2 DEF Drifts, Still, Lapses, Early
<1>4. \A j \in Interviews \ {i} : Contract!Background(j)
    BY <1>2, DriftsBehind, MapsBackground
<1>5. Credit(bank') = Credit(bank) - 1
    <2>1. bank \in Bank
        BY DEF SInv, IInv, TypeOK
    <2> QED
        BY <1>2, <2>1, ChargeCredit, EnsureKeepsCredit
<1>6. Contract!Start(i)
    BY <1>2, <1>3, <1>4, <1>5 DEF Contract!Start, Contract!Moves, Credit
<1> QED
    BY <1>6, MapsTypes DEF Contract!Next, Credit

\* Every step of the code is a step of the contract, or changes nothing of it.
LEMMA StepKeepsContract ==
    ASSUME SInv, SInv', [Next]_vars
    PROVE  [Contract!Next]_(Contract!vars)
<1>1. iv \in Rows /\ AllSettled(iv) /\ bank \in Bank /\ iv' \in Rows /\ bank' \in Bank
    BY DEF SInv, IInv, TypeOK, Rows
<1>2. \A i \in Interviews : iv[i] \in Row /\ Settled(iv[i])
    BY <1>1 DEF Rows, AllSettled
<1>3. CASE UNCHANGED vars
    BY <1>3 DEF vars, Contract!vars
<1>4. CASE Next
    <2>1. CASE UNCHANGED <<iv, bank>> \/ NewMonth
        <3>1. iv' = iv
            BY <2>1 DEF NewMonth
        <3> QED
            BY <1>1, <3>1, MapsManage DEF Behind, Still
    <2>2. ASSUME NEW i \in Interviews, NEW t \in Row, Update(i, t), Touches(iv[i], t)
          PROVE  Contract!Next
        BY <1>1, <2>2, MapsTouch
    <2>3. ASSUME NEW rows \in Rows, NEW b \in Bank, Commit(rows, b),
                 \A i \in Interviews : Drifts(iv[i], rows[i])
          PROVE  Contract!Next
        <3>1. AllSettled(rows)
            BY <1>2, <2>3, DriftsSettled DEF AllSettled, Rows
        <3>2. \A i \in Interviews : Drifts(rows[i], iv'[i])
            BY <2>3, <3>1, CommitDrifts
        <3> QED
            BY <1>1, <2>3, <3>2, DriftsTrans, DriftsBehind, MapsManage
    <2>4. CASE Starts
        BY <1>1, <2>4, MapsStart
    <2>5. CASE Reconciles
        <3> DEFINE t == Reconciled(iv, bank)
        <3>1. \A i \in Interviews : Drifts(iv[i], t[i])
            BY <1>1, ReconciledDrifts
        <3>2. \A i \in Interviews : /\ iv'[i].status = t[i].status /\ iv'[i].resv = t[i].resv
                                    /\ iv'[i].reason = t[i].reason
            BY <2>5 DEF Reconciles
        <3> HIDE DEF t
        <3>3. \A i \in Interviews : Drifts(iv[i], iv'[i])
            BY <3>1, <3>2, SameEases, EaseIsDrift, DriftsTrans
        <3> QED
            BY <1>1, <3>3, DriftsBehind, MapsManage
    <2>6. Kinds
        BY <1>4, NextKinds
    <2> QED
        BY <2>1, <2>2, <2>3, <2>4, <2>5, <2>6 DEF Kinds, Quiet, Writes
<1> QED
    BY <1>3, <1>4

LEMMA InitKeepsContract == Init => Contract!Init
<1> SUFFICES ASSUME Init PROVE Contract!Init
    OBVIOUS
<1>1. \A i \in Interviews : Stage(iv[i]) = "open" /\ Hold(iv[i]) = "none"
    BY DEF Init, NoRow, Stage, Hold
<1>2. Credit(bank) \in Int
    <2>1. IInv
        BY InitGood
    <2> QED
        BY <2>1, EnsureKeepsCredit DEF IInv, TypeOK
<1> QED
    BY <1>1, <1>2 DEF Contract!Init, Credit

\* The SQL implements the contract with candidates and customers, whatever
\* calendars, queues, users and billing interleave: an invitation, an acceptance
\* and a start each find the credit held, a start costs exactly one, and what is
\* refused, started or given back by hand stays so.
THEOREM ContractIsKept == Spec => KeepsContract
<1>1. SInv /\ SInv' /\ [Next]_vars => [Contract!Next]_(Contract!vars)
    BY StepKeepsContract
<1> QED
    BY InitKeepsContract, SettledInvariance, <1>1, PTL DEF Spec, KeepsContract, Contract!Spec

\* In the contract's terms: exactly the interviews whose monitoring has started have
\* cost a credit (authenti8_consume_credit and the releases, which leave spent ones).
THEOREM MonitoredIsPaid == Spec => []Contract!PaidIffMonitored
<1>1. ASSUME IInv, NEW i \in Interviews
      PROVE  Hold(iv[i]) = "spent" <=> Stage(iv[i]) \in {"monitored", "finished"}
    <2>1. iv[i] \in Row /\ Charged(iv[i])
        BY <1>1 DEF IInv, GoodRow, Coherent
    <2>2. Hold(iv[i]) = "spent" <=> iv[i].resv = "CONSUMED"
        BY <2>1 DEF Hold, Row
    <2>3. Stage(iv[i]) \in {"monitored", "finished"} <=> iv[i].status \in Started
        BY <2>1 DEF Stage, Row, Started
    <2> QED
        BY <2>1, <2>2, <2>3 DEF Charged
<1>2. IInv => Contract!PaidIffMonitored
    BY <1>1 DEF Contract!PaidIffMonitored
<1> QED
    BY <1>2, Invariance, PTL

\* No more credits are promised than the organization has
\* (authenti8_reserve_credit, authenti8_reconcile_entitlement).
THEOREM NothingIsOverbooked == Spec => []NoOverbooking
<1>1. SInv => NoOverbooking
    BY DEF SInv
<1> QED
    BY <1>1, SettledInvariance, PTL

\* A credit given back by hand stays with the organization: the contract knows no
\* move from it.
KeepsGivenBack ==
    \A i \in Interviews : ManuallyReleased(iv[i]) => ManuallyReleased(iv'[i])

LEMMA StepKeepsGivenBack ==
    ASSUME SInv, SInv', [Next]_vars
    PROVE  [KeepsGivenBack]_vars
<1>1. ASSUME NEW i \in Interviews
      PROVE  /\ ManuallyReleased(iv[i]) <=> Hold(iv[i]) = "given back"
             /\ ManuallyReleased(iv'[i]) <=> Hold(iv'[i]) = "given back"
    <2>1. iv[i] \in Row /\ iv'[i] \in Row
        BY DEF SInv, IInv, TypeOK
    <2> QED
        BY <2>1 DEF ManuallyReleased, Hold, Row
<1>2. CASE Contract!Next
    <2> SUFFICES ASSUME NEW i \in Interviews, Hold(iv[i]) = "given back"
                 PROVE  Hold(iv'[i]) = "given back"
        BY <1>1 DEF KeepsGivenBack
    <2>1. Contract!Background(i) => Hold(iv'[i]) = "given back"
        BY DEF Contract!Background, Contract!Untouched, Contract!Lapse, Contract!LateStart,
               Contract!CreditMoves
    <2>2. CASE \E j \in Interviews :
                 (Contract!Offer(j) \/ Contract!Accept(j) \/ Contract!Decline(j)
                  \/ Contract!Finish(j)) /\ Contract!Alone(j)
        BY <2>2 DEF Contract!Offer, Contract!Accept, Contract!Decline, Contract!Finish,
           Contract!Moves, Contract!Alone, Contract!Untouched
    <2>3. CASE \E j \in Interviews : Contract!Start(j)
        BY <2>1, <2>3 DEF Contract!Start, Contract!Moves
    <2>4. CASE Contract!Manage
        BY <2>1, <2>4 DEF Contract!Manage
    <2> QED
        BY <1>2, <2>2, <2>3, <2>4 DEF Contract!Next
<1>3. CASE UNCHANGED Contract!vars
    BY <1>1, <1>3 DEF Contract!vars, KeepsGivenBack
<1> QED
    BY <1>2, <1>3, StepKeepsContract

\* A credit someone gave back by hand is never reserved again for its interview.
THEOREM GivenBackStays == Spec => ManualReleaseIsFinal
<1>1. SInv /\ SInv' /\ [Next]_vars => [KeepsGivenBack]_vars
    BY StepKeepsGivenBack
<1> QED
    BY SettledInvariance, <1>1, PTL DEF Spec, ManualReleaseIsFinal, KeepsGivenBack
=============================================================================
