-------------------------- MODULE OperationsProofs --------------------------
(***************************************************************************)
(* The queues behind the API, for any mails, deliveries at work, kinds of    *)
(* mail and bounds on attempts and recoveries: how often a mail can reach    *)
(* its recipient, and that the e-mail queues keep what MailPromise says.     *)
(***************************************************************************)
EXTENDS Operations, FiniteSetTheorems, TLAPS

-----------------------------------------------------------------------------
(* The inductive invariant *)

\* A mail not handed over was never claimed; only reminders are cancelled; and what
\* waits for a claim has one left.
RowOK(m) ==
    /\ outbox[m].status = "none" => outbox[m].attempts = 0
    /\ outbox[m].status = "CANCELLED" => outbox[m].kind = "reminder"
    /\ outbox[m].kind # "reminder" =>
          /\ outbox[m].attempts <= MaxAttempts
          /\ outbox[m].status = "PENDING" => outbox[m].attempts < MaxAttempts

\* A delivery is about a mail that was handed over, and completes what it has sent.
HeldOK(d) ==
    delivery[d] # Idle =>
        /\ outbox[delivery[d].mail].status # "none"
        /\ At(d, "complete") => transmitted[delivery[d].mail] > 0

\* The deliveries that have yet to send m, and how often m may have been claimed.
Unsent(m) == {d \in Deliveries : delivery[d].step \in {"validate", "send"} /\ delivery[d].mail = m}
Allowance(m) == outbox[m].attempts + MaxAttempts * Chances(m)

\* Each claim allows one transmission, of which the deliveries at work still
\* hold theirs.
WithinAllowance(m) ==
    outbox[m].kind # "reminder" => transmitted[m] + Cardinality(Unsent(m)) <= Allowance(m)

MailInv ==
    /\ TypeOK
    /\ \A m \in Mails : RowOK(m) /\ WithinAllowance(m)
    /\ \A d \in Deliveries : HeldOK(d)


-----------------------------------------------------------------------------
(* Rows and entries *)

LEMMA ClosedRow ==
  ASSUME NEW row \in Rows, NEW s \in {"PENDING", "SENT", "FAILED", "CANCELLED"}
  PROVE  /\ Closed(row, s) \in Rows
         /\ Closed(row, s).kind = row.kind /\ Closed(row, s).attempts = row.attempts
         /\ Closed(row, s).status = s
  BY DEF Closed, Rows

LEMMA ClaimedRow ==
  ASSUME NEW row \in Rows
  PROVE  [row EXCEPT !.status = "PROCESSING", !.leased = TRUE, !.attempts = @ + 1]
            = [kind |-> row.kind, status |-> "PROCESSING", attempts |-> row.attempts + 1, leased |-> TRUE]
  <1> DEFINE at == [row EXCEPT !.status = "PROCESSING"]
             under == [at EXCEPT !.leased = TRUE]
  <1>1. at \in Rows /\ at.kind = row.kind /\ at.status = "PROCESSING" /\ at.attempts = row.attempts
    BY DEF Rows
  <1>2. [row EXCEPT !.status = "PROCESSING", !.leased = TRUE, !.attempts = @ + 1]
          = [under EXCEPT !.attempts = row.attempts + 1]
    BY DEF Rows
  <1> HIDE DEF at
  <1>3. under \in Rows /\ under.kind = row.kind /\ under.status = "PROCESSING" /\ under.leased = TRUE
    BY <1>1 DEF Rows
  <1> HIDE DEF under
  <1>4. [under EXCEPT !.attempts = row.attempts + 1]
          = [kind |-> under.kind, status |-> under.status, attempts |-> row.attempts + 1, leased |-> under.leased]
    BY <1>3 DEF Rows
  <1> QED BY <1>2, <1>3, <1>4

LEMMA EntriesStay ==
  ASSUME NEW e \in Entries
  PROVE  /\ Captured(e) \in Entries /\ Captured(e).chances = e.chances
         /\ Resolved(e) \in Entries /\ Resolved(e).chances = e.chances
         /\ e.status = "DEAD" => Captured(e) = e /\ Resolved(e) = e
         /\ Closes(e) \in Entries /\ Closes(e).chances = e.chances
         /\ Buries(e) \in Entries /\ Buries(e).chances = e.chances
  BY DEF Captured, Resolved, Closes, Buries, Entries

LEMMA RetriedEntry ==
  ASSUME NEW e \in Entries, ~Hopeless(e)
  PROVE  /\ Retries(e) \in Entries /\ Retries(e).chances = e.chances + 1
         /\ Retries(e).status = "RETRYING"
  <1>1. e.chances + 1 \in 0..MaxRecoveries
    BY RecoveriesAssumption DEF Entries, Hopeless
  <1>2. Retries(e) = [status |-> "RETRYING", chances |-> e.chances + 1]
    <2>1. e = [status |-> e.status, chances |-> e.chances]
      BY DEF Entries
    <2> DEFINE seen == [e EXCEPT !.status = "RETRYING"]
    <2>2. seen = [status |-> "RETRYING", chances |-> e.chances]
      BY <2>1
    <2>3. Retries(e) = [seen EXCEPT !.chances = e.chances + 1]
      BY <2>1 DEF Retries
    <2> QED BY <2>2, <2>3
  <1> QED BY <1>1, <1>2 DEF Entries

LEMMA UnfailedEntry == Unfailed \in Entries
  BY RecoveriesAssumption DEF Unfailed, Entries

\* The triggers neither give nor take chances, and leave a dead entry alone and all of
\* them where no row changes.
LEMMA ObservedEntries ==
  ASSUME TypeOK, Observed
  PROVE  /\ failure' \in [Notifications -> Entries]
         /\ \A n \in Notifications :
               /\ failure'[n].chances = failure[n].chances
               /\ failure[n].status = "DEAD" => failure'[n] = failure[n]
         /\ UNCHANGED outbox => UNCHANGED failure
  <1> DEFINE Becomes(n, states) ==
               \E m \in Copies(n) : outbox'[m] # outbox[m] /\ outbox'[m].status \in states
             After(n) == CASE Becomes(n, {"SENT"}) -> Resolved(failure[n])
               [] ~Becomes(n, {"SENT"}) /\ Becomes(n, {"PENDING", "FAILED"}) -> Captured(failure[n])
               [] OTHER -> failure[n]
  <1>1. failure' = [n \in Notifications |-> After(n)]
    BY DEF Observed
  <1>2. \A n : After(n) \in {failure[n], Resolved(failure[n]), Captured(failure[n])}
    OBVIOUS
  <1>3. UNCHANGED outbox => \A n : After(n) = failure[n]
    OBVIOUS
  <1> HIDE DEF After
  <1>4. failure = [n \in Notifications |-> failure[n]] /\ \A n \in Notifications : failure[n] \in Entries
    BY DEF TypeOK
  <1>5. ASSUME NEW n \in Notifications
        PROVE  /\ After(n) \in Entries /\ After(n).chances = failure[n].chances
               /\ failure[n].status = "DEAD" => After(n) = failure[n]
    <2> DEFINE e == failure[n]
    <2>1. e \in Entries
      BY <1>4
    <2>2. After(n) \in {e, Resolved(e), Captured(e)}
      BY <1>2
    <2> HIDE DEF e
    <2>3. /\ Captured(e) \in Entries /\ Captured(e).chances = e.chances
          /\ Resolved(e) \in Entries /\ Resolved(e).chances = e.chances
          /\ e.status = "DEAD" => Captured(e) = e /\ Resolved(e) = e
      BY <2>1, EntriesStay
    <2>4. After(n) \in Entries /\ After(n).chances = e.chances
      BY <2>1, <2>2, <2>3
    <2>5. e.status = "DEAD" => After(n) = e
      BY <2>2, <2>3
    <2> QED BY <2>4, <2>5 DEF e
  <1>6. UNCHANGED outbox => UNCHANGED failure
    BY <1>1, <1>3, <1>4
  <1> QED BY <1>1, <1>5, <1>6

-----------------------------------------------------------------------------
(* Numbers *)

LEMMA AllowanceOfRow ==
  ASSUME NEW row \in Rows, NEW c \in Nat
  PROVE  row.attempts \in Nat /\ row.attempts + MaxAttempts * c \in Nat
  <1>1. row.attempts \in Nat
    BY DEF Rows
  <1>2. MaxAttempts \in Nat
    BY AttemptsAssumption
  <1>3. MaxAttempts * c \in Nat
    BY <1>2
  <1> QED BY <1>1, <1>3

LEMMA AllowanceNat ==
  ASSUME TypeOK, NEW m \in Mails
  PROVE  /\ Allowance(m) \in Nat /\ transmitted[m] \in Nat
         /\ outbox[m] \in Rows /\ outbox[m].attempts \in Nat
         /\ About[m] \in Notifications /\ failure[About[m]] \in Entries
         /\ Chances(m) \in Nat /\ Chances(m) <= MaxRecoveries
  <1>1. outbox[m] \in Rows /\ transmitted[m] \in Nat
    BY DEF TypeOK
  <1>2. About[m] \in Notifications /\ failure[About[m]] \in Entries
    BY DEF TypeOK, Notifications
  <1>3. Chances(m) \in Nat /\ Chances(m) <= MaxRecoveries
    BY <1>2, RecoveriesAssumption DEF Chances, Entries
  <1> QED BY <1>1, <1>2, <1>3, AllowanceOfRow DEF Allowance

\* A mail has the chances that it had, as long as none is given to an entry.
LEMMA SameChances ==
  ASSUME NEW m \in Mails, outbox'[m].kind = outbox[m].kind,
         \A n \in Notifications : failure'[n].chances = failure[n].chances
  PROVE  Chances(m)' = Chances(m)
  BY DEF Chances, Notifications

LEMMA UnsentFinite ==
  ASSUME NEW m \in Mails
  PROVE  IsFiniteSet(Unsent(m)) /\ Cardinality(Unsent(m)) \in Nat
  BY DeliveriesAssumption, FS_Subset, FS_CardinalityType DEF Unsent

\* One more chance is worth all the attempts.
LEMMA ChanceIsWorth ==
  ASSUME NEW n \in Nat
  PROVE  MaxAttempts * (n + 1) = MaxAttempts * n + MaxAttempts
  <1>1. MaxAttempts \in Nat
    BY AttemptsAssumption
  <1> QED BY <1>1

\* What a delivery may do but claim or transmit: leave, or go on with what it holds.
Proceeds(d) ==
    \/ delivery'[d] = delivery[d] \/ delivery'[d] = Idle
    \/ /\ delivery[d] # Idle /\ delivery'[d] # Idle
       /\ delivery'[d].mail = delivery[d].mail
       /\ delivery'[d].step = "fail" \/ (At(d, "validate") /\ delivery'[d].step = "send")

LEMMA UnsentShrinks ==
  ASSUME \A d \in Deliveries : Proceeds(d), NEW m \in Mails
  PROVE  Unsent(m)' \subseteq Unsent(m) /\ Cardinality(Unsent(m)') <= Cardinality(Unsent(m))
  <1>1. Unsent(m)' \subseteq Unsent(m)
    <2> SUFFICES ASSUME NEW d \in Deliveries, delivery'[d].step \in {"validate", "send"},
                        delivery'[d].mail = m
                 PROVE  delivery[d].step \in {"validate", "send"} /\ delivery[d].mail = m
      BY DEF Unsent
    <2>1. Proceeds(d) /\ Idle.step = "idle"
      BY DEF Idle
    <2> QED BY <2>1 DEF Proceeds, At
  <1> QED BY <1>1, UnsentFinite, FS_Subset

-----------------------------------------------------------------------------
(* The steps preserve the invariant *)

\* A step that neither claims nor transmits preserves the invariant, given what
\* becomes of the rows and entries.
LEMMA QuietStep ==
  ASSUME MailInv,
         outbox' \in [Mails -> Rows], delivery' \in [Deliveries -> Held \union {Idle}],
         wanted' \subseteq Mails, UNCHANGED transmitted, failure' \in [Notifications -> Entries],
         \A m \in Mails : /\ outbox'[m].kind = outbox[m].kind
                          /\ outbox[m].status # "none" => outbox'[m].status # "none"
                          /\ RowOK(m)' /\ Allowance(m)' >= Allowance(m),
         \A d \in Deliveries : Proceeds(d)
  PROVE  MailInv'
  <1>1. TypeOK'
    BY DEF MailInv, TypeOK
  <1>2. ASSUME NEW m \in Mails PROVE WithinAllowance(m)'
    <2>1. /\ Allowance(m) \in Nat /\ Allowance(m)' \in Nat /\ transmitted[m] \in Nat
          /\ Cardinality(Unsent(m)) \in Nat /\ Cardinality(Unsent(m)') \in Nat
      <3>1. Allowance(m) \in Nat /\ transmitted[m] \in Nat
        BY AllowanceNat DEF MailInv
      <3>2. Allowance(m)' \in Nat
        <4>1. failure'[About[m]] \in Entries
          BY DEF Notifications
        <4>2. Chances(m)' \in Nat
          BY <4>1, RecoveriesAssumption DEF Chances, Entries
        <4> QED BY <4>2, AllowanceOfRow DEF Allowance
      <3>3. IsFiniteSet(Unsent(m)) /\ Cardinality(Unsent(m)) \in Nat
        BY UnsentFinite
      <3>4. IsFiniteSet(Unsent(m)')
        BY <3>3, UnsentShrinks, FS_Subset
      <3> QED BY <3>1, <3>2, <3>3, <3>4, FS_CardinalityType
    <2>2. Cardinality(Unsent(m)') <= Cardinality(Unsent(m))
      BY UnsentShrinks
    <2>3. WithinAllowance(m) /\ transmitted'[m] = transmitted[m] /\ outbox'[m].kind = outbox[m].kind
          /\ Allowance(m)' >= Allowance(m)
      BY DEF MailInv
    <2> HIDE DEF Allowance, Unsent
    <2> QED BY <2>1, <2>2, <2>3 DEF WithinAllowance
  <1>3. ASSUME NEW d \in Deliveries PROVE HeldOK(d)'
    <2>1. HeldOK(d) /\ Proceeds(d)
      BY DEF MailInv
    <2>2. delivery[d] # Idle => delivery[d].mail \in Mails
      BY DEF MailInv, TypeOK, Held
    <2> QED BY <2>1, <2>2 DEF HeldOK, Proceeds, At
  <1> QED BY <1>1, <1>2, <1>3 DEF MailInv

\* One row is closed or changes hands, and the triggers take note.
LEMMA ObservedRow ==
  ASSUME MailInv, NEW m \in Mails, outbox[m].status # "none",
         NEW row \in Rows, outbox' = [outbox EXCEPT ![m] = row],
         row.kind = outbox[m].kind, row.attempts = outbox[m].attempts, row.status # "none",
         row.status = "CANCELLED" => row.kind = "reminder",
         row.kind # "reminder" /\ row.status = "PENDING" => row.attempts < MaxAttempts,
         Observed \/ UNCHANGED failure,
         delivery' \in [Deliveries -> Held \union {Idle}], \A d \in Deliveries : Proceeds(d),
         wanted' \subseteq Mails, UNCHANGED transmitted
  PROVE  MailInv'
  <1>1. outbox' \in [Mails -> Rows] /\ \A n \in Mails : outbox'[n] = IF n = m THEN row ELSE outbox[n]
    BY DEF MailInv, TypeOK
  <1>2. /\ failure' \in [Notifications -> Entries]
        /\ \A n \in Notifications : failure'[n].chances = failure[n].chances
    BY ObservedEntries DEF MailInv, TypeOK
  <1>3. ASSUME NEW n \in Mails PROVE Allowance(n)' >= Allowance(n)
    <2>1. Chances(n)' = Chances(n)
      BY <1>1, <1>2, SameChances
    <2>2. Allowance(n)' = Allowance(n)
      BY <1>1, <2>1 DEF Allowance
    <2> QED BY <2>2, AllowanceNat DEF MailInv
  <1>4. ASSUME NEW n \in Mails PROVE RowOK(n)'
    BY <1>1 DEF MailInv, RowOK
  <1>5. \A n \in Mails : /\ outbox'[n].kind = outbox[n].kind
                         /\ outbox[n].status # "none" => outbox'[n].status # "none"
    BY <1>1
  <1> QED BY <1>1, <1>2, <1>3, <1>4, <1>5, QuietStep

\* The rows stay as they are.
LEMMA RowsUntouched ==
  ASSUME MailInv, UNCHANGED outbox, Observed \/ UNCHANGED failure,
         delivery' \in [Deliveries -> Held \union {Idle}], \A d \in Deliveries : Proceeds(d),
         wanted' \subseteq Mails, UNCHANGED transmitted
  PROVE  MailInv'
  <1>1. outbox' \in [Mails -> Rows]
    BY DEF MailInv, TypeOK
  <1>2. failure' \in [Notifications -> Entries] /\ UNCHANGED failure
    BY ObservedEntries DEF MailInv, TypeOK
  <1>3. ASSUME NEW n \in Mails PROVE Allowance(n)' >= Allowance(n) /\ RowOK(n)'
    <2>1. Allowance(n)' = Allowance(n)
      BY <1>2 DEF Allowance, Chances
    <2>2. RowOK(n)'
      BY DEF MailInv, RowOK
    <2> QED BY <2>1, <2>2, AllowanceNat DEF MailInv
  <1> QED BY <1>1, <1>2, <1>3, QuietStep

LEMMA MailInitInv == Init => MailInv
  <1> SUFFICES ASSUME Init PROVE MailInv
    OBVIOUS
  <1>1. outbox \in [Mails -> Rows]
        /\ \A m \in Mails : outbox[m].status = "none" /\ outbox[m].attempts = 0
    <2> DEFINE New == [kind : Kinds, status : {"none"}, attempts : {0}, leased : {FALSE}]
    <2>1. ASSUME NEW row \in New PROVE row \in Rows /\ row.status = "none" /\ row.attempts = 0
      <3>1. PICK k \in Kinds : row = [kind |-> k, status |-> "none", attempts |-> 0, leased |-> FALSE]
        <4>1. row = [kind |-> row.kind, status |-> "none", attempts |-> 0, leased |-> FALSE]
              /\ row.kind \in Kinds
          OBVIOUS
        <4> QED BY <4>1
      <3> HIDE DEF New
      <3> QED BY <3>1 DEF Rows
    <2>2. outbox \in [Mails -> New]
      BY DEF Init
    <2> HIDE DEF New
    <2> QED BY <2>1, <2>2
  <1>2. TypeOK
    BY <1>1, UnfailedEntry DEF Init, TypeOK
  <1>3. ASSUME NEW m \in Mails PROVE RowOK(m)
    BY <1>1, AttemptsAssumption DEF Init, RowOK
  <1>4. ASSUME NEW m \in Mails PROVE WithinAllowance(m)
    <2>1. Unsent(m) = {}
      BY DEF Init, Unsent, Idle
    <2>2. transmitted[m] = 0 /\ Cardinality({}) = 0
      BY FS_EmptySet DEF Init
    <2> QED BY <1>2, <2>1, <2>2, AllowanceNat DEF WithinAllowance
  <1>5. \A d \in Deliveries : HeldOK(d)
    BY DEF Init, HeldOK
  <1> QED BY <1>2, <1>3, <1>4, <1>5 DEF MailInv

\* The delivery d leaves, or goes on to the call or the catch block.
LEMMA DeliveryProceeds ==
  ASSUME MailInv, NEW d \in Deliveries, delivery[d] # Idle,
         Ends(d) \/ Goes(d, "fail") \/ (At(d, "validate") /\ Goes(d, "send"))
  PROVE  /\ delivery' \in [Deliveries -> Held \union {Idle}]
         /\ \A e \in Deliveries : Proceeds(e)
  <1>1. delivery[d] \in Held /\ delivery \in [Deliveries -> Held \union {Idle}]
    BY DEF MailInv, TypeOK
  <1>2. ASSUME NEW s \in {"send", "fail"}
        PROVE  /\ [delivery[d] EXCEPT !.step = s] \in Held
               /\ [delivery[d] EXCEPT !.step = s].mail = delivery[d].mail
               /\ [delivery[d] EXCEPT !.step = s].step = s
    BY <1>1 DEF Held
  <1>3. \A h \in Held : h # Idle
    BY DEF Held, Idle
  <1>4. CASE Ends(d)
    BY <1>1, <1>4 DEF Ends, Proceeds
  <1>5. CASE Goes(d, "fail") \/ (At(d, "validate") /\ Goes(d, "send"))
    <2> PICK s \in {"send", "fail"} : Goes(d, s) /\ (s = "send" => At(d, "validate"))
      BY <1>5
    <2> DEFINE held == [delivery[d] EXCEPT !.step = s]
    <2>1. held \in Held /\ held.mail = delivery[d].mail /\ held.step = s
      BY <1>2
    <2>2. delivery' = [delivery EXCEPT ![d] = held]
      BY <1>1 DEF Goes
    <2> HIDE DEF held
    <2>3. delivery' \in [Deliveries -> Held \union {Idle}] /\ delivery'[d] = held
          /\ \A e \in Deliveries : e # d => delivery'[e] = delivery[e]
      BY <1>1, <2>1, <2>2
    <2>4. Proceeds(d)
      BY <1>3, <2>1, <2>3 DEF Proceeds
    <2> QED BY <2>3, <2>4 DEF Proceeds
  <1> QED BY <1>4, <1>5

LEMMA StandsStill == UNCHANGED delivery => \A e \in Deliveries : Proceeds(e)
  BY DEF Proceeds

\* The services.
LEMMA ServicesInv ==
  ASSUME MailInv, NEW m \in Mails,
         Enqueue(m) \/ Lapses(m) \/ CompleteFollowUp(m) \/ LeaseExpires(m)
  PROVE  MailInv'
  <1>0. /\ outbox[m] \in Rows /\ RowOK(m)
        /\ delivery \in [Deliveries -> Held \union {Idle}] /\ wanted \subseteq Mails
        /\ outbox \in [Mails -> Rows] /\ failure \in [Notifications -> Entries]
    BY DEF MailInv, TypeOK
  <1>1. CASE Enqueue(m)
    <2> DEFINE row(k) == [outbox[k] EXCEPT !.status = "PENDING"]
    <2>1. ASSUME NEW k \in Mails
          PROVE  /\ row(k) \in Rows /\ row(k).kind = outbox[k].kind
                 /\ row(k).attempts = outbox[k].attempts /\ row(k).status = "PENDING"
      BY <1>0 DEF Rows
    <2>2. outbox' = [k \in Mails |-> IF k \in Fanout(m) THEN row(k) ELSE outbox[k]]
      BY <1>1 DEF Enqueue
    <2> HIDE DEF row
    <2>3. outbox' \in [Mails -> Rows]
          /\ \A k \in Mails : outbox'[k] = IF k \in Fanout(m) THEN row(k) ELSE outbox[k]
      BY <1>0, <2>1, <2>2
    <2>4. UNCHANGED <<delivery, wanted, transmitted, failure>> /\ \A k \in Fanout(m) : outbox[k].status = "none"
      BY <1>1 DEF Enqueue
    <2>5. ASSUME NEW k \in Mails PROVE RowOK(k)'
      <3>1. RowOK(k)
        BY DEF MailInv
      <3> QED BY <2>1, <2>3, <2>4, <3>1, AttemptsAssumption DEF RowOK
    <2>6. \A k \in Mails : /\ outbox'[k].kind = outbox[k].kind /\ outbox'[k].attempts = outbox[k].attempts
                           /\ outbox[k].status # "none" => outbox'[k].status # "none"
      BY <2>1, <2>3
    <2>7. ASSUME NEW k \in Mails PROVE Allowance(k)' >= Allowance(k)
      <3>1. Chances(k)' = Chances(k)
        BY <2>4, <2>6, SameChances
      <3>2. Allowance(k)' = Allowance(k)
        BY <2>6, <3>1 DEF Allowance
      <3> QED BY <3>2, AllowanceNat DEF MailInv
    <2> QED BY <1>0, <2>3, <2>4, <2>5, <2>6, <2>7, StandsStill, QuietStep
  <1>2. CASE Lapses(m)
    BY <1>0, <1>2, StandsStill, RowsUntouched DEF Lapses
  <1>3. CASE CompleteFollowUp(m)
    <2>1. UNCHANGED <<delivery, transmitted, failure>> /\ wanted' \subseteq Mails
          /\ outbox[m].kind = "reminder" /\ outbox[m].status # "none"
      BY <1>0, <1>3 DEF CompleteFollowUp
    <2>2. CASE ~Open(outbox[m])
      BY <1>0, <1>3, <2>1, <2>2, StandsStill, RowsUntouched DEF CompleteFollowUp
    <2>3. CASE Open(outbox[m])
      <3>1. outbox' = [outbox EXCEPT ![m] = Closed(outbox[m], "CANCELLED")]
        BY <1>3, <2>3 DEF CompleteFollowUp
      <3>2. /\ Closed(outbox[m], "CANCELLED") \in Rows
            /\ Closed(outbox[m], "CANCELLED").kind = outbox[m].kind
            /\ Closed(outbox[m], "CANCELLED").attempts = outbox[m].attempts
            /\ Closed(outbox[m], "CANCELLED").status = "CANCELLED"
        BY <1>0, ClosedRow
      <3> QED BY <1>0, <2>1, <3>1, <3>2, StandsStill, ObservedRow
    <2> QED BY <2>2, <2>3
  <1>4. CASE LeaseExpires(m)
    <2> DEFINE row == [outbox[m] EXCEPT !.leased = FALSE]
    <2>1. /\ row \in Rows /\ row.kind = outbox[m].kind
          /\ row.attempts = outbox[m].attempts /\ row.status = outbox[m].status
      BY <1>0 DEF Rows
    <2>2. outbox' = [outbox EXCEPT ![m] = row] /\ outbox[m].status = "PROCESSING"
          /\ UNCHANGED <<delivery, wanted, transmitted, failure>>
      BY <1>0, <1>4 DEF LeaseExpires
    <2> HIDE DEF row
    <2> QED BY <1>0, <2>1, <2>2, StandsStill, ObservedRow
  <1> QED BY <1>1, <1>2, <1>3, <1>4

\* A row whose attempts start anew.
LEMMA AnewRow ==
  ASSUME NEW row \in Rows
  PROVE  /\ Anew(row) \in Rows /\ Anew(row).kind = row.kind
         /\ row.status = "none" => Anew(row) = row
         /\ row.status # "none" => Anew(row).status = "PENDING" /\ Anew(row).attempts = 0
  <1>1. CASE row.status = "none"
    BY <1>1 DEF Anew
  <1>2. CASE row.status # "none"
    <2> DEFINE shut == Closed(row, "PENDING")
    <2>1. shut \in Rows /\ shut.kind = row.kind /\ shut.status = "PENDING"
      BY ClosedRow
    <2>2. Anew(row) = [shut EXCEPT !.attempts = 0]
      BY <1>2 DEF Anew
    <2> HIDE DEF shut
    <2> QED BY <1>2, <2>1, <2>2 DEF Rows
  <1> QED BY <1>1, <1>2

\* The recovery: what a retry takes from the attempts it adds to the chances, for every
\* copy of the notification.
LEMMA RecoveryInv ==
  ASSUME MailInv, NEW n \in Notifications, RecoverNotice(n)
  PROVE  MailInv'
  <1>0. /\ delivery \in [Deliveries -> Held \union {Idle}] /\ wanted \subseteq Mails
        /\ outbox \in [Mails -> Rows] /\ failure \in [Notifications -> Entries] /\ failure[n] \in Entries
        /\ UNCHANGED <<delivery, wanted, transmitted>>
    BY DEF MailInv, TypeOK, RecoverNotice
  <1>1. ASSUME UNCHANGED outbox, NEW e \in Entries, e.chances = failure[n].chances,
               failure' = [failure EXCEPT ![n] = e]
        PROVE  MailInv'
    <2>1. /\ failure' \in [Notifications -> Entries]
          /\ \A k \in Notifications : failure'[k].chances = failure[k].chances
      BY <1>0, <1>1
    <2>2. ASSUME NEW m \in Mails PROVE Allowance(m)' >= Allowance(m) /\ RowOK(m)'
      <3>1. Chances(m)' = Chances(m)
        BY <1>1, <2>1, SameChances
      <3>2. Allowance(m)' = Allowance(m)
        BY <1>1, <3>1 DEF Allowance
      <3>3. RowOK(m)'
        BY <1>1 DEF MailInv, RowOK
      <3> QED BY <3>2, <3>3, AllowanceNat DEF MailInv
    <2> QED BY <1>0, <1>1, <2>1, <2>2, StandsStill, QuietStep
  <1>2. CASE Delivered(n) \/ Hopeless(failure[n])
    BY <1>0, <1>1, <1>2, EntriesStay DEF RecoverNotice
  <1>3. CASE ~Delivered(n) /\ ~Hopeless(failure[n])
    <2> DEFINE entry == Retries(failure[n])
    <2>1. /\ failure' = [failure EXCEPT ![n] = entry]
          /\ outbox' = [m \in Mails |-> IF m \in Copies(n) THEN Anew(outbox[m]) ELSE outbox[m]]
      BY <1>3 DEF RecoverNotice
    <2>2. entry \in Entries /\ entry.chances = failure[n].chances + 1
      BY <1>0, <1>3, RetriedEntry
    <2> HIDE DEF entry
    <2>3. /\ failure' \in [Notifications -> Entries]
          /\ \A k \in Notifications : failure'[k] = IF k = n THEN entry ELSE failure[k]
      BY <1>0, <2>1, <2>2
    <2>4. \A m \in Mails : outbox'[m] = IF m \in Copies(n) THEN Anew(outbox[m]) ELSE outbox[m]
      BY <2>1
    <2>5. ASSUME NEW m \in Mails
          PROVE  /\ outbox'[m] \in Rows /\ outbox'[m].kind = outbox[m].kind
                 /\ outbox[m].status # "none" => outbox'[m].status # "none"
                 /\ RowOK(m)'
      <3>1. outbox[m] \in Rows /\ RowOK(m)
        BY <1>0 DEF MailInv
      <3>2. /\ Anew(outbox[m]) \in Rows /\ Anew(outbox[m]).kind = outbox[m].kind
            /\ outbox[m].status = "none" => Anew(outbox[m]) = outbox[m]
            /\ outbox[m].status # "none" => Anew(outbox[m]).status = "PENDING" /\ Anew(outbox[m]).attempts = 0
        BY <3>1, AnewRow
      <3>3. outbox'[m] = Anew(outbox[m]) \/ outbox'[m] = outbox[m]
        BY <2>4
      <3> QED BY <3>1, <3>2, <3>3, AttemptsAssumption DEF RowOK
    <2>6. outbox' \in [Mails -> Rows]
      BY <2>1, <2>5
    <2>7. ASSUME NEW m \in Mails PROVE Allowance(m)' >= Allowance(m)
      <3>0. /\ outbox[m].attempts \in Nat /\ Chances(m) \in Nat /\ MaxAttempts \in Nat
            /\ Allowance(m) \in Nat /\ About[m] \in Notifications
        BY AttemptsAssumption, AllowanceNat DEF MailInv
      <3>1. CASE m \notin Copies(n)
        <4>1. outbox'[m] = outbox[m]
          BY <2>4, <3>1
        <4>2. Chances(m)' = Chances(m)
          BY <2>3, <3>0, <3>1, <4>1 DEF Chances, Copies
        <4>3. Allowance(m)' = Allowance(m)
          BY <4>1, <4>2 DEF Allowance
        <4> QED BY <3>0, <4>3
      <3>2. CASE m \in Copies(n)
        <4>1. Chances(m) = failure[n].chances /\ Chances(m)' = failure[n].chances + 1
          BY <2>2, <2>3, <2>5, <3>2 DEF Chances, Copies
        <4>2. MaxAttempts * (Chances(m) + 1) = MaxAttempts * Chances(m) + MaxAttempts
          BY <3>0, ChanceIsWorth
        <4>3. outbox[m].attempts <= MaxAttempts
          BY <3>2 DEF MailInv, RowOK, Copies
        <4>4. outbox'[m].attempts = 0
          <5>1. outbox[m] \in Rows /\ RowOK(m)
            BY <1>0 DEF MailInv
          <5>2. outbox'[m] = Anew(outbox[m])
            BY <2>4, <3>2
          <5> QED BY <5>1, <5>2, AnewRow DEF RowOK
        <4>5. Allowance(m)' = 0 + (MaxAttempts * Chances(m) + MaxAttempts)
          BY <4>1, <4>2, <4>4 DEF Allowance
        <4>6. MaxAttempts * Chances(m) \in Nat
          BY <3>0
        <4> QED BY <3>0, <4>3, <4>5, <4>6 DEF Allowance
      <3> QED BY <3>1, <3>2
    <2> QED BY <1>0, <2>3, <2>5, <2>6, <2>7, StandsStill, QuietStep
  <1> QED BY <1>2, <1>3

\* What a claim does first: a row stays, or an open one is closed or sent back.
LEMMA SweptRow ==
  ASSUME MailInv, NEW m \in Mails
  PROVE  /\ Swept(m) \in Rows /\ Swept(m).kind = outbox[m].kind
         /\ Swept(m).attempts = outbox[m].attempts
         /\ \/ Swept(m) = outbox[m]
            \/ /\ Open(outbox[m])
               /\ \/ Swept(m).status = "FAILED"
                  \/ Swept(m).status \in {"CANCELLED", "PENDING"} /\ outbox[m].kind = "reminder"
  <1>1. outbox[m] \in Rows /\ outbox[m].kind \in {"link", "candidate", "notice", "reminder"}
    BY KindsAssumption DEF MailInv, TypeOK, Rows
  <1>2. Expired(outbox[m]) => Open(outbox[m])
    BY DEF Expired, Open
  <1>3. CASE outbox[m].kind \in {"link", "candidate"}
    <2>1. Swept(m) = SweptLink(m)
      BY <1>3 DEF Swept, Queue
    <2> QED BY <1>1, <1>2, <2>1, ClosedRow DEF SweptLink
  <1>4. CASE outbox[m].kind = "notice"
    <2>1. Swept(m) = SweptNotice(m)
      BY <1>4 DEF Swept, Queue
    <2> QED BY <1>1, <1>2, <2>1, ClosedRow DEF SweptNotice
  <1>5. CASE outbox[m].kind = "reminder"
    <2>1. Swept(m) = SweptReminder(m)
      BY <1>5 DEF Swept, Queue
    <2> QED BY <1>1, <1>2, <1>5, <2>1, ClosedRow DEF SweptReminder
  <1> QED BY <1>1, <1>3, <1>4, <1>5

\* The rows that a claim of queue q leaves before it takes one.
LEMMA SweptRows ==
  ASSUME MailInv, NEW q
  PROVE  /\ SweptOutbox(q) \in [Mails -> Rows]
         /\ \A m \in Mails :
               /\ SweptOutbox(q)[m].kind = outbox[m].kind
               /\ SweptOutbox(q)[m].attempts = outbox[m].attempts
               /\ \/ SweptOutbox(q)[m] = outbox[m]
                  \/ /\ Open(outbox[m])
                     /\ \/ SweptOutbox(q)[m].status = "FAILED"
                        \/ SweptOutbox(q)[m].status \in {"CANCELLED", "PENDING"} /\ outbox[m].kind = "reminder"
  <1>1. ASSUME NEW m \in Mails
        PROVE  SweptOutbox(q)[m] = Swept(m) \/ SweptOutbox(q)[m] = outbox[m]
    BY DEF SweptOutbox
  <1>2. ASSUME NEW m \in Mails
        PROVE  /\ SweptOutbox(q)[m] \in Rows
               /\ SweptOutbox(q)[m].kind = outbox[m].kind
               /\ SweptOutbox(q)[m].attempts = outbox[m].attempts
               /\ \/ SweptOutbox(q)[m] = outbox[m]
                  \/ /\ Open(outbox[m])
                     /\ \/ SweptOutbox(q)[m].status = "FAILED"
                        \/ SweptOutbox(q)[m].status \in {"CANCELLED", "PENDING"} /\ outbox[m].kind = "reminder"
    <2>1. outbox[m] \in Rows
      BY DEF MailInv, TypeOK
    <2> QED BY <1>1, <2>1, SweptRow
  <1>3. SweptOutbox(q) \in [Mails -> Rows]
    BY <1>2 DEF SweptOutbox
  <1> QED BY <1>2, <1>3

\* What a claim takes is waiting, or was left in its last but some attempt.
LEMMA ClaimableRow ==
  ASSUME MailInv, NEW q, NEW m \in First(SweptOutbox(q), q)
  PROVE  /\ m \in Mails /\ Open(outbox[m])
         /\ outbox[m].kind # "reminder" => outbox[m].attempts < MaxAttempts
  <1> DEFINE row == SweptOutbox(q)[m]
  <1>1. m \in Mails /\ (row.status = "PENDING" \/ (Expired(row) /\ ~Exhausted(row)))
    BY DEF First, Claimable
  <1>2. /\ row.kind = outbox[m].kind /\ row.attempts = outbox[m].attempts
        /\ \/ row = outbox[m]
           \/ /\ Open(outbox[m])
              /\ \/ row.status = "FAILED"
                 \/ row.status \in {"CANCELLED", "PENDING"} /\ outbox[m].kind = "reminder"
    BY <1>1, SweptRows
  <1>3. RowOK(m) /\ outbox[m].attempts \in Nat /\ MaxAttempts \in Nat
    BY <1>1, AllowanceNat, AttemptsAssumption DEF MailInv
  <1> HIDE DEF row
  <1> QED BY <1>1, <1>2, <1>3 DEF RowOK, Open, Expired, Exhausted

LEMMA ClaimInv ==
  ASSUME MailInv, NEW d \in Deliveries, NEW q, Claim(d, q)
  PROVE  MailInv'
  <1> DEFINE rows == SweptOutbox(q)
  <1>1. /\ rows \in [Mails -> Rows]
        /\ \A m \in Mails :
              /\ rows[m].kind = outbox[m].kind /\ rows[m].attempts = outbox[m].attempts
              /\ \/ rows[m] = outbox[m]
                 \/ /\ Open(outbox[m])
                    /\ \/ rows[m].status = "FAILED"
                       \/ rows[m].status \in {"CANCELLED", "PENDING"} /\ outbox[m].kind = "reminder"
    BY SweptRows
  <1>2. /\ delivery[d] = Idle /\ Observed /\ UNCHANGED <<wanted, transmitted>>
        /\ \/ \E m \in First(rows, q) :
                /\ outbox' = [rows EXCEPT ![m].status = "PROCESSING", ![m].leased = TRUE,
                                          ![m].attempts = @ + 1]
                /\ delivery' = [delivery EXCEPT ![d] =
                        [mail |-> m, attempt |-> rows[m].attempts + 1, step |-> "validate"]]
           \/ outbox' = rows /\ UNCHANGED delivery
    BY DEF Claim
  <1>3. \A m \in First(rows, q) : /\ m \in Mails /\ Open(outbox[m])
                                  /\ outbox[m].kind # "reminder" => outbox[m].attempts < MaxAttempts
    BY ClaimableRow
  <1>4. /\ failure' \in [Notifications -> Entries]
        /\ \A n \in Notifications : failure'[n].chances = failure[n].chances
    BY <1>2, ObservedEntries DEF MailInv
  <1>5. /\ outbox \in [Mails -> Rows] /\ delivery \in [Deliveries -> Held \union {Idle}]
        /\ wanted \subseteq Mails /\ transmitted \in [Mails -> Nat]
    BY DEF MailInv, TypeOK
  <1> HIDE DEF rows
  <1>6. CASE outbox' = rows /\ UNCHANGED delivery
    <2>1. ASSUME NEW m \in Mails PROVE Allowance(m)' >= Allowance(m) /\ RowOK(m)'
      <3>0. Chances(m)' = Chances(m)
        BY <1>1, <1>4, <1>6, SameChances
      <3>1. Allowance(m)' = Allowance(m)
        BY <1>1, <1>6, <3>0 DEF Allowance
      <3>2. RowOK(m)'
        BY <1>1, <1>6 DEF MailInv, RowOK, Open
      <3> QED BY <3>1, <3>2, AllowanceNat DEF MailInv
    <2>2. \A m \in Mails : /\ outbox'[m].kind = outbox[m].kind
                           /\ outbox[m].status # "none" => outbox'[m].status # "none"
      BY <1>1, <1>6 DEF Open
    <2> QED BY <1>1, <1>2, <1>4, <1>5, <1>6, <2>1, <2>2, StandsStill, QuietStep
  <1>7. ASSUME NEW m \in First(rows, q),
               outbox' = [rows EXCEPT ![m].status = "PROCESSING", ![m].leased = TRUE,
                                      ![m].attempts = @ + 1],
               delivery' = [delivery EXCEPT ![d] =
                        [mail |-> m, attempt |-> rows[m].attempts + 1, step |-> "validate"]]
        PROVE  MailInv'
    <2> DEFINE row == [kind |-> outbox[m].kind, status |-> "PROCESSING",
                       attempts |-> outbox[m].attempts + 1, leased |-> TRUE]
               held == [mail |-> m, attempt |-> outbox[m].attempts + 1, step |-> "validate"]
    <2>1. /\ m \in Mails /\ Open(outbox[m]) /\ outbox[m].attempts \in Nat
          /\ outbox[m].kind # "reminder" => outbox[m].attempts < MaxAttempts
      BY <1>3, <1>5 DEF Rows
    <2>2. row \in Rows /\ held \in Held
      BY <1>5, <2>1 DEF Rows, Held
    <2>3. outbox' = [rows EXCEPT ![m] = row]
      <3>2. DOMAIN outbox' = Mails /\ \A n \in Mails : n # m => outbox'[n] = rows[n]
        BY <1>1, <1>7, <2>1
      <3>4. outbox'[m] = row
        <4>1. outbox'[m] = [rows[m] EXCEPT !.status = "PROCESSING", !.leased = TRUE, !.attempts = @ + 1]
          BY <1>1, <1>7, <2>1
        <4>2. rows[m] \in Rows /\ rows[m].kind = outbox[m].kind /\ rows[m].attempts = outbox[m].attempts
          BY <1>1, <2>1
        <4>3. [rows[m] EXCEPT !.status = "PROCESSING", !.leased = TRUE, !.attempts = @ + 1]
                = [kind |-> rows[m].kind, status |-> "PROCESSING", attempts |-> rows[m].attempts + 1, leased |-> TRUE]
          BY <4>2, ClaimedRow
        <4> QED BY <4>1, <4>2, <4>3
      <3>5. outbox' = [n \in Mails |-> outbox'[n]]
        BY <1>1, <1>7
      <3> HIDE DEF row
      <3> QED BY <1>1, <2>1, <3>2, <3>4, <3>5
    <2>4. delivery' = [delivery EXCEPT ![d] = held]
      BY <1>1, <1>7, <2>1
    <2>5. row.kind = outbox[m].kind /\ row.status = "PROCESSING" /\ row.attempts = outbox[m].attempts + 1
          /\ held # Idle /\ held.mail = m /\ held.step = "validate"
      BY DEF Idle
    <2> HIDE DEF row, held
    <2>6. /\ outbox' \in [Mails -> Rows]
          /\ \A n \in Mails : outbox'[n] = IF n = m THEN row ELSE rows[n]
      BY <1>1, <2>1, <2>2, <2>3
    <2>7. /\ delivery' \in [Deliveries -> Held \union {Idle}]
          /\ \A e \in Deliveries : delivery'[e] = IF e = d THEN held ELSE delivery[e]
      BY <1>5, <2>2, <2>4
    <2>8. TypeOK'
      BY <1>2, <1>4, <1>5, <2>6, <2>7 DEF TypeOK
    <2>9. ASSUME NEW n \in Mails PROVE RowOK(n)'
      <3>1. CASE n = m
        BY <2>1, <2>5, <2>6, <3>1, AttemptsAssumption DEF RowOK
      <3>2. CASE n # m
        BY <1>1, <1>4, <2>6, <3>2 DEF MailInv, RowOK, Open
      <3> QED BY <3>1, <3>2
    <2>10. ASSUME NEW n \in Mails PROVE WithinAllowance(n)'
      <3>0. /\ IsFiniteSet(Unsent(n)) /\ Cardinality(Unsent(n)) \in Nat /\ transmitted[n] \in Nat
            /\ Allowance(n) \in Nat /\ WithinAllowance(n)
        BY UnsentFinite, AllowanceNat DEF MailInv
      <3>1. CASE n # m
        <4>1. Unsent(n)' = Unsent(n)
          <5>1. Idle.step = "idle"
            BY DEF Idle
          <5> SUFFICES ASSUME NEW e \in Deliveries
                       PROVE  (delivery'[e].step \in {"validate", "send"} /\ delivery'[e].mail = n)
                                <=> (delivery[e].step \in {"validate", "send"} /\ delivery[e].mail = n)
            BY DEF Unsent
          <5> QED BY <1>2, <2>5, <2>7, <3>1, <5>1
        <4>2. Allowance(n)' = Allowance(n) /\ outbox'[n].kind = outbox[n].kind
          <5>1. outbox'[n].kind = outbox[n].kind /\ outbox'[n].attempts = outbox[n].attempts
            BY <1>1, <2>6, <3>1
          <5> QED BY <1>4, <5>1, SameChances DEF Allowance
        <4> QED BY <1>2, <3>0, <4>1, <4>2 DEF WithinAllowance
      <3>2. CASE n = m
        <4>1. Unsent(m)' = Unsent(m) \union {d} /\ d \notin Unsent(m)
          <5>1. Idle.step = "idle"
            BY DEF Idle
          <5>2. d \notin Unsent(m)
            BY <1>2, <5>1 DEF Unsent
          <5>3. ASSUME NEW e \in Deliveries
                PROVE  (delivery'[e].step \in {"validate", "send"} /\ delivery'[e].mail = m)
                         <=> (e = d \/ (delivery[e].step \in {"validate", "send"} /\ delivery[e].mail = m))
            BY <1>2, <2>5, <2>7, <5>1
          <5> QED BY <5>2, <5>3 DEF Unsent
        <4>2. Cardinality(Unsent(m)') = Cardinality(Unsent(m)) + 1
          BY <3>0, <3>2, <4>1, FS_AddElement
        <4>3. Allowance(m)' = (outbox[m].attempts + 1) + MaxAttempts * Chances(m)
          <5>1. outbox'[m].kind = outbox[m].kind /\ outbox'[m].attempts = outbox[m].attempts + 1
            BY <2>1, <2>5, <2>6
          <5> QED BY <1>4, <2>1, <5>1, SameChances DEF Allowance
        <4>4. MaxAttempts * Chances(m) \in Nat
          <5>1. Chances(m) \in Nat /\ MaxAttempts \in Nat
            BY <2>1, AttemptsAssumption, AllowanceNat DEF MailInv
          <5> QED BY <5>1
        <4>5. Allowance(m)' = Allowance(m) + 1
          BY <2>1, <4>3, <4>4 DEF Allowance
        <4>6. outbox'[m].kind = outbox[m].kind
          BY <2>1, <2>5, <2>6
        <4>7. /\ Cardinality(Unsent(m)) \in Nat /\ transmitted[m] \in Nat
              /\ Allowance(m) \in Nat /\ WithinAllowance(m)
          BY <3>0, <3>2
        <4>8. WithinAllowance(m)'
          <5>1. transmitted'[m] = transmitted[m]
            BY <1>2
          <5> QED BY <4>2, <4>5, <4>6, <4>7, <5>1 DEF WithinAllowance
        <4> QED BY <3>2, <4>8
      <3> QED BY <3>1, <3>2
    <2>11. ASSUME NEW e \in Deliveries PROVE HeldOK(e)'
      <3>1. CASE e = d
        BY <2>1, <2>5, <2>6, <2>7, <3>1 DEF HeldOK, At
      <3>2. CASE e # d
        <4>1. delivery'[e] = delivery[e] /\ HeldOK(e)
          BY <2>7, <3>2 DEF MailInv
        <4>2. \A n \in Mails : outbox[n].status # "none" => outbox'[n].status # "none"
          BY <1>1, <2>5, <2>6 DEF Open
        <4>3. delivery[e] # Idle => delivery[e].mail \in Mails
          BY <1>5 DEF Held
        <4> QED BY <1>2, <4>1, <4>2, <4>3 DEF HeldOK, At
      <3> QED BY <3>1, <3>2
    <2> QED BY <2>8, <2>9, <2>10, <2>11 DEF MailInv
  <1> QED BY <1>2, <1>6, <1>7

\* The rest of what a delivery does.
LEMMA DeliveriesInv ==
  ASSUME MailInv, NEW d \in Deliveries, Steps(d) \/ Renew(d) \/ Crash(d)
  PROVE  MailInv'
  <1> DEFINE m == delivery[d].mail
  <1>0. /\ delivery[d] # Idle /\ delivery[d] \in Held /\ m \in Mails
        /\ outbox[m] \in Rows /\ outbox[m].status # "none" /\ RowOK(m)
        /\ wanted \subseteq Mails /\ delivery \in [Deliveries -> Held \union {Idle}]
        /\ outbox \in [Mails -> Rows]
    <2>1. delivery[d] # Idle
      BY DEF Steps, Validate, Send, Complete, CallFails, RecordFailure, Renew, Crash, At, Idle
    <2>2. delivery[d] \in Held
      BY <2>1 DEF MailInv, TypeOK
    <2>3. m \in Mails /\ HeldOK(d)
      BY <2>2 DEF Held, MailInv
    <2> QED BY <2>1, <2>2, <2>3 DEF MailInv, TypeOK, HeldOK
  <1>1. CASE Validate(d)
    <2>1. /\ Ends(d) \/ Goes(d, "fail") \/ (At(d, "validate") /\ Goes(d, "send"))
          /\ Observed /\ UNCHANGED <<wanted, transmitted>>
          /\ \/ UNCHANGED outbox
             \/ \E s \in Closings(outbox[m].kind) : outbox' = [outbox EXCEPT ![m] = Closed(outbox[m], s)]
      BY <1>1 DEF Validate, EndsOrLost
    <2>2. /\ delivery' \in [Deliveries -> Held \union {Idle}]
          /\ \A e \in Deliveries : Proceeds(e)
      BY <1>0, <2>1, DeliveryProceeds
    <2>3. CASE UNCHANGED outbox
      BY <1>0, <2>1, <2>2, <2>3, RowsUntouched
    <2>4. ASSUME NEW s \in Closings(outbox[m].kind), outbox' = [outbox EXCEPT ![m] = Closed(outbox[m], s)]
          PROVE  MailInv'
      <3>1. s \in {"SENT", "FAILED", "CANCELLED"} /\ (s = "CANCELLED" => outbox[m].kind = "reminder")
        BY <2>4 DEF Closings
      <3>2. /\ Closed(outbox[m], s) \in Rows /\ Closed(outbox[m], s).status = s
            /\ Closed(outbox[m], s).kind = outbox[m].kind
            /\ Closed(outbox[m], s).attempts = outbox[m].attempts
        BY <1>0, <3>1, ClosedRow
      <3> QED BY <1>0, <2>1, <2>2, <2>4, <3>1, <3>2, ObservedRow
    <2> QED BY <2>1, <2>3, <2>4
  <1>2. CASE Send(d)
    <2>1. CASE UNCHANGED transmitted /\ Goes(d, "fail")
      BY <1>0, <1>2, <2>1, DeliveryProceeds, RowsUntouched DEF Send
    <2>2. CASE /\ transmitted' = [transmitted EXCEPT ![m] = @ + 1]
               /\ Goes(d, "complete") \/ Goes(d, "fail")
      <3> PICK s \in {"complete", "fail"} : Goes(d, s)
        BY <2>2
      <3> DEFINE held == [delivery[d] EXCEPT !.step = s]
      <3>1. held \in Held /\ held.mail = m /\ held.step = s
        BY <1>0 DEF Held
      <3>2. delivery' = [delivery EXCEPT ![d] = held]
        BY <1>0 DEF Goes
      <3> HIDE DEF held
      <3>3. /\ delivery' \in [Deliveries -> Held \union {Idle}]
            /\ \A e \in Deliveries : delivery'[e] = IF e = d THEN held ELSE delivery[e]
        BY <1>0, <3>1, <3>2
      <3>4. /\ transmitted \in [Mails -> Nat] /\ UNCHANGED <<outbox, wanted, failure>>
            /\ delivery[d].step = "send"
        BY <1>2 DEF Send, MailInv, TypeOK, At
      <3>5. /\ transmitted' \in [Mails -> Nat]
            /\ \A n \in Mails : transmitted'[n] = IF n = m THEN transmitted[m] + 1 ELSE transmitted[n]
        BY <1>0, <2>2, <3>4
      <3>6. TypeOK'
        BY <3>3, <3>4, <3>5 DEF MailInv, TypeOK
      <3>7. ASSUME NEW n \in Mails PROVE RowOK(n)'
        BY <3>4 DEF MailInv, RowOK
      <3>8. ASSUME NEW n \in Mails PROVE WithinAllowance(n)'
        <4>0. /\ IsFiniteSet(Unsent(n)) /\ Cardinality(Unsent(n)) \in Nat /\ transmitted[n] \in Nat
              /\ Allowance(n) \in Nat /\ WithinAllowance(n)
          BY UnsentFinite, AllowanceNat DEF MailInv
        <4>1. Allowance(n)' = Allowance(n) /\ outbox'[n].kind = outbox[n].kind
          BY <3>4 DEF Allowance, Chances
        <4>2. CASE n # m
          <5>1. Unsent(n)' = Unsent(n)
            BY <1>0, <3>1, <3>3, <4>2 DEF Unsent
          <5>2. transmitted'[n] = transmitted[n]
            BY <3>5, <4>2
          <5> QED BY <4>0, <4>1, <5>1, <5>2 DEF WithinAllowance
        <4>3. CASE n = m
          <5>1. Unsent(n)' = Unsent(n) \ {d} /\ d \in Unsent(n)
            BY <1>0, <3>1, <3>3, <3>4, <4>3 DEF Unsent
          <5>2. Cardinality(Unsent(n)') = Cardinality(Unsent(n)) - 1
            BY <4>0, <5>1, FS_RemoveElement
          <5>3. transmitted'[n] = transmitted[n] + 1
            BY <3>5, <4>3
          <5> QED BY <4>0, <4>1, <5>2, <5>3 DEF WithinAllowance
        <4> QED BY <4>2, <4>3
      <3>9. ASSUME NEW e \in Deliveries PROVE HeldOK(e)'
        <4>1. HeldOK(e) /\ (delivery[e] # Idle => delivery[e].mail \in Mails)
          BY DEF MailInv, TypeOK, Held
        <4>2. \A n \in Mails : transmitted[n] > 0 => transmitted'[n] > 0
          BY <3>4, <3>5
        <4>3. transmitted'[m] > 0
          BY <1>0, <3>4, <3>5
        <4>4. CASE e = d
          BY <1>0, <3>1, <3>3, <3>4, <4>3, <4>4 DEF HeldOK
        <4>5. CASE e # d
          BY <3>3, <3>4, <4>1, <4>2, <4>5 DEF HeldOK, At
        <4> QED BY <4>4, <4>5
      <3> QED BY <3>6, <3>7, <3>8, <3>9 DEF MailInv
    <2> QED BY <1>2, <2>1, <2>2 DEF Send
  <1>3. CASE Complete(d)
    <2>2. /\ delivery' \in [Deliveries -> Held \union {Idle}]
          /\ \A e \in Deliveries : Proceeds(e)
      BY <1>0, <1>3, DeliveryProceeds DEF Complete, EndsOrLost
    <2>3. Observed /\ UNCHANGED <<wanted, transmitted>>
      BY <1>3 DEF Complete
    <2>4. /\ Closed(outbox[m], "SENT") \in Rows /\ Closed(outbox[m], "SENT").status = "SENT"
          /\ Closed(outbox[m], "SENT").kind = outbox[m].kind
          /\ Closed(outbox[m], "SENT").attempts = outbox[m].attempts
      BY <1>0, ClosedRow
    <2>5. CASE Current(d)
      <3>1. outbox' = [outbox EXCEPT ![m] = Closed(outbox[m], "SENT")]
        BY <1>3, <2>5 DEF Complete
      <3> QED BY <1>0, <2>2, <2>3, <2>4, <3>1, ObservedRow
    <2>6. CASE ~Current(d)
      <3>1. UNCHANGED outbox
        BY <1>3, <2>6 DEF Complete
      <3> QED BY <1>0, <2>2, <2>3, <3>1, RowsUntouched
    <2> QED BY <2>5, <2>6
  <1>4. CASE CallFails(d)
    BY <1>0, <1>4, DeliveryProceeds, RowsUntouched DEF CallFails
  <1>5. CASE RecordFailure(d)
    <2>1. Ends(d) /\ Observed /\ UNCHANGED <<wanted, transmitted>>
      BY <1>5 DEF RecordFailure
    <2>2. /\ delivery' \in [Deliveries -> Held \union {Idle}]
          /\ \A e \in Deliveries : Proceeds(e)
      BY <1>0, <2>1, DeliveryProceeds
    <2>3. CASE UNCHANGED outbox
      BY <1>0, <2>1, <2>2, <2>3, RowsUntouched
    <2>4. CASE outbox' = [outbox EXCEPT ![m] = Closed(@, IF Exhausted(@) THEN "FAILED" ELSE "PENDING")]
      <3> DEFINE s == IF Exhausted(outbox[m]) THEN "FAILED" ELSE "PENDING"
      <3>1. outbox' = [outbox EXCEPT ![m] = Closed(outbox[m], s)]
        BY <2>4
      <3>2. s \in {"FAILED", "PENDING"}
        OBVIOUS
      <3>3. s = "PENDING" => outbox[m].attempts < MaxAttempts
        <4>1. outbox[m].attempts \in Nat /\ MaxAttempts \in Nat
          BY <1>0, AllowanceNat, AttemptsAssumption DEF MailInv
        <4> QED BY <4>1 DEF Exhausted
      <3> HIDE DEF s
      <3>4. /\ Closed(outbox[m], s) \in Rows /\ Closed(outbox[m], s).status = s
            /\ Closed(outbox[m], s).kind = outbox[m].kind
            /\ Closed(outbox[m], s).attempts = outbox[m].attempts
        BY <1>0, <3>2, ClosedRow
      <3> QED BY <1>0, <2>1, <2>2, <3>1, <3>2, <3>3, <3>4, ObservedRow
    <2> QED BY <1>5, <2>3, <2>4 DEF RecordFailure
  <1>6. CASE Renew(d)
    <2> DEFINE row == [outbox[m] EXCEPT !.leased = TRUE]
    <2>1. /\ row \in Rows /\ row.kind = outbox[m].kind
          /\ row.attempts = outbox[m].attempts /\ row.status = outbox[m].status
      BY <1>0 DEF Rows
    <2>2. outbox' = [outbox EXCEPT ![m] = row] /\ outbox[m].status = "PROCESSING"
          /\ UNCHANGED <<delivery, wanted, transmitted, failure>>
      BY <1>0, <1>6 DEF Renew, Current
    <2> HIDE DEF row
    <2> QED BY <1>0, <2>1, <2>2, StandsStill, ObservedRow
  <1>7. CASE Crash(d)
    BY <1>0, <1>7, DeliveryProceeds, RowsUntouched DEF Crash
  <1> QED BY <1>1, <1>2, <1>3, <1>4, <1>5, <1>6, <1>7 DEF Steps

LEMMA MailNextInv == MailInv /\ [OperationsNext]_<<vars, report>> => MailInv'
  <1> SUFFICES ASSUME MailInv, [OperationsNext]_<<vars, report>> PROVE MailInv'
    OBVIOUS
  <1>1. CASE Next
    <2>1. ASSUME NEW d \in Deliveries, Works(d) \/ Renew(d) \/ Crash(d) PROVE MailInv'
      BY <2>1, DeliveriesInv DEF Works, DeliverClaimedMessage, DeliverNotification, DeliverCommercial
    <2>2. ASSUME NEW m \in Mails, Enqueue(m) \/ Lapses(m) \/ CompleteFollowUp(m) \/ LeaseExpires(m)
          PROVE  MailInv'
      BY <2>2, ServicesInv
    <2>4. ASSUME NEW n \in Notifications, RecoverNotice(n) PROVE MailInv'
      BY <2>4, RecoveryInv
    <2>3. ASSUME NEW d \in Deliveries, NEW q \in Queues, Claim(d, q) PROVE MailInv'
      BY <2>3, ClaimInv
    <2> QED BY <1>1, <2>1, <2>2, <2>3, <2>4 DEF Next
  <1>2. CASE UNCHANGED vars
    BY <1>2, StandsStill, RowsUntouched DEF vars, MailInv, TypeOK
  <1> QED BY <1>1, <1>2 DEF OperationsNext

\* Whatever fails, crashes, overlaps or is recovered, the queues stay in states
\* where the claims of a mail cover its transmissions, past and outstanding.
THEOREM MailInvariance == OperationsSpec => []MailInv
  <1>1. OperationsInit => MailInv
    BY MailInitInv DEF OperationsInit
  <1> QED BY <1>1, MailNextInv, PTL DEF OperationsSpec

\* TransmissionsBounded: no mail but a reminder reaches its recipient more often
\* than its claims allow, MaxAttempts for each of at most 1 + MaxRecoveries
\* rounds, for any number of mails and of deliveries at work at once.
THEOREM MailboxesAreSafe == OperationsSpec => []TransmissionsBounded
  <1>1. MailInv => TransmissionsBounded
    <2> SUFFICES ASSUME MailInv, NEW m \in Mails, outbox[m].kind # "reminder"
                 PROVE  /\ transmitted[m] <= Allowance(m)
                        /\ outbox[m].attempts <= MaxAttempts /\ Chances(m) <= MaxRecoveries
      BY DEF TransmissionsBounded, Allowance
    <2>1. RowOK(m) /\ WithinAllowance(m)
      BY DEF MailInv
    <2>2. Cardinality(Unsent(m)) \in Nat /\ Allowance(m) \in Nat /\ transmitted[m] \in Nat
      BY UnsentFinite, AllowanceNat DEF MailInv
    <2>3. Chances(m) <= MaxRecoveries
      BY AllowanceNat DEF MailInv
    <2> HIDE DEF Allowance, Unsent
    <2>4. transmitted[m] <= Allowance(m)
      BY <2>1, <2>2 DEF WithinAllowance
    <2> QED BY <2>1, <2>3, <2>4 DEF RowOK
  <1> QED BY <1>1, MailInvariance, PTL

-----------------------------------------------------------------------------
(* The queues keep their promise: every step is one of MailPromise's or none *)

\* What the queues' state says in the words of MailPromise.
posted == {m \in Mails : outbox[m].status # "none"}
unneeded == Mails \ wanted
arrived == {m \in Mails : transmitted[m] > 0}
reported == [m \in Mails |-> ReportOf(m)]

\* A report is made once, and of a success only where there was one.
Settles(m) ==
    \/ ReportOf(m)' = ReportOf(m)
    \/ /\ m \in posted /\ ReportOf(m) = "open"
       /\ ReportOf(m)' = "sent" => m \in arrived \union unneeded

LEMMA ReportsAre == \A m : ReportOf(m) \in {"open", "given up", "sent"} /\ ReportOf(m)' \in {"open", "given up", "sent"}
  BY DEF ReportOf

LEMMA SettleStep ==
  ASSUME UNCHANGED <<posted, unneeded, arrived>>, \A m \in Mails : Settles(m)
  PROVE  Promise!Settle
  <1>1. reported' \in [Mails -> {"open", "given up", "sent"}]
    BY ReportsAre DEF reported
  <1>2. \A m \in Mails : reported[m] = ReportOf(m) /\ reported'[m] = ReportOf(m)'
    BY DEF reported
  <1>3. \A m \in Mails : reported'[m] # reported[m] =>
            /\ m \in posted /\ reported[m] = "open"
            /\ reported'[m] = "sent" => m \in arrived \union unneeded
    BY <1>2 DEF Settles
  <1> QED BY <1>1, <1>3 DEF Promise!Settle, posted, unneeded, arrived, reported

\* A row that is open says so.
LEMMA OpenReport ==
  ASSUME NEW m \in Mails, Open(outbox[m])
  PROVE  m \in posted /\ ReportOf(m) = "open"
  BY DEF Open, posted, ReportOf

LEMMA UnsentReport ==
  ASSUME NEW m, outbox'[m].status # "SENT"
  PROVE  ReportOf(m)' \in {"open", "given up"}
  BY DEF ReportOf

\* Where rows are not sent, or unsent, no other copy of the notification is affected.
LEMMA SameDelivered ==
  ASSUME \A k \in Mails : /\ outbox'[k].kind = outbox[k].kind
                          /\ outbox'[k].status = "SENT" <=> outbox[k].status = "SENT"
  PROVE  \A n : Delivered(n)' <=> Delivered(n)
  BY DEF Delivered, Copies

LEMMA SameReport ==
  ASSUME NEW m, outbox'[m].status = outbox[m].status, outbox'[m].kind = outbox[m].kind,
         UNCHANGED failure, Delivered(About[m])' <=> Delivered(About[m])
  PROVE  ReportOf(m)' = ReportOf(m)
  BY DEF ReportOf, Final

\* What was sent stays sent, what is dead stays dead: then a row that is as it was says
\* what it said, or is given up.
SentStays == \A k \in Mails : /\ outbox'[k].kind = outbox[k].kind
                              /\ outbox[k].status = "SENT" => outbox'[k].status = "SENT"
DeadStays == \A n \in Notifications : failure[n].status = "DEAD" => failure'[n].status = "DEAD"

LEMMA RestSettles ==
  ASSUME SentStays, DeadStays, NEW m \in Mails, outbox'[m].status = outbox[m].status
  PROVE  Settles(m)
  <1>1. Delivered(About[m]) => Delivered(About[m])'
    BY DEF SentStays, Delivered, Copies
  <1>2. failure[About[m]].status = "DEAD" => failure'[About[m]].status = "DEAD"
    BY DEF DeadStays, Notifications
  <1>3. outbox'[m].kind = outbox[m].kind
    BY DEF SentStays
  <1>4. Final(m) => Final(m)'
    BY <1>1, <1>2, <1>3 DEF Final
  <1> QED BY <1>4 DEF Settles, ReportOf, posted

LEMMA ObservedStays == TypeOK /\ (Observed \/ UNCHANGED failure) => DeadStays
  BY ObservedEntries DEF DeadStays

\* One row moves on, and the triggers take note.
LEMMA OneRowSettles ==
  ASSUME MailInv, NEW m \in Mails, Open(outbox[m]),
         NEW row, outbox' = [outbox EXCEPT ![m] = row], row.kind = outbox[m].kind,
         row.status # "none", row.status = "SENT" => m \in arrived \union unneeded,
         Observed \/ UNCHANGED failure, UNCHANGED <<wanted, transmitted>>
  PROVE  Promise!Settle
  <1>1. \A n \in Mails : outbox'[n] = IF n = m THEN row ELSE outbox[n]
    BY DEF MailInv, TypeOK
  <1>2. SentStays /\ DeadStays
    BY <1>1, ObservedStays DEF SentStays, Open, MailInv
  <1>3. ASSUME NEW n \in Mails PROVE Settles(n)
    <2>1. CASE n = m
      <3>1. row.status # "SENT" => ReportOf(m)' # "sent"
        BY <1>1, UnsentReport
      <3> QED BY <2>1, <3>1, OpenReport DEF Settles
    <2>2. CASE n # m
      BY <1>1, <1>2, <2>2, RestSettles
    <2> QED BY <2>1, <2>2
  <1>4. posted' = posted
    BY <1>1 DEF posted, Open
  <1>5. UNCHANGED <<unneeded, arrived>>
    BY DEF unneeded, arrived
  <1> QED BY <1>3, <1>4, <1>5, SettleStep

LEMMA NothingSettles ==
  ASSUME MailInv, UNCHANGED <<outbox, wanted, transmitted>>, Observed \/ UNCHANGED failure
  PROVE  Promise!Settle
  <1>1. SentStays /\ DeadStays
    BY ObservedStays DEF SentStays, MailInv
  <1>2. \A n \in Mails : Settles(n)
    BY <1>1, RestSettles
  <1>3. UNCHANGED <<posted, unneeded, arrived>>
    BY DEF posted, unneeded, arrived
  <1> QED BY <1>2, <1>3, SettleStep

LEMMA RecoveryKeepsPromise ==
  ASSUME MailInv, NEW n \in Notifications, RecoverNotice(n)
  PROVE  Promise!Settle
  <1>1. Due(failure[n]) /\ UNCHANGED <<wanted, transmitted>> /\ failure \in [Notifications -> Entries]
    BY DEF RecoverNotice, MailInv, TypeOK
  <1>2. DeadStays
    <2>1. \A k \in Notifications : k # n => failure'[k] = failure[k]
      BY <1>1 DEF RecoverNotice
    <2> QED BY <1>1, <2>1 DEF DeadStays, Due
  <1>3. CASE UNCHANGED outbox
    <2>1. SentStays
      BY <1>3 DEF SentStays
    <2>2. \A m \in Mails : Settles(m)
      BY <1>2, <1>3, <2>1, RestSettles
    <2> QED BY <1>1, <1>3, <2>2, SettleStep DEF posted, unneeded, arrived
  <1>4. CASE /\ ~Delivered(n)
             /\ outbox' = [m \in Mails |-> IF m \in Copies(n) THEN Anew(outbox[m]) ELSE outbox[m]]
    <2>1. ASSUME NEW m \in Mails
          PROVE  /\ outbox'[m].kind = outbox[m].kind
                 /\ outbox[m].status = "none" <=> outbox'[m].status = "none"
                 /\ outbox'[m] = outbox[m]
                      \/ (m \in Copies(n) /\ outbox[m].status # "SENT" /\ outbox'[m].status = "PENDING")
      <3>1. outbox[m] \in Rows
        BY DEF MailInv, TypeOK
      <3>2. outbox'[m] = IF m \in Copies(n) THEN Anew(outbox[m]) ELSE outbox[m]
        BY <1>4
      <3>3. m \in Copies(n) => outbox[m].status # "SENT"
        BY <1>4 DEF Delivered
      <3> QED BY <3>1, <3>2, <3>3, AnewRow
    <2>2. SentStays
      BY <2>1 DEF SentStays
    <2>3. ASSUME NEW m \in Mails PROVE Settles(m)
      <3>1. CASE outbox'[m] = outbox[m]
        BY <1>2, <2>2, <3>1, RestSettles
      <3>2. CASE m \in Copies(n) /\ outbox[m].status # "SENT" /\ outbox'[m].status = "PENDING"
        <4>1. outbox[m].kind = "notice" /\ About[m] = n /\ RowOK(m)
          BY <3>2 DEF Copies, MailInv
        <4>2. ~Final(m)
          BY <1>1, <1>4, <4>1 DEF Final, Due
        <4>3. ReportOf(m) = "open" /\ ReportOf(m)' = "open"
          BY <3>2, <4>1, <4>2 DEF ReportOf, RowOK
        <4> QED BY <4>3 DEF Settles
      <3> QED BY <2>1, <3>1, <3>2
    <2>4. UNCHANGED <<posted, unneeded, arrived>>
      BY <1>1, <2>1 DEF posted, unneeded, arrived
    <2> QED BY <2>3, <2>4, SettleStep
  <1> QED BY <1>3, <1>4 DEF RecoverNotice

LEMMA ClaimKeepsPromise ==
  ASSUME MailInv, NEW d \in Deliveries, NEW q, Claim(d, q)
  PROVE  Promise!Settle
  <1> DEFINE rows == SweptOutbox(q)
  <1>1. /\ rows \in [Mails -> Rows]
        /\ \A m \in Mails : /\ rows[m].kind = outbox[m].kind
                            /\ \/ rows[m] = outbox[m]
                               \/ Open(outbox[m]) /\ rows[m].status \in {"FAILED", "CANCELLED", "PENDING"}
    BY SweptRows
  <1>2. /\ Observed /\ UNCHANGED <<wanted, transmitted>>
        /\ \/ \E m \in First(rows, q) :
                outbox' = [rows EXCEPT ![m].status = "PROCESSING", ![m].leased = TRUE,
                                       ![m].attempts = @ + 1]
           \/ outbox' = rows
    BY DEF Claim
  <1>3. \A m \in First(rows, q) : m \in Mails /\ Open(outbox[m])
    BY ClaimableRow
  <1>4. DeadStays
    BY <1>2, ObservedStays DEF MailInv
  <1> HIDE DEF rows
  <1>5. ASSUME NEW n \in Mails
        PROVE  /\ outbox'[n].kind = outbox[n].kind
               /\ \/ outbox'[n] = outbox[n]
                  \/ Open(outbox[n]) /\ outbox'[n].status \in {"FAILED", "CANCELLED", "PENDING", "PROCESSING"}
    <2>1. CASE outbox' = rows
      BY <1>1, <2>1
    <2>2. ASSUME NEW m \in First(rows, q),
                 outbox' = [rows EXCEPT ![m].status = "PROCESSING", ![m].leased = TRUE,
                                        ![m].attempts = @ + 1]
          PROVE  /\ outbox'[n].kind = outbox[n].kind
                 /\ \/ outbox'[n] = outbox[n]
                    \/ Open(outbox[n]) /\ outbox'[n].status \in {"FAILED", "CANCELLED", "PENDING", "PROCESSING"}
      <3>1. CASE n # m
        BY <1>1, <1>3, <2>2, <3>1
      <3>2. CASE n = m
        <4>1. outbox'[m] = [rows[m] EXCEPT !.status = "PROCESSING", !.leased = TRUE, !.attempts = @ + 1]
          BY <1>1, <1>3, <2>2
        <4>2. rows[m] \in Rows
          BY <1>1, <1>3
        <4>3. outbox'[m].status = "PROCESSING" /\ outbox'[m].kind = rows[m].kind
          BY <4>1, <4>2, ClaimedRow
        <4> QED BY <1>1, <1>3, <3>2, <4>3
      <3> QED BY <3>1, <3>2
    <2> QED BY <1>2, <2>1, <2>2
  <1>s. SentStays
    BY <1>5 DEF SentStays, Open
  <1>6. ASSUME NEW n \in Mails PROVE Settles(n)
    <2>1. CASE outbox'[n] = outbox[n]
      BY <1>4, <1>s, <2>1, RestSettles
    <2>2. CASE Open(outbox[n]) /\ outbox'[n].status # "SENT"
      <3>1. ReportOf(n)' # "sent"
        BY <2>2, UnsentReport
      <3> QED BY <2>2, <3>1, OpenReport DEF Settles
    <2> QED BY <1>5, <2>1, <2>2
  <1>7. UNCHANGED <<posted, unneeded, arrived>>
    BY <1>2, <1>5 DEF posted, unneeded, arrived, Open
  <1> QED BY <1>6, <1>7, SettleStep

LEMMA ServicesKeepPromise ==
  ASSUME MailInv, NEW m \in Mails,
         Enqueue(m) \/ Lapses(m) \/ CompleteFollowUp(m) \/ LeaseExpires(m)
  PROVE  Promise!MailNext
  <1>0. outbox[m] \in Rows /\ outbox \in [Mails -> Rows] /\ wanted \subseteq Mails
    BY DEF MailInv, TypeOK
  <1>1. CASE Enqueue(m)
    <2> DEFINE row(k) == [outbox[k] EXCEPT !.status = "PENDING"]
    <2>1. \A k \in Mails : row(k).status = "PENDING" /\ row(k).kind = outbox[k].kind
      BY <1>0 DEF Rows
    <2>2. /\ outbox' = [k \in Mails |-> IF k \in Fanout(m) THEN row(k) ELSE outbox[k]]
          /\ \A k \in Fanout(m) : outbox[k].status = "none"
          /\ UNCHANGED <<wanted, transmitted, failure>> /\ Fanout(m) \subseteq Mails
      BY <1>1 DEF Enqueue, Fanout, Copies
    <2> HIDE DEF row
    <2>3. \A k \in Mails : outbox'[k] = IF k \in Fanout(m) THEN row(k) ELSE outbox[k]
      BY <2>2
    <2>4. \A n : Delivered(n)' <=> Delivered(n)
      BY <2>1, <2>2, <2>3, SameDelivered
    <2>5. ASSUME NEW k \in Mails PROVE ReportOf(k)' = ReportOf(k)
      <3>1. CASE k \in Fanout(m)
        BY <2>1, <2>2, <2>3, <3>1 DEF ReportOf
      <3>2. CASE k \notin Fanout(m)
        BY <2>2, <2>3, <2>4, <3>2, SameReport
      <3> QED BY <3>1, <3>2
    <2>6. UNCHANGED <<unneeded, arrived, reported>>
      BY <2>2, <2>5 DEF unneeded, arrived, reported
    <2>7. Fanout(m) \intersect posted = {} /\ posted' = posted \union Fanout(m)
      BY <2>1, <2>2, <2>3 DEF posted
    <2>8. Promise!PostAll(Fanout(m))
      BY <2>6, <2>7 DEF Promise!PostAll, posted, unneeded, arrived, reported
    <2>9. Fanout(m) \in SUBSET Mails
      BY <2>2
    <2>10. \E ms \in SUBSET Mails : Promise!PostAll(ms)
      BY <2>8, <2>9 DEF Promise!PostAll
    <2> QED BY <2>10 DEF Promise!MailNext
  <1>2. CASE Lapses(m) \/ (CompleteFollowUp(m) /\ ~Open(outbox[m]))
    <2>1. UNCHANGED <<outbox, transmitted, failure>> /\ wanted' = wanted \ {m} /\ outbox[m].status # "none"
      BY <1>2 DEF Lapses, CompleteFollowUp, Open
    <2>2. \A n \in Mails : ReportOf(n)' = ReportOf(n)
      BY <2>1, SameDelivered, SameReport
    <2>3. UNCHANGED <<posted, arrived, reported>> /\ m \in posted /\ unneeded' = unneeded \union {m}
      BY <2>1, <2>2 DEF posted, arrived, reported, unneeded
    <2>4. Promise!Lapse(m)
      BY <2>3 DEF Promise!Lapse, posted, unneeded, arrived, reported
    <2> QED BY <2>4 DEF Promise!MailNext
  <1>3. CASE CompleteFollowUp(m) /\ Open(outbox[m])
    <2>1. /\ outbox' = [outbox EXCEPT ![m] = Closed(outbox[m], "CANCELLED")]
          /\ UNCHANGED <<transmitted, failure>> /\ wanted' = wanted \ {m}
      BY <1>3 DEF CompleteFollowUp
    <2>2. /\ Closed(outbox[m], "CANCELLED").status = "CANCELLED"
          /\ Closed(outbox[m], "CANCELLED").kind = outbox[m].kind
      BY <1>0, ClosedRow
    <2>3. \A n \in Mails : outbox'[n] = IF n = m THEN Closed(outbox[m], "CANCELLED") ELSE outbox[n]
      BY <1>0, <2>1
    <2>4. ReportOf(m)' = "given up"
      BY <2>2, <2>3 DEF ReportOf
    <2>d. \A n : Delivered(n)' <=> Delivered(n)
      BY <1>3, <2>2, <2>3, SameDelivered DEF Open
    <2>5. \A n \in Mails : n # m => ReportOf(n)' = ReportOf(n)
      BY <2>1, <2>3, <2>d, SameReport
    <2>6. reported' = [reported EXCEPT ![m] = "given up"] /\ reported[m] = "open" /\ m \in posted
      BY <1>3, <2>4, <2>5, OpenReport DEF reported
    <2>7. UNCHANGED <<posted, arrived>> /\ unneeded' = unneeded \union {m}
      BY <1>3, <2>1, <2>2, <2>3 DEF posted, arrived, unneeded, Open
    <2>8. Promise!Withdraw(m)
      BY <2>6, <2>7 DEF Promise!Withdraw, posted, unneeded, arrived, reported
    <2> QED BY <2>8 DEF Promise!MailNext
  <1>4. CASE LeaseExpires(m)
    <2> DEFINE row == [outbox[m] EXCEPT !.leased = FALSE]
    <2>1. row.status = outbox[m].status /\ row.kind = outbox[m].kind
      BY <1>0 DEF Rows
    <2>2. outbox' = [outbox EXCEPT ![m] = row] /\ outbox[m].status = "PROCESSING"
          /\ UNCHANGED <<wanted, transmitted, failure>>
      BY <1>0, <1>4 DEF LeaseExpires
    <2> HIDE DEF row
    <2>3. Promise!Settle
      BY <2>1, <2>2, OneRowSettles DEF Open
    <2> QED BY <2>3 DEF Promise!MailNext
  <1> QED BY <1>1, <1>2, <1>3, <1>4

LEMMA DeliveriesKeepPromise ==
  ASSUME MailInv, NEW d \in Deliveries, Steps(d) \/ Renew(d) \/ Crash(d)
  PROVE  Promise!MailNext
  <1> DEFINE m == delivery[d].mail
  <1>0. /\ delivery[d] \in Held /\ m \in Mails /\ outbox[m] \in Rows /\ outbox[m].status # "none"
        /\ At(d, "complete") => transmitted[m] > 0
        /\ Current(d) => Open(outbox[m])
    <2>1. delivery[d] # Idle
      BY DEF Steps, Validate, Send, Complete, CallFails, RecordFailure, Renew, Crash, At, Idle
    <2>2. delivery[d] \in Held
      BY <2>1 DEF MailInv, TypeOK
    <2>3. m \in Mails /\ HeldOK(d)
      BY <2>2 DEF Held, MailInv
    <2> QED BY <2>1, <2>2, <2>3 DEF MailInv, TypeOK, HeldOK, Current, Open
  <1>1. CASE Validate(d)
    <2>1. Observed /\ UNCHANGED <<wanted, transmitted>>
      BY <1>1 DEF Validate
    <2>2. CASE UNCHANGED outbox
      BY <2>1, <2>2, NothingSettles DEF Promise!MailNext
    <2>3. CASE Current(d) /\ m \notin wanted
               /\ \E s \in Closings(outbox[m].kind) : outbox' = [outbox EXCEPT ![m] = Closed(@, s)]
      <3> PICK s \in Closings(outbox[m].kind) : outbox' = [outbox EXCEPT ![m] = Closed(outbox[m], s)]
        BY <2>3
      <3>1. s \in {"SENT", "FAILED", "CANCELLED"}
        BY DEF Closings
      <3>2. Closed(outbox[m], s).status = s /\ Closed(outbox[m], s).kind = outbox[m].kind
        BY <1>0, <3>1, ClosedRow
      <3>3. m \in unneeded
        BY <1>0, <2>3 DEF unneeded
      <3> QED BY <1>0, <2>1, <2>3, <3>1, <3>2, <3>3, OneRowSettles DEF Promise!MailNext
    <2> QED BY <1>1, <2>2, <2>3 DEF Validate
  <1>2. CASE Send(d)
    <2>1. CASE UNCHANGED transmitted
      BY <1>2, <2>1, NothingSettles DEF Send, Promise!MailNext
    <2>2. CASE transmitted' = [transmitted EXCEPT ![m] = @ + 1]
      <3>1. UNCHANGED <<outbox, wanted, failure>> /\ transmitted \in [Mails -> Nat]
        BY <1>2 DEF Send, MailInv, TypeOK
      <3>2. \A n \in Mails : transmitted'[n] = IF n = m THEN transmitted[m] + 1 ELSE transmitted[n]
        BY <2>2, <3>1
      <3>3. arrived' = arrived \union {m}
        BY <1>0, <3>1, <3>2 DEF arrived
      <3>4. UNCHANGED <<posted, unneeded, reported>> /\ m \in posted
        BY <1>0, <3>1, SameDelivered, SameReport DEF posted, unneeded, reported
      <3>5. ASSUME NEW n \in Mails, n = m PROVE Promise!Arrive(n)
        BY <3>3, <3>4, <3>5 DEF Promise!Arrive, posted, unneeded, arrived, reported
      <3>6. \E n \in Mails : Promise!Arrive(n)
        BY <1>0, <3>5
      <3> QED BY <3>6 DEF Promise!MailNext
    <2> QED BY <1>2, <2>1, <2>2 DEF Send
  <1>3. CASE Complete(d)
    <2>1. Observed /\ UNCHANGED <<wanted, transmitted>> /\ At(d, "complete")
      BY <1>3 DEF Complete
    <2>2. CASE Current(d)
      <3>1. outbox' = [outbox EXCEPT ![m] = Closed(outbox[m], "SENT")]
        BY <1>3, <2>2 DEF Complete
      <3>2. Closed(outbox[m], "SENT").status = "SENT" /\ Closed(outbox[m], "SENT").kind = outbox[m].kind
        BY <1>0, ClosedRow
      <3>3. Promise!Settle
        BY <1>0, <2>1, <2>2, <3>1, <3>2, OneRowSettles DEF arrived
      <3> QED BY <3>3 DEF Promise!MailNext
    <2>3. CASE ~Current(d)
      <3>1. UNCHANGED outbox
        BY <1>3, <2>3 DEF Complete
      <3> QED BY <2>1, <3>1, NothingSettles DEF Promise!MailNext
    <2> QED BY <2>2, <2>3
  <1>4. CASE CallFails(d) \/ Crash(d)
    BY <1>4, NothingSettles DEF CallFails, Crash, Promise!MailNext
  <1>5. CASE RecordFailure(d)
    <2>1. Observed /\ UNCHANGED <<wanted, transmitted>>
      BY <1>5 DEF RecordFailure
    <2>2. CASE UNCHANGED outbox
      BY <2>1, <2>2, NothingSettles DEF Promise!MailNext
    <2>3. CASE Current(d) /\ outbox' = [outbox EXCEPT ![m] =
                    Closed(@, IF Exhausted(@) THEN "FAILED" ELSE "PENDING")]
      <3> DEFINE s == IF Exhausted(outbox[m]) THEN "FAILED" ELSE "PENDING"
      <3>1. outbox' = [outbox EXCEPT ![m] = Closed(outbox[m], s)] /\ s \in {"FAILED", "PENDING"}
        BY <2>3
      <3> HIDE DEF s
      <3>2. Closed(outbox[m], s).status = s /\ Closed(outbox[m], s).kind = outbox[m].kind
        BY <1>0, <3>1, ClosedRow
      <3> QED BY <1>0, <2>1, <2>3, <3>1, <3>2, OneRowSettles DEF Promise!MailNext
    <2> QED BY <1>5, <2>2, <2>3 DEF RecordFailure
  <1>6. CASE Renew(d)
    <2> DEFINE row == [outbox[m] EXCEPT !.leased = TRUE]
    <2>1. row.status = outbox[m].status /\ row.kind = outbox[m].kind
      BY <1>0 DEF Rows
    <2>2. outbox' = [outbox EXCEPT ![m] = row] /\ outbox[m].status = "PROCESSING"
          /\ UNCHANGED <<wanted, transmitted, failure>>
      BY <1>0, <1>6 DEF Renew, Current, MailInv, TypeOK
    <2> HIDE DEF row
    <2> QED BY <1>0, <2>1, <2>2, OneRowSettles DEF Open, Promise!MailNext
  <1> QED BY <1>1, <1>2, <1>3, <1>4, <1>5, <1>6 DEF Steps

LEMMA StepKeepsPromise ==
  MailInv /\ [OperationsNext]_<<vars, report>> => [Promise!MailNext]_(Promise!mailVars)
  <1> SUFFICES ASSUME MailInv, [OperationsNext]_<<vars, report>>
               PROVE  Promise!MailNext \/ UNCHANGED Promise!mailVars
    OBVIOUS
  <1>1. CASE Next
    <2>1. ASSUME NEW d \in Deliveries, Works(d) \/ Renew(d) \/ Crash(d) PROVE Promise!MailNext
      BY <2>1, DeliveriesKeepPromise DEF Works, DeliverClaimedMessage, DeliverNotification, DeliverCommercial
    <2>2. ASSUME NEW m \in Mails, Enqueue(m) \/ Lapses(m) \/ CompleteFollowUp(m) \/ LeaseExpires(m)
          PROVE  Promise!MailNext
      BY <2>2, ServicesKeepPromise
    <2>3. ASSUME NEW n \in Notifications, RecoverNotice(n) PROVE Promise!MailNext
      BY <2>3, RecoveryKeepsPromise DEF Promise!MailNext
    <2>4. ASSUME NEW d \in Deliveries, NEW q \in Queues, Claim(d, q) PROVE Promise!MailNext
      BY <2>4, ClaimKeepsPromise DEF Promise!MailNext
    <2> QED BY <1>1, <2>1, <2>2, <2>3, <2>4 DEF Next
  <1>2. CASE UNCHANGED vars
    <2>1. \A n \in Mails : ReportOf(n)' = ReportOf(n)
      BY <1>2, SameDelivered, SameReport DEF vars
    <2>2. UNCHANGED <<posted, unneeded, arrived, reported>>
      BY <1>2, <2>1 DEF vars, posted, unneeded, arrived, reported
    <2> QED BY <2>2 DEF Promise!mailVars, posted, unneeded, arrived, reported
  <1> QED BY <1>1, <1>2 DEF OperationsNext

\* KeepsPromise: the rows, leases, attempts and ledger entries of the e-mail
\* queues implement MailPromise, whatever the bounds: what is reported as sent
\* was accepted for its recipient or is no longer wanted, and reports are final.
THEOREM QueuesKeepPromise == OperationsSpec => KeepsPromise
  <1>1. OperationsInit => Promise!MailInit
    <2> SUFFICES ASSUME OperationsInit PROVE Promise!MailInit
      OBVIOUS
    <2>1. \A m \in Mails : outbox[m].status = "none" /\ transmitted[m] = 0
      <3> DEFINE New == [kind : Kinds, status : {"none"}, attempts : {0}, leased : {FALSE}]
      <3>1. \A row \in New : row.status = "none"
        OBVIOUS
      <3>2. outbox \in [Mails -> New] /\ transmitted = [m \in Mails |-> 0]
        BY DEF OperationsInit, Init
      <3> HIDE DEF New
      <3> QED BY <3>1, <3>2
    <2>2. \A m \in Mails : ReportOf(m) = "open"
      BY <2>1 DEF ReportOf
    <2>3. wanted = Mails
      BY DEF OperationsInit, Init
    <2> QED BY <2>1, <2>2, <2>3 DEF Promise!MailInit
  <1> QED BY <1>1, StepKeepsPromise, MailInvariance, PTL DEF OperationsSpec, KeepsPromise, Promise!MailSpec

-----------------------------------------------------------------------------
(* Reports *)

LEMMA ReportInitType == ReportInit => report \in Reports
  BY ReportAttemptsAssumption, UnfailedEntry DEF ReportInit, Reports

LEMMA AttemptedReport ==
  ASSUME NEW r \in Reports, r.attempts < ReportAttempts
  PROVE  Attempted(r) \in Reports
  <1> DEFINE status == IF r.interview = "MEETING_COMPLETED" THEN "REPORT_PROCESSING" ELSE r.interview
             tried == [r EXCEPT !.attempts = r.attempts + 1]
  <1>1. r.attempts + 1 \in 0..ReportAttempts
    BY ReportAttemptsAssumption DEF Reports
  <1>2. tried \in Reports /\ tried.interview = r.interview
    BY <1>1 DEF Reports
  <1>3. status \in {"MONITORING_ACTIVE", "MEETING_COMPLETED", "REPORT_PROCESSING", "REPORT_READY", "FAILED"}
    BY DEF Reports
  <1>4. Attempted(r) = [tried EXCEPT !.interview = status]
    BY DEF Attempted, Reports
  <1> HIDE DEF tried, status
  <1> QED BY <1>2, <1>3, <1>4 DEF Reports

LEMMA SettledReport ==
  ASSUME NEW r \in Reports,
         NEW status \in {"MONITORING_ACTIVE", "MEETING_COMPLETED", "REPORT_PROCESSING", "REPORT_READY", "FAILED"},
         NEW task \in {"none", "PENDING", "FAILED", "COMPLETED"}, NEW e \in Entries
  PROVE  /\ [r EXCEPT !.interview = status, !.job = task, !.failure = e] \in Reports
         /\ [r EXCEPT !.job = task, !.failure = e, !.interview = status] \in Reports
         /\ [r EXCEPT !.interview = status, !.job = task, !.attempts = 0, !.failure = e] \in Reports
         /\ [r EXCEPT !.job = task, !.failure = e] \in Reports
         /\ [r EXCEPT !.interview = status, !.job = task] \in Reports
         /\ [r EXCEPT !.failure = e] \in Reports
  <1>1. 0 \in 0..ReportAttempts
    BY ReportAttemptsAssumption
  <1> QED BY <1>1 DEF Reports

LEMMA ReportNextType == report \in Reports /\ [ReportNext]_report => report' \in Reports
  <1> SUFFICES ASSUME report \in Reports, [ReportNext]_report PROVE report' \in Reports
    OBVIOUS
  <1>0. report.failure \in Entries
    BY DEF Reports
  <1>1. CASE CompleteMeeting
    BY <1>1, SettledReport, <1>0 DEF CompleteMeeting
  <1>2. CASE ProcessReports
    <2> DEFINE r == Attempted(report)
    <2>1. r \in Reports /\ r.failure \in Entries /\ r.interview
              \in {"MONITORING_ACTIVE", "MEETING_COMPLETED", "REPORT_PROCESSING", "REPORT_READY", "FAILED"}
      BY <1>2, AttemptedReport DEF ProcessReports, Reports
    <2> HIDE DEF r
    <2>2. Generated(r) \in Reports
      BY <2>1, EntriesStay, SettledReport DEF Generated
    <2>3. Failed(r) \in Reports
      BY <2>1, EntriesStay, SettledReport, ZenonT(30) DEF Failed
    <2> QED BY <1>2, <2>2, <2>3 DEF ProcessReports, r
  <1>3. CASE RecoverReports
    <2> DEFINE r == Recovered(report)
    <2>1. r \in Reports
      <3>1. CASE ~Due(report.failure)
        BY <3>1 DEF Recovered
      <3>2. CASE Due(report.failure) /\ report.interview = "REPORT_READY"
        BY <1>0, <3>2, EntriesStay, SettledReport DEF Recovered, Reschedulable
      <3>3. CASE Due(report.failure) /\ Reschedulable(report) /\ ~Hopeless(report.failure)
        BY <1>0, <3>3, RetriedEntry, SettledReport DEF Recovered, Restarted, Reschedulable
      <3>4. CASE ~(~Due(report.failure)
                   \/ (Due(report.failure) /\ report.interview = "REPORT_READY")
                   \/ (Due(report.failure) /\ Reschedulable(report) /\ ~Hopeless(report.failure)))
        BY <1>0, <3>4, EntriesStay, SettledReport DEF Recovered
      <3> QED BY <3>1, <3>2, <3>3, <3>4
    <2>2. r.failure \in Entries
      BY <2>1 DEF Reports
    <2> HIDE DEF r
    <2>3. Requeued(r) \in Reports
      BY <2>1, <2>2, EntriesStay, SettledReport DEF Requeued
    <2> QED BY <1>3, <2>3 DEF RecoverReports, r
  <1> QED BY <1>1, <1>2, <1>3 DEF ReportNext

\* The types of both: above all, attempts and chances stay within their bounds.
THEOREM OperationsTypeCorrect == OperationsSpec => []OperationsTypeOK
  <1> DEFINE ReportOK == report \in Reports
  <1>1. OperationsInit => ReportOK
    BY ReportInitType DEF OperationsInit
  <1>2. ReportOK /\ [OperationsNext]_<<vars, report>> => ReportOK'
    BY ReportNextType DEF OperationsNext
  <1>3. MailInv /\ ReportOK => OperationsTypeOK
    BY DEF MailInv, OperationsTypeOK
  <1> HIDE DEF ReportOK
  <1> QED BY <1>1, <1>2, <1>3, MailInvariance, PTL DEF OperationsSpec
=============================================================================
