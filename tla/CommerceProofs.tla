--------------------------- MODULE CommerceProofs ---------------------------
(***************************************************************************)
(* The credits of an organization: those of its contracts, for any staff,    *)
(* organizations, terms, invoices and payments and any number of             *)
(* confirmations at once; and those of its checkouts, for any number of       *)
(* requests, checkouts, events, workers and attempts, any price and quantity. *)
(***************************************************************************)
EXTENDS Commerce, FiniteSetTheorems, SequenceTheorems, TLAPS

-----------------------------------------------------------------------------
(* Contracts *)

\* An agreement is with a linked customer and about possible terms.
AgreementIsLinked ==
    agreement.state # "none" => lead.organization \in Organizations /\ agreement.terms \in Terms

\* Invoices lock the agreement and are about its terms.
InvoicesAgree ==
    \A i \in Invoices : invoice[i].status # "none" =>
        /\ invoice[i].terms = agreement.terms
        /\ agreement.state \in {"PAYMENT_PENDING", "ACTIVE"}

\* The inductive invariant. Each confirmation at work is about money that was paid.
ContractInv ==
    /\ ContractTypeOK /\ AgreementIsLinked /\ InvoicesAgree
    /\ \A c \in Calls : call[c] # NoPayment => call[c] \in collected
    /\ ContractedOnce

LEMMA NothingPaid == \A a \in Agreements : Cardinality({}) * a.terms = 0
  <1>1. \A a \in Agreements : a.terms \in Nat
    <2>1. Terms \union {0} \subseteq Nat
      BY ContractAssumption
    <2> QED BY <2>1 DEF Agreements
  <1>2. \A n \in Nat : 0 * n = 0
    OBVIOUS
  <1> QED BY <1>1, <1>2, FS_EmptySet

\* While the agreement can be revised or there is none, nothing is paid or posted.
LEMMA NothingPosted ==
  ASSUME ContractInv, agreement.state \in Revisable
  PROVE  Paid = {} /\ posted = [o \in Organizations |-> 0]
  <1>1. Paid = {}
    BY DEF ContractInv, InvoicesAgree, Revisable, Paid
  <1>2. Cardinality(Paid) * agreement.terms = 0
    BY <1>1, NothingPaid DEF ContractInv, ContractTypeOK
  <1> QED BY <1>1, <1>2 DEF ContractInv, ContractedOnce, ContractTypeOK

LEMMA PaidIsFinite == IsFiniteSet(Paid) /\ Cardinality(Paid) \in Nat
  BY ContractAssumption, FS_Subset, FS_CardinalityType DEF Paid

LEMMA ContractInitInv == ContractInit => ContractInv
  <1> SUFFICES ASSUME ContractInit PROVE ContractInv
    OBVIOUS
  <1>1. ContractTypeOK
    BY ContractAssumption DEF ContractInit, ContractTypeOK, StaffRows, Leads, Agreements,
       InvoiceRows, Payments, Nobody, NoOrganization
  <1>2. Paid = {}
    BY DEF ContractInit, Paid
  <1>3. ContractedOnce
    BY <1>2, FS_EmptySet DEF ContractInit, ContractedOnce
  <1> QED BY <1>1, <1>3 DEF ContractInit, ContractInv, AgreementIsLinked, InvoicesAgree

\* The ledger is as before when neither paid invoices nor terms nor customer change.
LEMMA LedgerUntouched ==
  ASSUME ContractedOnce, UNCHANGED posted, Paid' = Paid, collected \subseteq collected',
         lead'.organization = lead.organization, agreement'.terms = agreement.terms
  PROVE  ContractedOnce'
  BY DEF ContractedOnce

LEMMA SalesInv ==
  ASSUME ContractInv, NEW s \in Staff,
         \/ OpenWorkspace
         \/ \E other \in Staff, row \in StaffRows : ManageStaff(s, other, row)
         \/ \E won \in BOOLEAN, owner \in Staff \union {Nobody} : UpdateLead(s, won, owner)
         \/ \E o \in Organizations : ConvertLead(s, o)
         \/ \E t \in Terms : Propose(s, t)
         \/ \E i \in Invoices : IssueInvoice(s, i)
  PROVE  ContractInv'
  <1> USE DEF ContractInv, ContractTypeOK, AgreementIsLinked, InvoicesAgree, salesVars, moneyVars
  <1>1. CASE OpenWorkspace
    <2>1. staff' \in [Staff -> StaffRows]
      BY <1>1, ContractAssumption DEF OpenWorkspace, StaffRows
    <2>2. ContractedOnce'
      BY <1>1 DEF OpenWorkspace, ContractedOnce, Paid
    <2> QED BY <1>1, <2>1, <2>2 DEF OpenWorkspace
  <1>2. ASSUME NEW other \in Staff, NEW row \in StaffRows, ManageStaff(s, other, row)
        PROVE  ContractInv'
    <2>1. staff' \in [Staff -> StaffRows]
      BY <1>2 DEF ManageStaff
    <2>2. ContractedOnce'
      BY <1>2 DEF ManageStaff, ContractedOnce, Paid
    <2> QED BY <1>2, <2>1, <2>2 DEF ManageStaff
  <1>3. ASSUME NEW won \in BOOLEAN, NEW owner \in Staff \union {Nobody}, UpdateLead(s, won, owner)
        PROVE  ContractInv'
    <2>1. lead' \in Leads /\ lead'.organization = lead.organization
      BY <1>3 DEF UpdateLead, Leads
    <2>2. Paid' = Paid
      BY <1>3 DEF UpdateLead, Paid
    <2>3. ContractedOnce'
      BY <1>3, <2>1, <2>2, LedgerUntouched DEF UpdateLead
    <2> QED BY <1>3, <2>1, <2>3 DEF UpdateLead
  <1>4. ASSUME NEW o \in Organizations, ConvertLead(s, o) PROVE ContractInv'
    <2>1. lead' \in Leads /\ lead'.organization = o
      BY <1>4 DEF ConvertLead, Leads
    <2>2. agreement.state = "none"
      BY <1>4, ContractAssumption DEF ConvertLead, NoOrganization
    <2>3. Paid = {} /\ Paid' = Paid /\ posted' = [q \in Organizations |-> 0]
      BY <1>4, <2>2, NothingPosted DEF ConvertLead, Revisable, Paid
    <2>4. Cardinality(Paid') * agreement'.terms = 0
      BY <1>4, <2>3, NothingPaid DEF ConvertLead
    <2>5. ContractedOnce'
      BY <2>3, <2>4 DEF ContractedOnce
    <2> QED BY <1>4, <2>1, <2>2, <2>5 DEF ConvertLead
  <1>5. ASSUME NEW t \in Terms, Propose(s, t) PROVE ContractInv'
    <2>1. /\ agreement' \in Agreements /\ agreement'.terms = t
          /\ lead.organization \in Organizations
      BY <1>5 DEF Propose, Agreements, Revisable, Leads
    <2>2. Paid = {} /\ Paid' = Paid /\ posted' = [q \in Organizations |-> 0]
      BY <1>5, NothingPosted DEF Propose, Paid
    <2>3. Cardinality(Paid') * agreement'.terms = 0
      BY <2>1, <2>2, NothingPaid
    <2>4. ContractedOnce'
      BY <2>2, <2>3 DEF ContractedOnce
    <2>5. \A i \in Invoices : invoice'[i].status = "none"
      BY <1>5 DEF Propose, Revisable
    <2> QED BY <1>5, <2>1, <2>4, <2>5 DEF Propose
  <1>6. ASSUME NEW i \in Invoices, IssueInvoice(s, i) PROVE ContractInv'
    <2>1. /\ agreement' \in Agreements /\ agreement'.terms = agreement.terms
          /\ agreement'.state = "PAYMENT_PENDING" /\ agreement.state \in Invoiceable
      BY <1>6 DEF IssueInvoice, Agreements
    <2>2. invoice' \in [Invoices -> InvoiceRows] /\ invoice'[i].terms = agreement.terms
      BY <1>6 DEF IssueInvoice, InvoiceRows, Agreements
    <2>3. Paid' = Paid
      BY <1>6 DEF IssueInvoice, Paid
    <2>4. ContractedOnce'
      BY <1>6, <2>1, <2>3, LedgerUntouched DEF IssueInvoice
    <2>5. \A j \in Invoices : j # i => invoice'[j] = invoice[j]
      BY <1>6 DEF IssueInvoice
    <2> QED BY <1>6, <2>1, <2>2, <2>4, <2>5 DEF IssueInvoice, Invoiceable
  <1> QED BY <1>1, <1>2, <1>3, <1>4, <1>5, <1>6

\* The payment that is applied is for an open invoice: one more is paid.
LEMMA ApplyPaymentInv ==
  ASSUME ContractInv, NEW c \in Calls, ApplyPayment(c)
  PROVE  ContractInv'
  <1> DEFINE p == call[c]
  <1> USE DEF ContractInv, ContractTypeOK, AgreementIsLinked, InvoicesAgree
  <1>1. p \in Payments /\ p \in collected /\ p.invoice \in Invoices /\ UNCHANGED <<staff, lead, collected>>
    BY DEF ApplyPayment, Payments
  <1>2. call' \in [Calls -> Payments \union {NoPayment}]
        /\ \A d \in Calls : call'[d] # NoPayment => call'[d] \in collected'
    BY DEF ApplyPayment
  <1>3. CASE Payable(p) /\ ~AlreadyRecorded(p)
    <2> DEFINE t == invoice[p.invoice].terms
    <2>1. /\ invoice[p.invoice].status = "OPEN" /\ t = p.terms /\ t = agreement.terms
          /\ lead.organization \in Organizations /\ t \in Terms /\ t \in Nat
      BY <1>1, <1>3, ContractAssumption DEF Payable
    <2>2. /\ recorded' = recorded \union {p}
          /\ invoice' = [invoice EXCEPT ![p.invoice].status = "PAID"]
          /\ agreement' = [agreement EXCEPT !.state = "ACTIVE"]
          /\ posted' = [posted EXCEPT ![lead.organization] = @ + t]
      BY <1>3 DEF ApplyPayment
    <2>3. agreement' \in Agreements /\ agreement'.terms = t /\ agreement'.state = "ACTIVE"
      BY <2>1, <2>2 DEF Agreements
    <2>4. /\ invoice' \in [Invoices -> InvoiceRows]
          /\ invoice'[p.invoice].status = "PAID" /\ invoice'[p.invoice].terms = t
          /\ \A j \in Invoices : j # p.invoice => invoice'[j] = invoice[j]
      BY <1>1, <2>2 DEF InvoiceRows
    <2>5. Paid' = Paid \union {p.invoice} /\ p.invoice \notin Paid
      BY <1>1, <2>1, <2>4 DEF Paid
    <2>6. Cardinality(Paid') = Cardinality(Paid) + 1
      BY <2>5, PaidIsFinite, FS_AddElement
    <2>7. Cardinality(Paid') * t = Cardinality(Paid) * t + t
      <3> HIDE DEF t
      <3> QED BY <2>1, <2>6, PaidIsFinite
    <2>8. posted' \in [Organizations -> Nat]
      BY <2>1, <2>2
    <2>9. ContractedOnce'
      <3>1. posted[lead.organization] = Cardinality(Paid) * t
        BY <2>1 DEF ContractedOnce
      <3>2. \A o \in Organizations : posted'[o] =
              IF o = lead'.organization THEN Cardinality(Paid') * agreement'.terms ELSE 0
        BY <1>1, <2>1, <2>2, <2>3, <2>7, <3>1 DEF ContractedOnce
      <3>3. lead'.organization # NoOrganization
        BY <1>1, <2>1, ContractAssumption DEF NoOrganization
      <3>4. \A i \in Paid' : \E q \in collected' : q.invoice = i /\ q.terms = agreement'.terms
        <4>1. p.invoice = p.invoice /\ p.terms = agreement'.terms /\ p \in collected'
          BY <1>1, <2>1, <2>3
        <4>2. \A i \in Paid : \E q \in collected' : q.invoice = i /\ q.terms = agreement'.terms
          BY <1>1, <2>1, <2>3 DEF ContractedOnce
        <4> QED BY <2>5, <4>1, <4>2
      <3> QED BY <3>2, <3>3, <3>4 DEF ContractedOnce
    <2> QED BY <1>1, <1>2, <2>1, <2>2, <2>3, <2>4, <2>8, <2>9
  <1>4. CASE ~(Payable(p) /\ ~AlreadyRecorded(p))
    <2>1. UNCHANGED <<recorded, invoice, agreement, posted>>
      BY <1>4 DEF ApplyPayment
    <2>2. ContractedOnce'
      BY <1>1, <2>1 DEF ContractedOnce, Paid
    <2> QED BY <1>1, <1>2, <2>1, <2>2
  <1> QED BY <1>3, <1>4

LEMMA ContractStepInv == ContractInv /\ [CommerceNext]_<<vars, contractVars>> => ContractInv'
  <1> SUFFICES ASSUME ContractInv, [CommerceNext]_<<vars, contractVars>> PROVE ContractInv'
    OBVIOUS
  <1> USE DEF ContractInv, ContractTypeOK, AgreementIsLinked, InvoicesAgree, salesVars, moneyVars
  <1>1. CASE ContractNext
    <2>1. ASSUME NEW p \in Payments, Collect(p) PROVE ContractInv'
      BY <2>1 DEF Collect, ContractedOnce, Paid
    <2>2. ASSUME NEW c \in Calls, CallDies(c) \/ \E p \in collected : Confirm(c, p) PROVE ContractInv'
      <3>1. /\ UNCHANGED <<salesVars, moneyVars>>
            /\ \/ call' = [call EXCEPT ![c] = NoPayment]
               \/ \E p \in collected : call' = [call EXCEPT ![c] = p]
        BY <2>2 DEF CallDies, Confirm
      <3>2. call' \in [Calls -> Payments \union {NoPayment}]
            /\ \A d \in Calls : call'[d] # NoPayment => call'[d] \in collected
        BY <3>1
      <3> QED BY <3>1, <3>2, ZenonT(30) DEF ContractedOnce, Paid
    <2> QED BY <1>1, <2>1, <2>2, SalesInv, ApplyPaymentInv, ContractAssumption DEF ContractNext
  <1>2. CASE UNCHANGED contractVars
    BY <1>2 DEF contractVars, ContractedOnce, Paid
  <1> QED BY <1>1, <1>2 DEF CommerceNext

\* Agreement, invoices and ledger of a contract hold together.
THEOREM ContractInvariance == CommerceSpec => []ContractInv
  <1>1. CommerceInit => ContractInv
    BY ContractInitInv DEF CommerceInit
  <1> QED BY <1>1, ContractStepInv, PTL DEF CommerceSpec

\* A confirmed payment adds exactly the contracted credits once, however many
\* confirmations of how many payments overlap and whoever edits the proposal.
THEOREM ContractsPostOnce == CommerceSpec => []ContractedOnce
  <1>1. ContractInv => ContractedOnce
    BY DEF ContractInv
  <1> QED BY <1>1, ContractInvariance, PTL

-----------------------------------------------------------------------------
(* Checkouts *)

\* What refers to a checkout or an event refers to one that exists.
Refers ==
    /\ \A e \in DOMAIN events : events[e].checkout \in Known
    /\ \A e \in EventIds : inbox[e].status # "none" => e \in DOMAIN events
    /\ IsFiniteSet(jobs) /\ \A j \in jobs : j.event \in DOMAIN events
    /\ \A r \in Requests : request[r].step \in {"activate", "order", "store"} =>
          request[r].checkout \in Known
    /\ \A r \in Requests : At(r, "activate") => request[r].type # "payment.succeeded" /\ "PROFESSIONAL" \in Purposes

\* What is acknowledged, or about to be, has been applied, unless it may be let go.
Acknowledged(e) == ~Dismissible(e) => Webhook(e) \in applied

AcknowledgedIsApplied ==
    /\ \A e \in DOMAIN events : inbox[e].status = "PROCESSED" => Acknowledged(e)
    /\ \A j \in jobs : j.step = "complete" => Acknowledged(j.event)

\* A purchase of extra credits is paid once and stays paid.
PaidOnce ==
    \A c \in Known : checkout[c].purpose = "EXTRA_CREDITS" =>
        \A e \in DOMAIN events : IsPaymentOf(c, e) =>
            /\ remote[c] = "paid"
            /\ \A f \in DOMAIN events : IsPaymentOf(c, f) => f = e

\* What is recorded stems from an event that was applied.
RecordedIsApplied ==
    \A c \in Checkouts :
        /\ payment[c].recorded => \E e \in DOMAIN events : IsPaymentOf(c, e) /\ Webhook(e) \in applied
        /\ ~payment[c].recorded => payment[c].refunded = 0

\* "due" adds up, event by event, the refunds of a checkout that are yet to be applied.
DueOf(c, e) ==
    IF events[e].type = "refund.succeeded" /\ events[e].checkout = c /\ Webhook(e) \notin applied
    THEN events[e].amount ELSE 0

AddsUp(c, due) ==
    /\ due[0] = 0
    /\ \A e \in DOMAIN events : due[e] = due[e - 1] + DueOf(c, e)
    /\ \A d, e \in 0..Len(events) : d <= e => due[d] <= due[e]

\* No more was refunded here, and is about to be, than was by the provider.
RefundsCovered(c) ==
    \E due \in [0..Len(events) -> Nat] :
        AddsUp(c, due) /\ payment[c].refunded + due[Len(events)] <= refunds[c]

\* The credits of a checkout follow its payment.
CreditsFollow(c) ==
    /\ credits[c].bought = IF c \in Known /\ checkout[c].purpose = "EXTRA_CREDITS" /\ payment[c].recorded
                           THEN Quantity ELSE 0
    /\ credits[c].reversed = IF credits[c].bought = 0 THEN 0 ELSE Share(payment[c].refunded)

\* The inductive invariant.
BillingInv ==
    /\ TypeOK /\ Refers /\ AcknowledgedIsApplied
    /\ PaidOnce /\ RecordedIsApplied
    /\ \A c \in Checkouts : CreditsFollow(c) /\ RefundsCovered(c)
LEMMA Bounds ==
  /\ MaxCheckouts \in Nat \ {0} /\ MaxEvents \in Nat \ {0} /\ MaxAttempts \in Nat \ {0}
  /\ MaxJobs \in Nat \ {0} /\ Quantity \in Nat \ {0} /\ Price \in Nat \ {0}
  BY BoundsAssumption

LEMMA Smaller ==
  ASSUME NEW a \in Nat, NEW b \in Nat
  PROVE  Min({a, b}) = IF a <= b THEN a ELSE b
  BY DEF Min

LEMMA Larger ==
  ASSUME NEW a \in Nat, NEW b \in Nat
  PROVE  Max({a, b}) = IF a >= b THEN a ELSE b
  BY DEF Max

\* Quotients grow with what is divided.
LEMMA QuotientGrows ==
  ASSUME NEW p \in Nat \ {0}, NEW a \in Nat, NEW b \in Nat, a <= b
  PROVE  a \div p \in Nat /\ a \div p <= b \div p
  <1> DEFINE q == a \div p
             u == b \div p
  <1>1. q \in Nat /\ u \in Nat
    OBVIOUS
  <1>2. p * q <= a /\ b < p * u + p
    OBVIOUS
  <1>3. p * q < p * u + p
    <2> HIDE DEF q, u
    <2>1. p * q \in Nat /\ p * u \in Nat
      BY <1>1
    <2> QED BY <1>1, <1>2, <2>1
  <1>4. q <= u
    <2> HIDE DEF q, u
    <2> SUFFICES ASSUME u < q PROVE FALSE
      BY <1>1
    <2>1. PICK k \in Nat : q = u + 1 + k
      <3>1. q - u - 1 \in Nat /\ q = u + 1 + (q - u - 1)
        BY <1>1
      <3> QED BY <3>1
    <2>2. p * q = p * u + p + p * k
      BY <1>1, <2>1
    <2>3. p * u \in Nat /\ p * k \in Nat
      BY <1>1, <2>1
    <2> QED BY <1>3, <2>2, <2>3
  <1> QED BY <1>1, <1>4

\* The share that a refund takes back is never more than was bought, nothing while
\* nothing is refunded, and grows with what is.
LEMMA ShareGrows ==
  ASSUME NEW x \in Nat, NEW y \in Nat, x <= y
  PROVE  Share(x) \in 0..Quantity /\ Share(0) = 0 /\ Share(x) <= Share(y)
  <1> DEFINE portion(z) == (z * Quantity + Price - 1) \div Price
  <1>1. \A z \in Nat : z * Quantity + Price - 1 \in Nat
    <2>1. \A z \in Nat : z * Quantity \in Nat
      BY Bounds
    <2> QED BY <2>1, Bounds
  <1>2. x * Quantity <= y * Quantity
    <2>1. PICK k \in Nat : y = x + k
      <3> WITNESS y - x \in Nat
      <3> QED OBVIOUS
    <2>2. y * Quantity = x * Quantity + k * Quantity
      BY <2>1, Bounds
    <2>3. x * Quantity \in Nat /\ k * Quantity \in Nat
      BY <2>1, Bounds
    <2> QED BY <2>2, <2>3
  <1>3. x * Quantity \in Nat /\ y * Quantity \in Nat
    BY Bounds
  <1>4. x * Quantity + Price - 1 <= y * Quantity + Price - 1
    BY <1>2, <1>3, Bounds
  <1>5. portion(x) \in Nat /\ portion(y) \in Nat /\ portion(x) <= portion(y)
    BY <1>1, <1>4, QuotientGrows, Bounds
  <1>6. portion(0) = 0
    <2>1. 0 * Quantity = 0
      BY Bounds
    <2>2. (Price - 1) \div Price = 0
      BY Bounds
    <2> QED BY <2>1, <2>2, Bounds
  <1>7. \A z \in Nat : portion(z) \in Nat => Share(z) = IF Quantity <= portion(z) THEN Quantity ELSE portion(z)
    <2> HIDE DEF portion
    <2>1. \A z \in Nat : portion(z) \in Nat => Min({Quantity, portion(z)}) =
             IF Quantity <= portion(z) THEN Quantity ELSE portion(z)
      BY Smaller, Bounds
    <2> QED BY <2>1 DEF Share, portion
  <1> HIDE DEF portion
  <1> QED BY <1>5, <1>6, <1>7, Bounds

-----------------------------------------------------------------------------
\* What one event does to the account, whoever applies it.
Plans == [name : {"STARTER", "PROFESSIONAL"}, status : {"ACTIVE", "PAST_DUE"},
          source : Checkouts \union {None}, at : 0..MaxEvents]
PaymentRows == [recorded : BOOLEAN, refunded : 0..Price]
CreditRows == [bought : Nat, reversed : Nat]

AccountTypeOK ==
    /\ checkout \in Seq(Intents) /\ Len(checkout) <= MaxCheckouts
    /\ applied \subseteq (EventIds \X {"webhook"}) \union (Checkouts \X EventTypes)
    /\ mapped \subseteq Checkouts
    /\ plan \in Plans
    /\ payment \in [Checkouts -> PaymentRows]
    /\ credits \in [Checkouts -> CreditRows]

\* No purchase is forgotten or becomes another.
SamePurchases ==
    /\ Len(checkout') >= Len(checkout)
    /\ \A c \in Known : checkout'[c].purpose = checkout[c].purpose

LEMMA StatusTyped ==
  ASSUME checkout \in Seq(Intents), NEW c \in Known, NEW status \in {"PENDING", "COMPLETED", "ACTIVATED", "FAILED"}
  PROVE  /\ [checkout EXCEPT ![c].status = status] \in Seq(Intents)
         /\ Len([checkout EXCEPT ![c].status = status]) = Len(checkout)
         /\ \A d \in Known : [checkout EXCEPT ![c].status = status][d].purpose = checkout[d].purpose
  <1>1. c \in 1..Len(checkout) /\ checkout[c] \in Intents
    BY DEF Known
  <1> DEFINE row == [checkout[c] EXCEPT !.status = status]
  <1>2. row \in Intents /\ row.purpose = checkout[c].purpose
    BY <1>1 DEF Intents
  <1>3. [checkout EXCEPT ![c].status = status] = [checkout EXCEPT ![c] = row]
    OBVIOUS
  <1> HIDE DEF row
  <1>4. /\ [checkout EXCEPT ![c] = row] \in Seq(Intents)
        /\ Len([checkout EXCEPT ![c] = row]) = Len(checkout)
        /\ \A d \in 1..Len(checkout) : [checkout EXCEPT ![c] = row][d] = IF d = c THEN row ELSE checkout[d]
    BY <1>1, <1>2, ExceptSeq
  <1> QED BY <1>2, <1>3, <1>4 DEF Known

LEMMA PlanTyped ==
  ASSUME plan \in Plans, NEW type, NEW c \in Checkouts, NEW authorized \in BOOLEAN, NEW at \in 0..MaxEvents
  PROVE  PlanAfter(type, c, authorized, at) \in Plans
  <1>1. [name |-> "PROFESSIONAL", status |-> "ACTIVE", source |-> c, at |-> at] \in Plans
    BY DEF Plans
  <1>2. [name |-> "STARTER", status |-> "ACTIVE", source |-> None, at |-> at] \in Plans
    BY DEF Plans
  <1>3. [plan EXCEPT !.status = "PAST_DUE", !.at = at] \in Plans
    BY DEF Plans
  <1> QED BY <1>1, <1>2, <1>3 DEF PlanAfter, PlanEffect

LEMMA EventTyped ==
  ASSUME AccountTypeOK,
         NEW id \in (EventIds \X {"webhook"}) \union (Checkouts \X EventTypes),
         NEW type \in EventTypes, NEW c \in Known, NEW authorized \in BOOLEAN, NEW at \in 0..MaxEvents,
         ApplyBillingEvent(id, type, c, authorized, at)
  PROVE  AccountTypeOK' /\ SamePurchases /\ Len(checkout') = Len(checkout)
  <1>1. c \in Checkouts /\ checkout[c] \in Intents
    BY Bounds DEF AccountTypeOK, Known, Checkouts
  <1>2. applied' \subseteq (EventIds \X {"webhook"}) \union (Checkouts \X EventTypes)
    BY DEF ApplyBillingEvent, AccountTypeOK
  <1>3. CASE UNCHANGED <<checkout, mapped, plan, payment, credits>>
    BY <1>2, <1>3 DEF AccountTypeOK, SamePurchases
  <1>4. CASE /\ checkout' = [checkout EXCEPT ![c].status = StatusAfter(type, c, authorized, at)]
             /\ plan' = PlanAfter(type, c, authorized, at)
             /\ mapped' = IF Attributed(type, c, at, authorized) THEN mapped \union {c} ELSE mapped
             /\ payment' = [payment EXCEPT ![c].recorded = @ \/ type = "payment.succeeded"]
             /\ credits' = IF type = "payment.succeeded" /\ checkout[c].purpose = "EXTRA_CREDITS"
                           THEN [credits EXCEPT ![c].bought = @ + Quantity] ELSE credits
    <2>1. StatusAfter(type, c, authorized, at) \in {"PENDING", "COMPLETED", "ACTIVATED", "FAILED"}
      BY <1>1 DEF StatusAfter, Intents
    <2>2. /\ checkout' \in Seq(Intents) /\ Len(checkout') = Len(checkout)
          /\ \A d \in Known : checkout'[d].purpose = checkout[d].purpose
      <3> DEFINE status == StatusAfter(type, c, authorized, at)
      <3>1. checkout' = [checkout EXCEPT ![c].status = status] /\ checkout \in Seq(Intents)
            /\ status \in {"PENDING", "COMPLETED", "ACTIVATED", "FAILED"}
        BY <1>4, <2>1 DEF AccountTypeOK
      <3> HIDE DEF status
      <3>2. /\ [checkout EXCEPT ![c].status = status] \in Seq(Intents)
            /\ Len([checkout EXCEPT ![c].status = status]) = Len(checkout)
            /\ \A d \in Known : [checkout EXCEPT ![c].status = status][d].purpose = checkout[d].purpose
        BY <3>1, StatusTyped, Zenon
      <3> QED BY <3>1, <3>2, Zenon
    <2>3. plan' \in Plans
      BY <1>1, <1>4, PlanTyped DEF AccountTypeOK
    <2>4. payment' \in [Checkouts -> PaymentRows]
      BY <1>1, <1>4 DEF AccountTypeOK, PaymentRows
    <2>5. credits' \in [Checkouts -> CreditRows]
      BY <1>1, <1>4, Bounds DEF AccountTypeOK, CreditRows
    <2>6. mapped' \subseteq Checkouts
      BY <1>1, <1>4 DEF AccountTypeOK
    <2> QED BY <1>2, <2>2, <2>3, <2>4, <2>5, <2>6 DEF AccountTypeOK, SamePurchases
  <1> QED BY <1>3, <1>4 DEF ApplyBillingEvent

LEMMA ReversalTyped ==
  ASSUME AccountTypeOK, NEW e \in EventIds, NEW c \in Known, NEW amount \in Amounts,
         ApplyBillingReversal(e, c, amount)
  PROVE  AccountTypeOK' /\ UNCHANGED checkout
  <1>1. c \in Checkouts /\ checkout[c] \in Intents
    BY Bounds DEF AccountTypeOK, Known, Checkouts
  <1>2. applied' \subseteq (EventIds \X {"webhook"}) \union (Checkouts \X EventTypes)
    BY DEF ApplyBillingReversal, AccountTypeOK, Webhook
  <1> DEFINE refunded == Min({payment[c].refunded + amount, Price})
  <1>3. payment[c].refunded \in Nat /\ amount \in Nat /\ credits[c].reversed \in Nat
    BY <1>1, Bounds DEF AccountTypeOK, PaymentRows, CreditRows, Amounts
  <1>4. refunded \in 0..Price
    <2>1. payment[c].refunded + amount \in Nat
      BY <1>3
    <2> QED BY <2>1, Smaller, Bounds
  <1>5. Share(refunded) \in Nat
    <2> HIDE DEF refunded
    <2>1. Share(refunded) \in 0..Quantity
      BY <1>4, ShareGrows, Bounds
    <2> QED BY <2>1, Bounds
  <1>6. Max({credits[c].reversed, Share(refunded)}) \in Nat
    <2> HIDE DEF refunded
    <2> QED BY <1>3, <1>5, Larger
  <1>7. CASE UNCHANGED <<plan, payment, credits>>
    BY <1>2, <1>7 DEF AccountTypeOK, ApplyBillingReversal
  <1>8. CASE /\ payment' = [payment EXCEPT ![c].refunded = refunded]
             /\ credits' = IF checkout[c].purpose = "EXTRA_CREDITS"
                           THEN [credits EXCEPT ![c].reversed = Max({@, Share(refunded)})] ELSE credits
             /\ plan' = IF refunded = Price /\ plan.source = c /\ plan.at <= e
                        THEN [plan EXCEPT !.status = "PAST_DUE", !.at = e] ELSE plan
    <2> HIDE DEF refunded
    <2>1. payment' \in [Checkouts -> PaymentRows]
      BY <1>1, <1>4, <1>8 DEF AccountTypeOK, PaymentRows
    <2>2. credits' \in [Checkouts -> CreditRows]
      BY <1>1, <1>6, <1>8 DEF AccountTypeOK, CreditRows
    <2>3. plan' \in Plans
      <3>1. [plan EXCEPT !.status = "PAST_DUE"] \in Plans
        BY DEF AccountTypeOK, Plans
      <3> DEFINE due == [plan EXCEPT !.status = "PAST_DUE"]
      <3>2. [plan EXCEPT !.status = "PAST_DUE", !.at = e] = [due EXCEPT !.at = e]
        OBVIOUS
      <3> HIDE DEF due
      <3>3. e \in 0..MaxEvents
        BY Bounds DEF EventIds
      <3>4. due \in Plans => [due EXCEPT !.at = e] \in Plans
        BY <3>3 DEF Plans
      <3> QED BY <1>8, <3>1, <3>2, <3>4 DEF AccountTypeOK, due
    <2> QED BY <1>2, <2>1, <2>2, <2>3 DEF AccountTypeOK, ApplyBillingReversal
  <1> QED BY <1>7, <1>8 DEF ApplyBillingReversal

LEMMA RecoveryTyped ==
  ASSUME AccountTypeOK, NEW e \in EventIds, NEW c \in Known, ApplyDunningRecovery(e, c)
  PROVE  AccountTypeOK' /\ UNCHANGED checkout
  <1>1. c \in Checkouts
    BY Bounds DEF AccountTypeOK, Known, Checkouts
  <1>2. applied' \subseteq (EventIds \X {"webhook"}) \union (Checkouts \X EventTypes)
    BY DEF ApplyDunningRecovery, AccountTypeOK, Webhook
  <1>3. plan' \in Plans
    BY <1>1, Bounds DEF ApplyDunningRecovery, AccountTypeOK, Plans, EventIds
  <1> QED BY <1>2, <1>3 DEF ApplyDunningRecovery, AccountTypeOK

-----------------------------------------------------------------------------
\* Types, and that nothing refers to what does not exist.
Sound == TypeOK /\ Refers

LEMMA BillingInitSound == Init => Sound
  <1> SUFFICES ASSUME Init PROVE Sound
    OBVIOUS
  <1>1. TypeOK
    <2>1. checkout \in Seq(Intents) /\ Len(checkout) = 0 /\ events \in Seq(Events) /\ Len(events) = 0
      BY DEF Init
    <2>2. jobs = {} /\ Cardinality(jobs) = 0
      BY FS_EmptySet DEF Init
    <2> QED BY <2>1, <2>2, Bounds DEF Init, TypeOK, Remotes, Rows, Amounts, Jobs
  <1>2. Refers
    BY FS_EmptySet DEF Init, Refers, Unasked, At
  <1> QED BY <1>1, <1>2 DEF Sound

\* The provider adds an event about the checkout: money comes in once, and goes
\* back as the event says.
ReportedAs(c, type, says, amount, state) ==
    /\ events' = Append(events, Event(type, c, says, amount))
    /\ remote' = [remote EXCEPT ![c] = state]
    /\ checkout[c].purpose = "EXTRA_CREDITS" =>
          IF type = "payment.succeeded" THEN remote[c] = "open" /\ state = "paid" ELSE state = remote[c]
    /\ IF type = "refund.succeeded"
       THEN amount \in 1..(Price - refunds[c]) /\ refunds' = [refunds EXCEPT ![c] = @ + amount]
       ELSE UNCHANGED refunds

Reported(c) ==
    /\ \E type \in EventTypes, says \in Says, amount \in Amounts, state \in Remotes :
          ReportedAs(c, type, says, amount, state)
    /\ Len(events) < MaxEvents
    /\ UNCHANGED <<checkout, queueVars, accountVars, request>>

LEMMA ProviderReports ==
  ASSUME TypeOK, NEW c \in Known, Pays(c) \/ Collects(c) \/ Lifecycle(c) \/ Refunds(c)
  PROVE  Reported(c)
  <1>0. c \in Checkouts
    BY Bounds DEF TypeOK, Known, Checkouts
  <1>1. ASSUME NEW type \in EventTypes, NEW says \in Says, NEW amount \in Amounts,
               NEW state \in Remotes, NEW states,
               Reports(c, states, state, Event(type, c, says, amount)),
               checkout[c].purpose = "EXTRA_CREDITS" =>
                  IF type = "payment.succeeded" THEN remote[c] = "open" /\ state = "paid" ELSE state = remote[c],
               IF type = "refund.succeeded"
               THEN amount \in 1..(Price - refunds[c]) /\ refunds' = [refunds EXCEPT ![c] = @ + amount]
               ELSE UNCHANGED refunds
        PROVE  Reported(c)
    <2>1. ReportedAs(c, type, says, amount, state)
      BY <1>1 DEF ReportedAs, Reports
    <2> QED BY <1>1, <2>1 DEF Reported, Reports
  <1>2. 0 \in Amounts /\ Price \in Amounts /\ remote[c] \in Remotes
    BY <1>0, Bounds DEF Amounts, TypeOK
  <1>a. Attributions \subseteq Says /\ "nothing" \in Says
    BY BoundsAssumption DEF Says
  <1>3. CASE Pays(c)
    <2>1. CASE checkout[c].purpose = "EXTRA_CREDITS"
      <3>1. PICK says \in Attributions :
               Reports(c, {"open"}, "paid", Event("payment.succeeded", c, says, Price)) /\ UNCHANGED refunds
        BY <1>3, <2>1 DEF Pays
      <3>2. remote[c] = "open"
        BY <3>1 DEF Reports
      <3> QED BY <1>1, <1>2, <1>a, <3>1, <3>2 DEF EventTypes, Remotes
    <2>2. CASE checkout[c].purpose = "PROFESSIONAL"
      <3>1. PICK says \in Attributions :
               Reports(c, {"open"}, "active", Event("subscription.active", c, says, 0)) /\ UNCHANGED refunds
        BY <1>3, <2>2 DEF Pays
      <3> QED BY <1>1, <1>2, <1>a, <2>2, <3>1 DEF EventTypes, Remotes
    <2> QED BY <1>3, <2>1, <2>2 DEF Pays
  <1>4. CASE Collects(c)
    <2>1. PICK says \in Attributions :
             /\ Reports(c, {"active", "on_hold", "ended"}, remote[c], Event("payment.succeeded", c, says, Price))
             /\ UNCHANGED refunds /\ checkout[c].purpose = "PROFESSIONAL"
      BY <1>4 DEF Collects
    <2> QED BY <1>1, <1>2, <1>a, <2>1 DEF EventTypes
  <1>5. CASE Lifecycle(c)
    <2>1. checkout[c].purpose = "PROFESSIONAL" /\ UNCHANGED refunds
      BY <1>5 DEF Lifecycle
    <2>3. PICK says \in Attributions :
             \/ Reports(c, {"open"}, "failed", Event("subscription.failed", c, says, 0))
             \/ Reports(c, {"active"}, "on_hold", Event("subscription.on_hold", c, says, 0))
             \/ Reports(c, {"on_hold"}, "active", Event("dunning.recovered", c, says, 0))
             \/ Reports(c, {"active", "on_hold"}, "ended", Event("subscription.cancelled", c, says, 0))
      BY <1>5 DEF Lifecycle
    <2>2. ASSUME NEW type \in EventTypes \ {"refund.succeeded"}, NEW told \in Says,
                 NEW state \in Remotes, NEW states,
                 Reports(c, states, state, Event(type, c, told, 0))
          PROVE  Reported(c)
      BY <1>1, <1>2, <2>1, <2>2
    <2> QED BY <1>a, <2>2, <2>3 DEF EventTypes, Remotes
  <1>6. CASE Refunds(c)
    <2>1. PICK amount \in 1..(Price - refunds[c]) :
              /\ Reports(c, {remote[c]}, remote[c], Event("refund.succeeded", c, "nothing", amount))
              /\ refunds' = [refunds EXCEPT ![c] = @ + amount]
      BY <1>6 DEF Refunds
    <2>2. amount \in Amounts
      BY <1>0, Bounds DEF Amounts, TypeOK
    <2> QED BY <1>1, <1>2, <1>a, <2>1, <2>2 DEF EventTypes
  <1> QED BY <1>3, <1>4, <1>5, <1>6

LEMMA ReportedSound ==
  ASSUME Sound, NEW c \in Known, Reported(c)
  PROVE  /\ Sound' /\ Len(events') = Len(events) + 1
         /\ \A e \in DOMAIN events : events'[e] = events[e]
  <1>0. c \in Checkouts /\ Len(events) \in Nat
    BY Bounds DEF Sound, TypeOK, Known, Checkouts
  <1>1. PICK type \in EventTypes, says \in Says, amount \in Amounts, state \in Remotes :
          ReportedAs(c, type, says, amount, state)
    BY DEF Reported
  <1> DEFINE new == Event(type, c, says, amount)
  <1>2. new \in Events /\ new.checkout = c
    BY <1>0 DEF Event, Events, Says
  <1> HIDE DEF new
  <1>3. /\ events' \in Seq(Events) /\ Len(events') = Len(events) + 1
        /\ \A e \in 1..Len(events) : events'[e] = events[e]
        /\ events'[Len(events) + 1] = new
    BY <1>1, <1>2, AppendProperties DEF Sound, TypeOK, new, ReportedAs
  <1>4. DOMAIN events = 1..Len(events) /\ DOMAIN events' = 1..(Len(events) + 1)
    BY <1>3 DEF Sound, TypeOK
  <1>5. remote' \in [Checkouts -> Remotes]
    BY <1>1 DEF ReportedAs, Sound, TypeOK
  <1>6. refunds' \in [Checkouts -> Amounts]
    <2>1. CASE UNCHANGED refunds
      BY <2>1 DEF Sound, TypeOK
    <2>2. ASSUME NEW more \in 1..(Price - refunds[c]), refunds' = [refunds EXCEPT ![c] = @ + more]
          PROVE  refunds' \in [Checkouts -> Amounts]
      <3>1. refunds[c] \in 0..Price
        BY <1>0 DEF Sound, TypeOK, Amounts
      <3>2. refunds[c] + more \in Amounts
        BY <3>1, Bounds DEF Amounts
      <3> QED BY <2>2, <3>2 DEF Sound, TypeOK
    <2> QED BY <1>1, <2>1, <2>2 DEF ReportedAs
  <1>7. UNCHANGED <<checkout, inbox, jobs, applied, mapped, plan, payment, credits, request>>
        /\ Len(events) < MaxEvents
    BY DEF Reported, queueVars, accountVars
  <1>8. TypeOK'
    BY <1>0, <1>3, <1>5, <1>6, <1>7, Bounds, SMTT(30) DEF Sound, TypeOK
  <1>9. Refers'
    <2>1. \A e \in DOMAIN events' : events'[e].checkout \in Known'
      BY <1>0, <1>2, <1>3, <1>4, <1>7 DEF Sound, Refers, Known
    <2>2. DOMAIN events \subseteq DOMAIN events'
      BY <1>0, <1>4
    <2> QED BY <1>7, <2>1, <2>2 DEF Sound, Refers, Known, At
  <1> QED BY <1>3, <1>4, <1>8, <1>9 DEF Sound

RequestMoves(r) ==
    \E next \in Waiting \union {Unasked, Answered} :
        /\ request' = [request EXCEPT ![r] = next]
        /\ next.step \in {"activate", "order", "store"} => next.checkout \in DOMAIN checkout'
        /\ next.step = "activate" => next.type # "payment.succeeded" /\ "PROFESSIONAL" \in Purposes

\* What a request does, as far as types and references go.
Requested(r) ==
    /\ \/ UNCHANGED checkout
       \/ \E c \in Known : checkout' = [checkout EXCEPT ![c].status = "FAILED"]
       \/ \E c \in Known : checkout' = [checkout EXCEPT ![c].status = "COMPLETED", ![c].bound = TRUE]
       \/ /\ Len(checkout) < MaxCheckouts
          /\ \E p \in Purposes :
                checkout' = Append(checkout, [purpose |-> p, status |-> "PENDING", bound |-> FALSE])
    /\ \/ UNCHANGED remote
       \/ \E c \in Known : remote[c] = "none" /\ remote' = [remote EXCEPT ![c] = "open"]
    /\ RequestMoves(r)
    /\ UNCHANGED <<refunds, events, queueVars, accountVars>>

CheckoutsTyped ==
    /\ checkout' \in Seq(Intents) /\ Len(checkout') <= MaxCheckouts
    /\ Len(checkout') >= Len(checkout)
    /\ \A d \in Known : checkout'[d].purpose = checkout[d].purpose

LEMMA RequestedSound ==
  ASSUME Sound, NEW r \in Requests, Requested(r)
  PROVE  Sound' /\ SamePurchases
  <1>1. CheckoutsTyped
    <2> USE DEF CheckoutsTyped
    <2>0. checkout \in Seq(Intents) /\ Len(checkout) <= MaxCheckouts /\ Len(checkout) \in Nat
      BY DEF Sound, TypeOK
    <2>1. CASE UNCHANGED checkout
      BY <2>0, <2>1 DEF Known
    <2>2. ASSUME NEW c \in Known, checkout' = [checkout EXCEPT ![c].status = "FAILED"]
          PROVE  CheckoutsTyped
      <3>1. /\ [checkout EXCEPT ![c].status = "FAILED"] \in Seq(Intents)
            /\ Len([checkout EXCEPT ![c].status = "FAILED"]) = Len(checkout)
            /\ \A d \in Known : [checkout EXCEPT ![c].status = "FAILED"][d].purpose = checkout[d].purpose
        BY <2>0, StatusTyped, Zenon
      <3>2. /\ checkout' \in Seq(Intents) /\ Len(checkout') = Len(checkout)
            /\ \A d \in Known : checkout'[d].purpose = checkout[d].purpose
        BY <2>2, <3>1, Zenon
      <3> QED BY <2>0, <3>2
    <2>3. ASSUME NEW c \in Known, checkout' = [checkout EXCEPT ![c].status = "COMPLETED", ![c].bound = TRUE]
          PROVE  CheckoutsTyped
      <3> DEFINE row == [checkout[c] EXCEPT !.status = "COMPLETED", !.bound = TRUE]
      <3>1. c \in 1..Len(checkout) /\ checkout[c] \in Intents
        BY <2>0 DEF Known
      <3>2. row \in Intents /\ row.purpose = checkout[c].purpose
        BY <3>1 DEF Intents
      <3>3. checkout' = [checkout EXCEPT ![c] = row]
        BY <2>0, <2>3, <3>1
      <3> HIDE DEF row
      <3>4. /\ checkout' \in Seq(Intents) /\ Len(checkout') = Len(checkout)
            /\ \A d \in 1..Len(checkout) : checkout'[d] = IF d = c THEN row ELSE checkout[d]
        BY <2>0, <3>1, <3>2, <3>3, ExceptSeq
      <3> QED BY <2>0, <3>2, <3>4 DEF Known
    <2>4. ASSUME Len(checkout) < MaxCheckouts, NEW p \in Purposes,
                 checkout' = Append(checkout, [purpose |-> p, status |-> "PENDING", bound |-> FALSE])
          PROVE  CheckoutsTyped
      <3>1. [purpose |-> p, status |-> "PENDING", bound |-> FALSE] \in Intents
        BY DEF Intents
      <3> QED BY <2>0, <2>4, <3>1, AppendProperties, Bounds DEF Known
    <2> QED BY <2>1, <2>2, <2>3, <2>4 DEF Requested
  <1>2. Known \subseteq DOMAIN checkout'
    BY <1>1 DEF Known, Sound, TypeOK, CheckoutsTyped
  <1>3. remote' \in [Checkouts -> Remotes]
    BY DEF Requested, Sound, TypeOK, Remotes
  <1>4. PICK next \in Waiting \union {Unasked, Answered} :
          /\ request' = [request EXCEPT ![r] = next]
          /\ next.step \in {"activate", "order", "store"} => next.checkout \in DOMAIN checkout'
          /\ next.step = "activate" => next.type # "payment.succeeded" /\ "PROFESSIONAL" \in Purposes
    BY DEF Requested, RequestMoves
  <1>5. request' \in [Requests -> Waiting \union {Unasked, Answered}]
    BY <1>4 DEF Sound, TypeOK
  <1>6. UNCHANGED <<refunds, events, inbox, jobs, applied, mapped, plan, payment, credits>>
    BY DEF Requested, queueVars, accountVars
  <1>7. TypeOK'
    BY <1>1, <1>3, <1>5, <1>6 DEF Sound, TypeOK, CheckoutsTyped
  <1>8. \A q \in Requests : request'[q] = IF q = r THEN next ELSE request[q]
    BY <1>4 DEF Sound, TypeOK
  <1>9. Refers'
    BY <1>2, <1>4, <1>6, <1>8 DEF Sound, Refers, Known, At
  <1> QED BY <1>1, <1>7, <1>9 DEF Sound, SamePurchases, CheckoutsTyped

\* What a waiting request names.
LEMMA RequestNames ==
  ASSUME Sound, NEW r \in Requests
  PROVE  /\ At(r, "begin") \/ At(r, "insert") => request[r].purpose \in Purposes
         /\ At(r, "order") \/ At(r, "store") => request[r].checkout \in Known
         /\ At(r, "activate") => /\ request[r].checkout \in Known /\ request[r].type \in EventTypes
                                 /\ request[r].type # "payment.succeeded" /\ "PROFESSIONAL" \in Purposes
         /\ At(r, "begin") => request[r] \in [step : {"begin", "insert"}, purpose : Purposes]
         /\ At(r, "order") => request[r] \in [step : {"order", "store"}, checkout : Checkouts]
  <1>1. request[r] \in Waiting \union {Unasked, Answered}
    BY DEF Sound, TypeOK
  <1>2. At(r, "begin") \/ At(r, "insert") => request[r].purpose \in Purposes
    BY <1>1 DEF Waiting, Unasked, Answered, At
  <1>3. At(r, "activate") => request[r].type \in EventTypes
    BY <1>1 DEF Waiting, Unasked, Answered, At
  <1>4. At(r, "begin") => request[r] \in [step : {"begin", "insert"}, purpose : Purposes]
    BY <1>1 DEF Waiting, Unasked, Answered, At
  <1>5. At(r, "order") => request[r] \in [step : {"order", "store"}, checkout : Checkouts]
    BY <1>1 DEF Waiting, Unasked, Answered, At
  <1> QED BY <1>2, <1>3, <1>4, <1>5 DEF Sound, Refers, At

\* What a request may do next.
LEMMA NextOfRequest ==
  /\ \A p \in Purposes, step \in {"begin", "insert"} :
        [step |-> step, purpose |-> p] \in Waiting
  /\ \A c \in Known, step \in {"order", "store"} : Sound => [step |-> step, checkout |-> c] \in Waiting
  /\ \A c \in Known, type \in EventTypes : Sound => [step |-> "activate", checkout |-> c, type |-> type] \in Waiting
  <1>1. Sound => Known \subseteq Checkouts
    BY Bounds DEF Sound, TypeOK, Known, Checkouts
  <1> QED BY <1>1 DEF Waiting

LEMMA RequestOrders ==
  ASSUME Sound, NEW r \in Requests, NEW c \in Known, c \in DOMAIN checkout',
         Goes(r, [step |-> "order", checkout |-> c])
  PROVE  RequestMoves(r)
  <1> DEFINE next == [step |-> "order", checkout |-> c]
  <1>1. next \in Waiting /\ next.step = "order" /\ next.checkout = c
    BY NextOfRequest
  <1>2. request' = [request EXCEPT ![r] = next]
    BY DEF Goes
  <1> HIDE DEF next
  <1> QED BY <1>1, <1>2 DEF RequestMoves

LEMMA RequestEnds ==
  ASSUME NEW r \in Requests, Answers(r)
  PROVE  RequestMoves(r)
  <1>1. request' = [request EXCEPT ![r] = Answered] /\ Answered.step = "answered"
    BY DEF Answers, Goes, Answered
  <1> QED BY <1>1 DEF RequestMoves

LEMMA RequestsAreRequested ==
  ASSUME Sound, NEW r \in Requests,
         \/ \E p \in Purposes : CreateCheckout(r, p)
         \/ BeginCheckout(r) \/ InsertIntent(r) \/ RequestCheckout(r) \/ CompleteIntent(r)
  PROVE  Requested(r)
  <1>0. /\ checkout \in Seq(Intents) /\ DOMAIN checkout = 1..Len(checkout) /\ Len(checkout) \in Nat
        /\ \A c \in Known : checkout[c] \in Intents
    BY DEF Sound, TypeOK, Known
  <1>a. \A c \in Known : Failed(c) = checkout \/ Failed(c) = [checkout EXCEPT ![c].status = "FAILED"]
    BY DEF Failed
  <1>1. ASSUME NEW p \in Purposes, CreateCheckout(r, p) PROVE Requested(r)
    <2>1. UNCHANGED <<remote, refunds, events, queueVars, accountVars>>
      BY <1>1 DEF CreateCheckout, providerVars
    <2>2. Asks(p) \in Waiting /\ Asks(p).step = "begin"
      BY NextOfRequest DEF Asks
    <2>3. ASSUME Goes(r, Asks(p)), UNCHANGED checkout PROVE Requested(r)
      BY <2>1, <2>2, <2>3 DEF Requested, RequestMoves, Goes
    <2>4. ASSUME p = "PROFESSIONAL", NEW c \in Known, ReconcilePendingCheckout(r, c) PROVE Requested(r)
      <3>1. CASE remote[c] = "open" /\ Goes(r, Asks("PROFESSIONAL")) /\ UNCHANGED checkout
        BY <3>1, <2>3, <2>4
      <3>2. CASE Goes(r, Asks("PROFESSIONAL")) /\ checkout' = Failed(c)
        BY <3>2, <1>a, <2>1, <2>2, <2>4 DEF Requested, RequestMoves, Goes
      <3>3. ASSUME NEW type \in {"subscription.active", "subscription.on_hold", "subscription.cancelled"},
                   Goes(r, [step |-> "activate", checkout |-> c, type |-> type]), UNCHANGED checkout
            PROVE  Requested(r)
        <4> DEFINE next == [step |-> "activate", checkout |-> c, type |-> type]
        <4>1. next \in Waiting /\ next.checkout \in DOMAIN checkout' /\ next.type # "payment.succeeded"
          BY <3>3, NextOfRequest DEF Known, EventTypes
        <4>2. request' = [request EXCEPT ![r] = next]
          BY <3>3 DEF Goes
        <4> HIDE DEF next
        <4> QED BY <2>1, <2>4, <3>3, <4>1, <4>2 DEF Requested, RequestMoves
      <3> QED BY <2>4, <3>1, <3>2, <3>3 DEF ReconcilePendingCheckout
    <2> QED BY <1>1, <2>3, <2>4 DEF CreateCheckout, Professional
  <1>2. CASE BeginCheckout(r)
    <2>1. UNCHANGED <<checkout, remote, refunds, events, queueVars, accountVars>>
      BY <1>2 DEF BeginCheckout, providerVars
    <2>2. CASE Answers(r)
      BY <2>1, <2>2, RequestEnds DEF Requested
    <2>3. ASSUME NEW c \in Known, Goes(r, [step |-> "order", checkout |-> c]) PROVE Requested(r)
      BY <2>1, <2>3, RequestOrders DEF Requested, Known
    <2>4. CASE Goes(r, [request[r] EXCEPT !.step = "insert"])
      <3> DEFINE next == [request[r] EXCEPT !.step = "insert"]
      <3>1. At(r, "begin")
        BY <1>2 DEF BeginCheckout
      <3>2. request[r] \in [step : {"begin", "insert"}, purpose : Purposes]
        BY <3>1, RequestNames
      <3>3. next \in Waiting /\ next.step = "insert"
        BY <3>2 DEF Waiting
      <3>4. request' = [request EXCEPT ![r] = next]
        BY <2>4 DEF Goes
      <3> HIDE DEF next
      <3> QED BY <2>1, <3>3, <3>4 DEF Requested, RequestMoves
    <2> QED BY <1>2, <2>2, <2>3, <2>4 DEF BeginCheckout, Pending
  <1>3. CASE InsertIntent(r)
    <2>1. UNCHANGED <<remote, refunds, events, queueVars, accountVars>> /\ request[r].purpose \in Purposes
      BY <1>3, RequestNames DEF InsertIntent, providerVars
    <2>2. CASE Answers(r) /\ UNCHANGED checkout
      BY <2>1, <2>2, RequestEnds DEF Requested
    <2>3. ASSUME NEW c \in Known, Goes(r, [step |-> "order", checkout |-> c]), UNCHANGED checkout
          PROVE  Requested(r)
      BY <2>1, <2>3, RequestOrders DEF Requested, Known
    <2>4. ASSUME NEW p \in Purposes, Len(checkout) < MaxCheckouts,
                 checkout' = Append(checkout, [purpose |-> p, status |-> "PENDING", bound |-> FALSE]),
                 Goes(r, [step |-> "order", checkout |-> Len(checkout) + 1])
          PROVE  Requested(r)
      <3> DEFINE next == [step |-> "order", checkout |-> Len(checkout) + 1]
      <3>1. next \in Waiting /\ next.step = "order" /\ next.checkout = Len(checkout) + 1
        BY <1>0, <2>4, Bounds DEF Waiting, Checkouts
      <3>2. Len(checkout) + 1 \in DOMAIN checkout'
        BY <1>0, <2>4
      <3>3. request' = [request EXCEPT ![r] = next]
        BY <2>4 DEF Goes
      <3> HIDE DEF next
      <3> QED BY <2>1, <2>4, <3>1, <3>2, <3>3 DEF Requested, RequestMoves
    <2> QED BY <1>3, <2>1, <2>2, <2>3, <2>4 DEF InsertIntent, Professional
  <1>4. CASE RequestCheckout(r)
    <2> DEFINE c == request[r].checkout
    <2>1. UNCHANGED <<refunds, events, queueVars, accountVars>> /\ c \in Known /\ At(r, "order")
      BY <1>4, RequestNames DEF RequestCheckout
    <2>2. CASE /\ remote' = [remote EXCEPT ![c] = IF @ = "none" THEN "open" ELSE @]
               /\ Goes(r, [request[r] EXCEPT !.step = "store"]) /\ UNCHANGED checkout
      <3> DEFINE next == [request[r] EXCEPT !.step = "store"]
      <3>1. request[r] \in [step : {"order", "store"}, checkout : Checkouts]
        BY <2>1, RequestNames
      <3>2. next \in Waiting /\ next.step = "store" /\ next.checkout = c
        BY <3>1 DEF Waiting
      <3>3. UNCHANGED remote \/ (remote[c] = "none" /\ remote' = [remote EXCEPT ![c] = "open"])
        BY <2>1, <2>2, Bounds DEF Sound, TypeOK
      <3>4. request' = [request EXCEPT ![r] = next] /\ c \in DOMAIN checkout'
        BY <2>1, <2>2 DEF Goes, Known
      <3> HIDE DEF next, c
      <3> QED BY <2>1, <2>2, <3>2, <3>3, <3>4 DEF Requested, RequestMoves
    <2>3. CASE UNCHANGED remote /\ Answers(r) /\ checkout' = Failed(c)
      BY <1>a, <2>1, <2>3, RequestEnds DEF Requested
    <2> QED BY <1>4, <2>2, <2>3 DEF RequestCheckout
  <1>5. CASE CompleteIntent(r)
    <2> DEFINE c == request[r].checkout
    <2>1. UNCHANGED <<remote, refunds, events, queueVars, accountVars>> /\ c \in Known
      BY <1>5, RequestNames DEF CompleteIntent, providerVars
    <2>2. UNCHANGED checkout \/ checkout' = [checkout EXCEPT ![c].status = "COMPLETED", ![c].bound = TRUE]
      BY <1>5 DEF CompleteIntent
    <2> QED BY <1>5, <2>1, <2>2, RequestEnds DEF Requested, CompleteIntent
  <1> QED BY <1>1, <1>2, <1>3, <1>4, <1>5

LEMMA SoundAccount ==
  /\ Sound => AccountTypeOK
  /\ \A id, type, c, authorized, at : Sound => (Len(events) \in 0..MaxEvents)
  BY DEF Sound, TypeOK, AccountTypeOK, Plans, PaymentRows, CreditRows

LEMMA ActivateSound ==
  ASSUME Sound, NEW r \in Requests, Activate(r)
  PROVE  Sound' /\ SamePurchases
  <1> DEFINE c == request[r].checkout
             type == request[r].type
  <1>1. c \in Known /\ type \in EventTypes
    BY RequestNames DEF Activate
  <1>2. ApplyBillingEvent(<<c, type>>, type, c, Open(c), Len(events))
        /\ Goes(r, Asks("PROFESSIONAL")) /\ UNCHANGED <<remote, refunds, events, inbox, jobs>>
    BY DEF Activate, providerVars, queueVars
  <1>3. c \in Checkouts
    BY <1>1, Bounds, SMTT(30) DEF Sound, TypeOK, Known, Checkouts
  <1>4. AccountTypeOK' /\ SamePurchases /\ Len(checkout') = Len(checkout)
    <2>1. <<c, type>> \in (EventIds \X {"webhook"}) \union (Checkouts \X EventTypes)
      BY <1>1, <1>3
    <2>2. Open(c) \in BOOLEAN /\ Len(events) \in 0..MaxEvents
      BY SoundAccount DEF Open
    <2> HIDE DEF c, type
    <2> QED BY <1>1, <1>2, <2>1, <2>2, EventTyped, SoundAccount
  <1>5. request' = [request EXCEPT ![r] = Asks("PROFESSIONAL")]
    BY <1>2 DEF Goes
  <1>6. Asks("PROFESSIONAL") \in Waiting /\ Asks("PROFESSIONAL").step = "begin"
    BY NextOfRequest, RequestNames DEF Activate, Asks
  <1>7. request' \in [Requests -> Waiting \union {Unasked, Answered}]
        /\ \A q \in Requests : request'[q] = IF q = r THEN Asks("PROFESSIONAL") ELSE request[q]
    BY <1>5, <1>6 DEF Sound, TypeOK
  <1>8. TypeOK'
    BY <1>2, <1>4, <1>7 DEF AccountTypeOK, Sound, TypeOK, Plans, PaymentRows, CreditRows
  <1>9. Known' = Known
    BY <1>4 DEF Sound, TypeOK, Known, AccountTypeOK
  <1>10. Refers'
    BY <1>2, <1>6, <1>7, <1>9 DEF Sound, Refers, At
  <1> QED BY <1>4, <1>8, <1>10 DEF Sound

LEMMA InboxSound ==
  ASSUME Sound, (\E e \in EventIds : EnqueueWebhook(e)) \/ ClaimWebhook
  PROVE  Sound' /\ UNCHANGED <<checkout, providerVars, accountVars, request>>
  <1>0. UNCHANGED <<checkout, remote, refunds, events, applied, mapped, plan, payment, credits, request>>
    BY DEF EnqueueWebhook, ClaimWebhook, providerVars, accountVars
  <1>1. ASSUME NEW e \in EventIds, EnqueueWebhook(e) PROVE Sound'
    <2>1. inbox' \in [EventIds -> Rows] /\ e \in DOMAIN events /\ UNCHANGED jobs
          /\ \A d \in EventIds : d # e => inbox'[d] = inbox[d]
      BY <1>1, ZenonT(30) DEF EnqueueWebhook, Sound, TypeOK, Rows
    <2> QED BY <1>0, <2>1 DEF Sound, TypeOK, Refers, Known, At
  <1>2. ASSUME NEW expired \in SUBSET Processing,
               LET swept == [e \in EventIds |-> IF e \in expired /\ Exhausted(e)
                                                THEN [inbox[e] EXCEPT !.status = "DEAD_LETTER"] ELSE inbox[e]]
                   due == {e \in EventIds : (inbox[e].status = "PENDING" \/ e \in expired) /\ ~Exhausted(e)}
               IN \/ \E e \in due :
                      /\ Cardinality(jobs) < MaxJobs
                      /\ inbox' = [swept EXCEPT ![e] = [status |-> "PROCESSING", attempts |-> @.attempts + 1]]
                      /\ jobs' = jobs \union {[event |-> e, attempt |-> inbox[e].attempts + 1,
                                               step |-> "look", authorized |-> FALSE]}
                  \/ due = {} /\ swept # inbox /\ inbox' = swept /\ UNCHANGED jobs
        PROVE  Sound'
    <2> DEFINE swept == [e \in EventIds |-> IF e \in expired /\ Exhausted(e)
                                            THEN [inbox[e] EXCEPT !.status = "DEAD_LETTER"] ELSE inbox[e]]
               due == {e \in EventIds : (inbox[e].status = "PENDING" \/ e \in expired) /\ ~Exhausted(e)}
    <2>1. /\ swept \in [EventIds -> Rows]
          /\ \A e \in EventIds : swept[e].status # "none" => inbox[e].status # "none"
          /\ \A e \in due : swept[e] = inbox[e] /\ inbox[e].status # "none" /\ inbox[e].attempts \in 0..(MaxAttempts - 1)
      <3>1. \A e \in EventIds : inbox[e] \in Rows /\ [inbox[e] EXCEPT !.status = "DEAD_LETTER"] \in Rows
        BY ZenonT(30) DEF Sound, TypeOK, Rows
      <3>2. \A e \in expired : inbox[e].status = "PROCESSING"
        BY DEF Processing
      <3>3. \A e \in due : e \in EventIds /\ swept[e] = inbox[e] /\ inbox[e].status # "none" /\ ~Exhausted(e)
        BY <3>2
      <3>4. \A e \in EventIds : ~Exhausted(e) => inbox[e].attempts \in 0..(MaxAttempts - 1)
        <4>1. \A e \in EventIds : inbox[e].attempts \in 0..MaxAttempts
          BY <3>1 DEF Rows
        <4> QED BY <4>1, Bounds DEF Exhausted
      <3> QED BY <3>1, <3>2, <3>3, <3>4
    <2>2. CASE inbox' = swept /\ UNCHANGED jobs
      BY <1>0, <2>1, <2>2 DEF Sound, TypeOK, Refers, Known, At
    <2>3. ASSUME NEW e \in due, Cardinality(jobs) < MaxJobs,
                 inbox' = [swept EXCEPT ![e] = [status |-> "PROCESSING", attempts |-> @.attempts + 1]],
                 jobs' = jobs \union {[event |-> e, attempt |-> inbox[e].attempts + 1,
                                      step |-> "look", authorized |-> FALSE]}
          PROVE  Sound'
      <3> DEFINE job == [event |-> e, attempt |-> inbox[e].attempts + 1, step |-> "look", authorized |-> FALSE]
      <3>1. e \in EventIds /\ e \in DOMAIN events /\ inbox[e].attempts + 1 \in 1..MaxAttempts
        BY <2>1, Bounds DEF Sound, Refers
      <3>2. job \in Jobs /\ job.event = e
        BY <3>1 DEF Jobs
      <3> HIDE DEF job
      <3>3. /\ jobs' \subseteq Jobs /\ IsFiniteSet(jobs') /\ Cardinality(jobs') <= MaxJobs
            /\ \A j \in jobs' : j.event \in DOMAIN events
        <4>1. jobs' = jobs \union {job}
          BY <2>3 DEF job
        <4>2. IsFiniteSet(jobs') /\ Cardinality(jobs') <= Cardinality(jobs) + 1 /\ Cardinality(jobs) \in Nat
              /\ Cardinality(jobs') \in Nat
          <5>1. IsFiniteSet(jobs)
            BY DEF Sound, Refers
          <5>2. Cardinality(jobs) \in Nat
            BY <5>1, FS_CardinalityType
          <5>3. IsFiniteSet(jobs') /\ Cardinality(jobs') = IF job \in jobs THEN Cardinality(jobs) ELSE Cardinality(jobs) + 1
            BY <4>1, <5>1, FS_AddElement
          <5> QED BY <5>2, <5>3
        <4> QED BY <2>3, <3>1, <3>2, <4>1, <4>2, Bounds, SMTT(30) DEF Sound, TypeOK, Refers
      <3>4. [status |-> "PROCESSING", attempts |-> swept[e].attempts + 1] \in Rows
        BY <2>1, <3>1, Bounds DEF Rows
      <3> HIDE DEF swept
      <3>5. inbox' \in [EventIds -> Rows] /\ \A d \in EventIds : d # e => inbox'[d] = swept[d]
        BY <2>1, <2>3, <3>1, <3>4
      <3>6. \A d \in EventIds : inbox'[d].status # "none" => d \in DOMAIN events
        BY <2>1, <3>1, <3>5 DEF Sound, Refers
      <3>7. TypeOK'
        BY <1>0, <3>3, <3>5 DEF Sound, TypeOK
      <3>8. Refers'
        BY <1>0, <3>3, <3>6 DEF Sound, Refers, Known, At
      <3> QED BY <3>7, <3>8 DEF Sound
    <2> QED BY <1>2, <2>2, <2>3
  <1>3. CASE ClaimWebhook
    BY <1>2, <1>3 DEF ClaimWebhook
  <1> QED BY <1>0, <1>1, <1>3 DEF providerVars, accountVars

\* A worker goes on, or lets its webhook go.
JobsAfter(j) ==
    \/ jobs' = jobs \ {j}
    \/ \E step \in {"look", "apply", "complete"}, authorized \in BOOLEAN : Moves(j, step, authorized)

LEMMA JobsAfterSound ==
  ASSUME Sound, NEW j \in jobs, JobsAfter(j)
  PROVE  /\ jobs' \subseteq Jobs /\ IsFiniteSet(jobs') /\ Cardinality(jobs') <= MaxJobs
         /\ \A k \in jobs' : k.event \in DOMAIN events
  <1>1. /\ IsFiniteSet(jobs \ {j}) /\ Cardinality(jobs \ {j}) = Cardinality(jobs) - 1
        /\ Cardinality(jobs) \in Nat /\ Cardinality(jobs) <= MaxJobs
    BY FS_RemoveElement, FS_CardinalityType DEF Sound, TypeOK, Refers
  <1>2. CASE jobs' = jobs \ {j}
    BY <1>1, <1>2, Bounds DEF Sound, TypeOK, Refers
  <1>3. ASSUME NEW k, k \in Jobs, k.event = j.event, jobs' = (jobs \ {j}) \union {k}
        PROVE  /\ jobs' \subseteq Jobs /\ IsFiniteSet(jobs') /\ Cardinality(jobs') <= MaxJobs
               /\ \A i \in jobs' : i.event \in DOMAIN events
    <2>1. IsFiniteSet(jobs') /\ Cardinality(jobs') <= Cardinality(jobs)
      <3> DEFINE rest == jobs \ {j}
      <3>1. IsFiniteSet(rest) /\ Cardinality(rest) = Cardinality(jobs) - 1 /\ jobs' = rest \union {k}
        BY <1>1, <1>3
      <3> HIDE DEF rest
      <3>2. IsFiniteSet(jobs') /\ Cardinality(jobs') = IF k \in rest THEN Cardinality(rest) ELSE Cardinality(rest) + 1
        BY <3>1, FS_AddElement
      <3> QED BY <1>1, <3>1, <3>2
    <2>2. Cardinality(jobs') \in Nat
      BY <2>1, FS_CardinalityType
    <2> QED BY <1>1, <1>3, <2>1, <2>2, Bounds DEF Sound, TypeOK, Refers
  <1>4. ASSUME NEW step \in {"look", "apply", "complete"}, NEW authorized \in BOOLEAN,
               Moves(j, step, authorized)
        PROVE  \E k \in Jobs : k.event = j.event /\ jobs' = (jobs \ {j}) \union {k}
    <2>1. j \in Jobs
      BY DEF Sound, TypeOK
    <2> DEFINE half == [j EXCEPT !.step = step]
               k == [j EXCEPT !.step = step, !.authorized = authorized]
    <2>2. half \in Jobs /\ half.event = j.event
      BY <2>1 DEF Jobs
    <2>3. k = [half EXCEPT !.authorized = authorized]
      OBVIOUS
    <2> HIDE DEF half
    <2>4. k \in Jobs /\ k.event = j.event
      BY <2>2, <2>3 DEF Jobs
    <2>5. jobs' = (jobs \ {j}) \union {k}
      BY <1>4 DEF Moves
    <2> HIDE DEF k
    <2> QED BY <2>4, <2>5
  <1> QED BY <1>2, <1>3, <1>4 DEF JobsAfter

LEMMA WorkSound ==
  ASSUME Sound, NEW j \in jobs, Process(j)
  PROVE  Sound' /\ SamePurchases /\ UNCHANGED <<providerVars, request>>
  <1>0. /\ j \in Jobs /\ j.event \in EventIds /\ j.event \in DOMAIN events /\ j.authorized \in BOOLEAN
        /\ events[j.event] \in Events /\ events[j.event].checkout \in Known
    <2>1. j \in Jobs /\ j.event \in DOMAIN events
      BY DEF Sound, TypeOK, Refers
    <2> QED BY <2>1 DEF Sound, TypeOK, Refers, Jobs
  <1>1. UNCHANGED <<remote, refunds, events, request>>
    BY DEF Process, LookUp, ApplyWebhook, CompleteWebhook, FailWebhook, WorkerDies, providerVars
  <1>2. JobsAfter(j)
    <2>1. Open(CheckoutOf(j)) \in BOOLEAN
      BY DEF Open
    <2> QED BY <2>1 DEF Process, LookUp, Routed, ApplyWebhook, CompleteWebhook, FailWebhook, WorkerDies, JobsAfter, Done
  <1>3. /\ jobs' \subseteq Jobs /\ IsFiniteSet(jobs') /\ Cardinality(jobs') <= MaxJobs
        /\ \A k \in jobs' : k.event \in DOMAIN events
    BY <1>2, JobsAfterSound
  <1>4. inbox' \in [EventIds -> Rows] /\ \A e \in EventIds : inbox'[e].status # "none" => inbox[e].status # "none"
    <2>1. \/ UNCHANGED inbox
          \/ /\ inbox[j.event].status = "PROCESSING"
             /\ \E status \in {"PROCESSED", "DEAD_LETTER", "PENDING"} :
                   inbox' = [inbox EXCEPT ![j.event].status = status]
      BY DEF Process, LookUp, ApplyWebhook, CompleteWebhook, FailWebhook, WorkerDies, Holds
    <2>2. ASSUME inbox[j.event].status = "PROCESSING", NEW status \in {"PROCESSED", "DEAD_LETTER", "PENDING"},
                 inbox' = [inbox EXCEPT ![j.event].status = status]
          PROVE  inbox' \in [EventIds -> Rows] /\ \A e \in EventIds : inbox'[e].status # "none" => inbox[e].status # "none"
      <3> DEFINE row == [inbox[j.event] EXCEPT !.status = status]
      <3>1. inbox \in [EventIds -> Rows] /\ inbox[j.event] \in Rows
        BY <1>0 DEF Sound, TypeOK
      <3>2. row \in Rows
        BY <3>1 DEF Rows
      <3>3. inbox' = [inbox EXCEPT ![j.event] = row]
        BY <2>2
      <3> HIDE DEF row
      <3> QED BY <1>0, <2>2, <3>1, <3>2, <3>3
    <2> QED BY <2>1, <2>2 DEF Sound, TypeOK
  <1>5. AccountTypeOK' /\ SamePurchases /\ Len(checkout') = Len(checkout)
    <2>0. AccountTypeOK /\ Len(checkout) \in Nat
      BY SoundAccount DEF AccountTypeOK
    <2>1. CASE ApplyWebhook(j)
      <3>1. CASE TypeOf(j) = "refund.succeeded"
        <4>1. ApplyBillingReversal(j.event, CheckoutOf(j), events[j.event].amount)
          BY <2>1, <3>1 DEF ApplyWebhook
        <4>2. CheckoutOf(j) \in Known /\ events[j.event].amount \in Amounts
          BY <1>0 DEF CheckoutOf, Events
        <4> QED BY <1>0, <2>0, <4>1, <4>2, ReversalTyped DEF SamePurchases
      <3>2. CASE TypeOf(j) = "dunning.recovered"
        <4>1. ApplyDunningRecovery(j.event, CheckoutOf(j)) /\ CheckoutOf(j) \in Known
          BY <1>0, <2>1, <3>2 DEF ApplyWebhook, CheckoutOf
        <4> QED BY <1>0, <2>0, <4>1, RecoveryTyped DEF SamePurchases
      <3>3. CASE TypeOf(j) \notin {"refund.succeeded", "dunning.recovered"}
        <4>1. ApplyBillingEvent(Webhook(j.event), TypeOf(j), CheckoutOf(j), j.authorized, j.event)
          BY <2>1, <3>3 DEF ApplyWebhook
        <4>2. /\ Webhook(j.event) \in (EventIds \X {"webhook"}) \union (Checkouts \X EventTypes)
              /\ TypeOf(j) \in EventTypes /\ CheckoutOf(j) \in Known /\ j.event \in 0..MaxEvents
          BY <1>0, Bounds DEF CheckoutOf, TypeOf, Events, Webhook, EventIds
        <4> QED BY <1>0, <2>0, <4>1, <4>2, EventTyped
      <3> QED BY <3>1, <3>2, <3>3
    <2>2. CASE UNCHANGED <<checkout, applied, mapped, plan, payment, credits>>
      BY <2>0, <2>2 DEF AccountTypeOK, SamePurchases
    <2> QED BY <2>1, <2>2 DEF Process, LookUp, CompleteWebhook, FailWebhook, WorkerDies, accountVars
  <1>6. Known' = Known
    BY <1>5 DEF AccountTypeOK, Sound, TypeOK, Known
  <1>7. TypeOK'
    BY <1>1, <1>3, <1>4, <1>5 DEF AccountTypeOK, Sound, TypeOK, Plans, PaymentRows, CreditRows
  <1>8. Refers'
    BY <1>1, <1>3, <1>4, <1>6 DEF Sound, Refers, At
  <1> QED BY <1>1, <1>5, <1>7, <1>8 DEF Sound, providerVars

LEMMA SoundStep == Sound /\ [Next]_vars => Sound'
  <1> SUFFICES ASSUME Sound, [Next]_vars PROVE Sound'
    OBVIOUS
  <1>1. CASE UNCHANGED vars
    BY <1>1 DEF vars, providerVars, queueVars, accountVars, Sound, TypeOK, Refers, Known, At
  <1>2. ASSUME NEW c \in Known, Pays(c) \/ Collects(c) \/ Lifecycle(c) \/ Refunds(c) PROVE Sound'
    BY <1>2, ProviderReports, ReportedSound DEF Sound
  <1>3. ASSUME NEW r \in Requests,
               \/ \E p \in Purposes : CreateCheckout(r, p)
               \/ BeginCheckout(r) \/ InsertIntent(r) \/ RequestCheckout(r) \/ CompleteIntent(r)
        PROVE  Sound'
    BY <1>3, RequestsAreRequested, RequestedSound
  <1>4. ASSUME NEW r \in Requests, Activate(r) PROVE Sound'
    BY <1>4, ActivateSound
  <1>5. CASE (\E e \in EventIds : EnqueueWebhook(e)) \/ ClaimWebhook
    BY <1>5, InboxSound
  <1>6. ASSUME NEW j \in jobs, Process(j) PROVE Sound'
    BY <1>6, WorkSound
  <1> QED BY <1>1, <1>2, <1>3, <1>4, <1>5, <1>6 DEF Next

\* A behaviour of checkouts and contracts is one of checkouts.
LEMMA CommerceIsBilling == CommerceSpec => Spec
  <1>1. CommerceInit => Init
    BY DEF CommerceInit
  <1>2. [CommerceNext]_<<vars, contractVars>> => [Next]_vars
    BY DEF CommerceNext
  <1> QED BY <1>1, <1>2, PTL DEF CommerceSpec, Spec

\* Checkouts, events, webhooks and the account keep their types, and nothing refers
\* to a checkout or an event that does not exist.
THEOREM BillingTypeCorrect == Spec => []TypeOK
  <1>1. Sound => TypeOK
    BY DEF Sound
  <1> QED BY <1>1, BillingInitSound, SoundStep, PTL DEF Spec

-----------------------------------------------------------------------------
\* The subscription.
OnlyNewer ==
    plan' # plan =>
        /\ plan'.at >= plan.at
        /\ {plan.source, plan'.source} \subseteq Checkouts /\ plan'.source # plan.source =>
              plan.status = "PAST_DUE" /\ plan'.source > plan.source

LEMMA EventOnlyNewer ==
  ASSUME plan \in Plans, NEW id, NEW type, NEW c \in Checkouts, NEW authorized \in BOOLEAN, NEW at \in Nat,
         ApplyBillingEvent(id, type, c, authorized, at)
  PROVE  OnlyNewer
  <1>0. None \notin Checkouts /\ plan.at \in Nat
    BY Bounds DEF None, Checkouts, Plans
  <1>1. CASE UNCHANGED plan
    BY <1>1 DEF OnlyNewer
  <1>2. CASE plan' = PlanAfter(type, c, authorized, at) /\ ~(plan.at > at)
    <2>1. CASE Takes(c, authorized) /\ plan' = [name |-> "PROFESSIONAL", status |-> "ACTIVE", source |-> c, at |-> at]
      BY <1>0, <1>2, <2>1, Bounds DEF Takes, OnlyNewer, Checkouts
    <2>2. CASE plan' = [plan EXCEPT !.status = "PAST_DUE", !.at = at]
      <3>1. plan'.at = at /\ plan'.source = plan.source
        BY <2>2 DEF Plans
      <3> QED BY <1>0, <1>2, <3>1 DEF OnlyNewer
    <2>3. CASE plan' = [name |-> "STARTER", status |-> "ACTIVE", source |-> None, at |-> at]
      BY <1>0, <1>2, <2>3 DEF OnlyNewer
    <2>4. CASE plan' = plan
      BY <2>4, <1>1
    <2> QED BY <1>2, <2>1, <2>2, <2>3, <2>4 DEF PlanAfter, PlanEffect
  <1>3. plan' = PlanAfter(type, c, authorized, at) /\ plan.at > at => UNCHANGED plan
    BY DEF PlanAfter, PlanEffect
  <1> QED BY <1>1, <1>2, <1>3 DEF ApplyBillingEvent

LEMMA StepOnlyNewer == Sound /\ [Next]_vars => OnlyNewer
  <1> SUFFICES ASSUME Sound, [Next]_vars PROVE OnlyNewer
    OBVIOUS
  <1>0. plan \in Plans /\ Known \subseteq Checkouts /\ Len(events) \in Nat /\ None \notin Checkouts /\ plan.at \in Nat
    <2>1. plan \in Plans /\ plan.at \in Nat
      <3>1. plan \in Plans
        BY DEF Sound, TypeOK, Plans
      <3> QED BY <3>1, Bounds DEF Plans
    <2>2. Known \subseteq Checkouts /\ None \notin Checkouts
      <3>1. checkout \in Seq(Intents) /\ Len(checkout) <= MaxCheckouts
        BY DEF Sound, TypeOK
      <3> QED BY <3>1, Bounds DEF Known, Checkouts, None
    <2>3. Len(events) \in Nat
      BY DEF Sound, TypeOK
    <2> QED BY <2>1, <2>2, <2>3
  <1>1. CASE UNCHANGED plan
    BY <1>1 DEF OnlyNewer
  <1>2. ASSUME NEW r \in Requests, Activate(r) PROVE OnlyNewer
    <2>1. request[r].checkout \in Checkouts /\ Open(request[r].checkout) \in BOOLEAN
      BY <1>0, <1>2, RequestNames DEF Activate, Open
    <2> QED BY <1>0, <1>2, <2>1, EventOnlyNewer DEF Activate
  <1>3. ASSUME NEW j \in jobs, ApplyWebhook(j) PROVE OnlyNewer
    <2>0. /\ j.event \in EventIds /\ j.event \in Nat /\ j.authorized \in BOOLEAN
          /\ CheckoutOf(j) \in Checkouts
      <3>1. j \in Jobs /\ j.event \in DOMAIN events
        BY DEF Sound, TypeOK, Refers
      <3> QED BY <1>0, <3>1, Bounds DEF Sound, Refers, Jobs, EventIds, CheckoutOf
    <2>1. CASE ApplyBillingReversal(j.event, CheckoutOf(j), events[j.event].amount)
      <3>1. UNCHANGED plan \/ (plan.at <= j.event /\ plan' = [plan EXCEPT !.status = "PAST_DUE", !.at = j.event])
        BY <2>1 DEF ApplyBillingReversal
      <3>2. [plan EXCEPT !.status = "PAST_DUE", !.at = j.event].at = j.event
            /\ [plan EXCEPT !.status = "PAST_DUE", !.at = j.event].source = plan.source
        BY <1>0 DEF Plans
      <3> QED BY <1>0, <2>0, <3>1, <3>2 DEF OnlyNewer
    <2>2. CASE ApplyDunningRecovery(j.event, CheckoutOf(j))
      BY <1>0, <2>0, <2>2 DEF ApplyDunningRecovery, Superseded, OnlyNewer
    <2>3. CASE ApplyBillingEvent(Webhook(j.event), TypeOf(j), CheckoutOf(j), j.authorized, j.event)
      BY <1>0, <2>0, <2>3, EventOnlyNewer
    <2> QED BY <1>3, <2>1, <2>2, <2>3 DEF ApplyWebhook
  <1>4. CASE \E c \in Known : Pays(c) \/ Collects(c) \/ Lifecycle(c) \/ Refunds(c)
    BY <1>1, <1>4 DEF Pays, Collects, Lifecycle, Refunds, Reports, accountVars
  <1>5. CASE \E r \in Requests :
               \/ \E p \in Purposes : CreateCheckout(r, p)
               \/ BeginCheckout(r) \/ InsertIntent(r) \/ RequestCheckout(r) \/ CompleteIntent(r)
    BY <1>1, <1>5 DEF CreateCheckout, BeginCheckout, InsertIntent, RequestCheckout, CompleteIntent, accountVars
  <1>6. CASE (\E e \in EventIds : EnqueueWebhook(e)) \/ ClaimWebhook
    BY <1>1, <1>6 DEF EnqueueWebhook, ClaimWebhook, accountVars
  <1>7. CASE \E j \in jobs : LookUp(j) \/ CompleteWebhook(j) \/ FailWebhook(j) \/ WorkerDies(j)
    BY <1>1, <1>7 DEF LookUp, CompleteWebhook, FailWebhook, WorkerDies, accountVars
  <1>8. CASE UNCHANGED vars
    BY <1>1, <1>8 DEF vars, accountVars
  <1> QED BY <1>2, <1>3, <1>4, <1>5, <1>6, <1>7, <1>8 DEF Next, Process

\* In whatever order webhooks arrive, the subscription never goes back, and gives
\* way only to a later purchase, and only when it is past due.
THEOREM SubscriptionNeverGoesBack == Spec => OnlyNewerTakesOver
  <1>1. Sound /\ [Next]_vars => [OnlyNewer]_vars
    BY StepOnlyNewer
  <1> QED BY <1>1, BillingInitSound, SoundStep, PTL DEF Spec, OnlyNewerTakesOver, OnlyNewer

-----------------------------------------------------------------------------
\* The inbox: a step keeps what is applied, and acknowledges only that.
LEMMA AppliedGrows == Sound /\ [Next]_vars => applied \subseteq applied'
  <1> SUFFICES ASSUME Sound, [Next]_vars PROVE applied \subseteq applied'
    OBVIOUS
  <1>1. ASSUME NEW j \in jobs, Process(j) PROVE applied \subseteq applied'
    BY <1>1 DEF Process, LookUp, ApplyWebhook, CompleteWebhook, FailWebhook, WorkerDies, accountVars,
       ApplyBillingReversal, ApplyDunningRecovery, ApplyBillingEvent
  <1>2. CASE \E c \in Known : Pays(c) \/ Collects(c) \/ Lifecycle(c) \/ Refunds(c)
    BY <1>2 DEF Pays, Collects, Lifecycle, Refunds, Reports, accountVars
  <1>3. CASE \E r \in Requests :
               \/ \E p \in Purposes : CreateCheckout(r, p)
               \/ Activate(r) \/ BeginCheckout(r) \/ InsertIntent(r) \/ RequestCheckout(r) \/ CompleteIntent(r)
    BY <1>3 DEF CreateCheckout, BeginCheckout, InsertIntent, RequestCheckout, CompleteIntent, accountVars,
       Activate, ApplyBillingEvent
  <1>4. CASE (\E e \in EventIds : EnqueueWebhook(e)) \/ ClaimWebhook
    BY <1>4 DEF EnqueueWebhook, ClaimWebhook, accountVars
  <1>5. CASE UNCHANGED vars
    BY <1>5 DEF vars, accountVars
  <1> QED BY <1>1, <1>2, <1>3, <1>4, <1>5 DEF Next

\* No step changes what an event is.
LEMMA EventsStay ==
  Sound /\ [Next]_vars => \A e \in DOMAIN events : e \in DOMAIN events' /\ events'[e] = events[e]
  <1> SUFFICES ASSUME Sound, [Next]_vars, UNCHANGED events \/ \E c \in Known : Reported(c)
               PROVE  \A e \in DOMAIN events : e \in DOMAIN events' /\ events'[e] = events[e]
    <2>1. ASSUME NEW c \in Known, Sound, Pays(c) \/ Collects(c) \/ Lifecycle(c) \/ Refunds(c) PROVE Reported(c)
      BY <2>1, ProviderReports DEF Sound
    <2>2. Sound /\ [Next]_vars => UNCHANGED events \/ \E c \in Known : Reported(c)
      <3> SUFFICES ASSUME Sound, [Next]_vars PROVE UNCHANGED events \/ \E c \in Known : Reported(c)
        OBVIOUS
      <3>1. CASE UNCHANGED vars
        BY <3>1 DEF vars, providerVars
      <3>2. CASE (\E e \in EventIds : EnqueueWebhook(e)) \/ ClaimWebhook
        BY <3>2, InboxSound DEF providerVars
      <3>3. CASE \E j \in jobs : Process(j)
        BY <3>3, WorkSound DEF providerVars
      <3>4. CASE \E r \in Requests :
               \/ \E p \in Purposes : CreateCheckout(r, p)
               \/ Activate(r) \/ BeginCheckout(r) \/ InsertIntent(r) \/ RequestCheckout(r) \/ CompleteIntent(r)
        BY <3>4 DEF CreateCheckout, BeginCheckout, InsertIntent, RequestCheckout, CompleteIntent, Activate, providerVars
      <3> QED BY <2>1, <3>1, <3>2, <3>3, <3>4 DEF Next
    <2> QED BY <2>2
  <1>1. CASE UNCHANGED events
    BY <1>1
  <1>2. ASSUME NEW c \in Known, Reported(c)
        PROVE  \A e \in DOMAIN events : e \in DOMAIN events' /\ events'[e] = events[e]
    <2>1. /\ Sound' /\ Len(events') = Len(events) + 1
          /\ \A e \in DOMAIN events : events'[e] = events[e]
      BY <1>2, ReportedSound
    <2>2. Len(events) \in Nat /\ DOMAIN events = 1..Len(events) /\ DOMAIN events' = 1..Len(events')
      BY <2>1 DEF Sound, TypeOK
    <2> QED BY <2>1, <2>2
  <1> QED BY <1>1, <1>2

LEMMA AcknowledgedStep ==
  Sound /\ AcknowledgedIsApplied /\ [Next]_vars => AcknowledgedIsApplied'
  <1> SUFFICES ASSUME Sound, AcknowledgedIsApplied, [Next]_vars PROVE AcknowledgedIsApplied'
    OBVIOUS
  <1>0. /\ applied \subseteq applied'
        /\ \A e \in DOMAIN events : e \in DOMAIN events' /\ events'[e] = events[e]
        /\ \A e \in DOMAIN events : Acknowledged(e) => Acknowledged(e)'
    <2>1. applied \subseteq applied' /\ \A e \in DOMAIN events : e \in DOMAIN events' /\ events'[e] = events[e]
      BY AppliedGrows, EventsStay
    <2> QED BY <2>1 DEF Acknowledged, Dismissible, Webhook
  <1>a. /\ \A j \in jobs : j.event \in DOMAIN events /\ j.event \in EventIds
        /\ \A e \in EventIds : inbox[e].status # "none" => e \in DOMAIN events
        /\ inbox \in [EventIds -> Rows]
    BY DEF Sound, TypeOK, Refers, Jobs
  <1>b. DOMAIN events' \subseteq EventIds
    <2>1. Sound'
      BY SoundStep
    <2>2. events' \in Seq(Events) /\ Len(events') <= MaxEvents
      BY <2>1 DEF Sound, TypeOK
    <2>3. DOMAIN events' = 1..Len(events') /\ Len(events') \in Nat
      BY <2>2
    <2> QED BY <2>2, <2>3, Bounds DEF EventIds
  \* Rows and jobs that are new are not at their end.
  <1>1. ASSUME \A e \in EventIds : inbox'[e].status = "PROCESSED" =>
                   inbox[e].status = "PROCESSED" \/ (e \in DOMAIN events /\ Acknowledged(e)'),
               \A j \in jobs' : j.step = "complete" =>
                   j \in jobs \/ (j.event \in DOMAIN events /\ Acknowledged(j.event)')
        PROVE  AcknowledgedIsApplied'
    <2>1. \A e \in DOMAIN events' : inbox'[e].status = "PROCESSED" => Acknowledged(e)'
      BY <1>0, <1>1, <1>a, <1>b DEF AcknowledgedIsApplied
    <2>2. \A j \in jobs' : j.step = "complete" => Acknowledged(j.event)'
      BY <1>0, <1>1, <1>a DEF AcknowledgedIsApplied
    <2> QED BY <2>1, <2>2 DEF AcknowledgedIsApplied
  <1>2. CASE UNCHANGED <<inbox, jobs>>
    BY <1>1, <1>2
  <1>3. CASE (\E e \in EventIds : EnqueueWebhook(e)) \/ ClaimWebhook
    <2>1. ASSUME NEW e \in EventIds, EnqueueWebhook(e) PROVE AcknowledgedIsApplied'
      BY <1>1, <1>a, <2>1 DEF EnqueueWebhook
    <2>2. CASE ClaimWebhook
      <3>1. PICK expired \in SUBSET Processing :
               LET swept == [e \in EventIds |-> IF e \in expired /\ Exhausted(e)
                                                THEN [inbox[e] EXCEPT !.status = "DEAD_LETTER"] ELSE inbox[e]]
               IN \/ /\ inbox' = swept /\ UNCHANGED jobs
                  \/ \E e \in EventIds :
                        /\ inbox' = [swept EXCEPT ![e] = [status |-> "PROCESSING", attempts |-> @.attempts + 1]]
                        /\ jobs' = jobs \union {[event |-> e, attempt |-> inbox[e].attempts + 1,
                                                 step |-> "look", authorized |-> FALSE]}
        BY <2>2 DEF ClaimWebhook
      <3> DEFINE swept == [e \in EventIds |-> IF e \in expired /\ Exhausted(e)
                                              THEN [inbox[e] EXCEPT !.status = "DEAD_LETTER"] ELSE inbox[e]]
      <3>2. DOMAIN swept = EventIds /\ \A e \in EventIds : swept[e].status = "PROCESSED" => inbox[e].status = "PROCESSED"
        <4>1. \A e \in EventIds : [inbox[e] EXCEPT !.status = "DEAD_LETTER"].status = "DEAD_LETTER"
          BY <1>a DEF Rows
        <4> QED BY <4>1
      <3> HIDE DEF swept
      <3>3. CASE inbox' = swept /\ UNCHANGED jobs
        BY <1>1, <3>2, <3>3
      <3>4. ASSUME NEW e \in EventIds,
                   inbox' = [swept EXCEPT ![e] = [status |-> "PROCESSING", attempts |-> @.attempts + 1]],
                   jobs' = jobs \union {[event |-> e, attempt |-> inbox[e].attempts + 1,
                                        step |-> "look", authorized |-> FALSE]}
            PROVE  AcknowledgedIsApplied'
        <4>1. \A d \in EventIds : inbox'[d].status = "PROCESSED" => inbox[d].status = "PROCESSED"
          BY <3>2, <3>4
        <4>2. \A k \in jobs' : k.step = "complete" => k \in jobs
          BY <3>4
        <4> QED BY <1>1, <4>1, <4>2
      <3> QED BY <3>1, <3>3, <3>4 DEF swept
    <2> QED BY <1>3, <2>1, <2>2
  <1>4. ASSUME NEW j \in jobs, Process(j) PROVE AcknowledgedIsApplied'
    <2>1. CASE LookUp(j)
      <3>1. /\ UNCHANGED inbox
            /\ \/ /\ jobs' = (jobs \ {j}) \union {[j EXCEPT !.step = "complete", !.authorized = FALSE]}
                  /\ Dismissible(j.event)
               \/ \E authorized : jobs' = (jobs \ {j}) \union {[j EXCEPT !.step = "apply", !.authorized = authorized]}
        BY <2>1 DEF LookUp, Routed, Dismissed, Moves
      <3>2. j \in Jobs
        BY DEF Sound, TypeOK
      <3>3. \A step, authorized : /\ [j EXCEPT !.step = step, !.authorized = authorized].step = step
                                  /\ [j EXCEPT !.step = step, !.authorized = authorized].event = j.event
        BY <3>2 DEF Jobs
      <3>4. Dismissible(j.event) => Acknowledged(j.event)
        BY DEF Acknowledged
      <3>5. j.event \in DOMAIN events /\ (Dismissible(j.event) => Acknowledged(j.event)')
        BY <1>0, <1>a, <3>4
      <3>6. \A k \in jobs' : k \in jobs \/ k.step # "complete" \/ (k.event = j.event /\ Dismissible(j.event))
        <4>1. ASSUME NEW authorized, NEW step, NEW k \in jobs',
                     jobs' = (jobs \ {j}) \union {[j EXCEPT !.step = step, !.authorized = authorized]}
              PROVE  k \in jobs \/ (k.step = step /\ k.event = j.event)
          <5> DEFINE new == [j EXCEPT !.step = step, !.authorized = authorized]
          <5>1. new.step = step /\ new.event = j.event
            BY <3>3, Zenon
          <5>2. jobs' = (jobs \ {j}) \union {new}
            BY <4>1
          <5> HIDE DEF new
          <5> QED BY <5>1, <5>2
        <4>2. CASE /\ jobs' = (jobs \ {j}) \union {[j EXCEPT !.step = "complete", !.authorized = FALSE]}
                   /\ Dismissible(j.event)
          BY <4>1, <4>2, Zenon
        <4>3. ASSUME NEW authorized,
                     jobs' = (jobs \ {j}) \union {[j EXCEPT !.step = "apply", !.authorized = authorized]}
              PROVE  \A k \in jobs' : k \in jobs \/ k.step # "complete"
          <5>1. \A k \in jobs' : k \in jobs \/ k.step = "apply"
            <6> SUFFICES ASSUME NEW k \in jobs' PROVE k \in jobs \/ k.step = "apply"
              OBVIOUS
            <6> QED BY <4>1, <4>3, ZenonT(30)
          <5> QED BY <5>1
        <4> QED BY <3>1, <4>2, <4>3, Zenon
      <3>7. \A k \in jobs' : k.step = "complete" => k \in jobs \/ (k.event \in DOMAIN events /\ Acknowledged(k.event)')
        <4> SUFFICES ASSUME NEW k \in jobs', k.step = "complete", k \notin jobs
                     PROVE  k.event \in DOMAIN events /\ Acknowledged(k.event)'
          OBVIOUS
        <4>1. k.event = j.event
          BY <3>6
        <4> QED BY <3>5, <3>6, <4>1
      <3> QED BY <1>1, <3>1, <3>7
    <2>2. CASE ApplyWebhook(j)
      <3>1. UNCHANGED inbox /\ jobs' = (jobs \ {j}) \union {[j EXCEPT !.step = "complete", !.authorized = FALSE]}
        BY <2>2 DEF ApplyWebhook, Moves
      <3>2. ASSUME TypeOf(j) = "dunning.recovered" PROVE Acknowledged(j.event)'
        <4>1. Acknowledged(j.event)
          BY <3>2 DEF Acknowledged, Dismissible, TypeOf
        <4> QED BY <1>0, <1>a, <4>1
      <3>3. ASSUME TypeOf(j) # "dunning.recovered" PROVE Acknowledged(j.event)'
        BY <1>a, <2>2, <3>3 DEF ApplyWebhook, ApplyBillingReversal, ApplyBillingEvent, Acknowledged, Webhook
      <3>4. Acknowledged(j.event)'
        BY <3>2, <3>3
      <3> QED BY <1>0, <1>1, <1>a, <3>1, <3>4 DEF Sound, TypeOK, Jobs
    <2>3. CASE CompleteWebhook(j)
      BY <1>0, <1>1, <1>a, <2>3 DEF CompleteWebhook, Done, AcknowledgedIsApplied
    <2>4. CASE FailWebhook(j) \/ WorkerDies(j)
      <3>1. /\ jobs' = jobs \ {j}
            /\ \/ UNCHANGED inbox
               \/ \E status \in {"DEAD_LETTER", "PENDING"} : inbox' = [inbox EXCEPT ![j.event].status = status]
        BY <2>4 DEF FailWebhook, WorkerDies, Done
      <3>2. ASSUME NEW status \in {"DEAD_LETTER", "PENDING"}, inbox' = [inbox EXCEPT ![j.event].status = status]
            PROVE  \A e \in EventIds : inbox'[e].status = "PROCESSED" => inbox[e].status = "PROCESSED"
        BY <1>a, <3>2 DEF Rows
      <3>3. \A e \in EventIds : inbox'[e].status = "PROCESSED" => inbox[e].status = "PROCESSED"
        BY <3>1, <3>2
      <3> QED BY <1>1, <3>1, <3>3
    <2> QED BY <1>4, <2>1, <2>2, <2>3, <2>4 DEF Process
  <1>5. CASE \E c \in Known : Pays(c) \/ Collects(c) \/ Lifecycle(c) \/ Refunds(c)
    BY <1>2, <1>5 DEF Pays, Collects, Lifecycle, Refunds, Reports, queueVars
  <1>6. CASE \E r \in Requests :
               \/ \E p \in Purposes : CreateCheckout(r, p)
               \/ Activate(r) \/ BeginCheckout(r) \/ InsertIntent(r) \/ RequestCheckout(r) \/ CompleteIntent(r)
    BY <1>2, <1>6 DEF CreateCheckout, BeginCheckout, InsertIntent, RequestCheckout, CompleteIntent, queueVars, Activate
  <1>7. CASE UNCHANGED vars
    BY <1>2, <1>7 DEF vars, queueVars
  <1> QED BY <1>3, <1>4, <1>5, <1>6, <1>7 DEF Next

\* No webhook is lost: what is acknowledged was applied, however many workers
\* overlap, fail and die, unless it is one that may be let go: a recovery, an event
\* of another product, or a payment that nothing tells what it is for.
THEOREM WebhooksAreApplied == CommerceSpec => []ProcessedIsApplied
  <1>1. Init => AcknowledgedIsApplied
    BY DEF Init, AcknowledgedIsApplied
  <1>2. AcknowledgedIsApplied => ProcessedIsApplied
    BY DEF AcknowledgedIsApplied, ProcessedIsApplied, Acknowledged
  <1> QED BY <1>1, <1>2, CommerceIsBilling, BillingInitSound, SoundStep, AcknowledgedStep, PTL DEF Spec

-----------------------------------------------------------------------------
\* The money.
Money ==
    /\ PaidOnce /\ RecordedIsApplied
    /\ \A c \in Checkouts : CreditsFollow(c) /\ RefundsCovered(c)

\* What a step leaves of the purchases, and what events are about.
LEMMA PurchasesStay ==
  ASSUME Sound, Sound', SamePurchases
  PROVE  /\ Known \subseteq DOMAIN checkout' /\ Known \subseteq Checkouts
         /\ \A c \in Known : checkout'[c].purpose = checkout[c].purpose
         /\ \A e \in DOMAIN events : events[e].checkout \in Known
  <1>1. checkout \in Seq(Intents) /\ checkout' \in Seq(Intents) /\ Len(checkout) <= MaxCheckouts
    BY DEF Sound, TypeOK
  <1>2. /\ DOMAIN checkout = 1..Len(checkout) /\ DOMAIN checkout' = 1..Len(checkout')
        /\ Len(checkout) \in Nat /\ Len(checkout') \in Nat
    BY <1>1
  <1> QED BY <1>1, <1>2, Bounds DEF Known, Checkouts, SamePurchases, Sound, Refers

LEMMA EventsTyped ==
  ASSUME Sound
  PROVE  /\ events \in Seq(Events) /\ Len(events) \in Nat /\ DOMAIN events = 1..Len(events)
         /\ \A e \in DOMAIN events : events[e].amount \in Nat
         /\ \A c \in Checkouts : refunds[c] \in Nat /\ payment[c].refunded \in Nat
         /\ Known \subseteq Checkouts
         /\ \A c, e : e \in DOMAIN events => DueOf(c, e) \in Nat
  <1>1. events \in Seq(Events) /\ Len(events) \in Nat /\ DOMAIN events = 1..Len(events)
    BY DEF Sound, TypeOK
  <1>2. Amounts \subseteq Nat
    BY Bounds DEF Amounts
  <1>3. \A e \in DOMAIN events : events[e].amount \in Nat
    <2>1. \A e \in DOMAIN events : events[e] \in Events
      BY <1>1
    <2> QED BY <1>2, <2>1 DEF Events
  <1>4. \A c \in Checkouts : refunds[c] \in Nat /\ payment[c].refunded \in Nat
    <2>1. 0..Price \subseteq Nat
      BY Bounds
    <2> QED BY <1>2, <2>1 DEF Sound, TypeOK
  <1>5. Known \subseteq Checkouts
    <2>1. checkout \in Seq(Intents) /\ Len(checkout) <= MaxCheckouts
      BY DEF Sound, TypeOK
    <2>2. DOMAIN checkout = 1..Len(checkout) /\ Len(checkout) \in Nat
      BY <2>1
    <2> QED BY <2>1, <2>2, Bounds DEF Known, Checkouts
  <1> QED BY <1>1, <1>3, <1>4, <1>5 DEF DueOf

\* A step that records no payment and applies no refund leaves the money alone.
LEMMA MoneyUntouched ==
  ASSUME Sound, Sound', Money, SamePurchases, UNCHANGED <<events, refunds>>,
         \A c \in Checkouts : /\ payment'[c].recorded = payment[c].recorded
                              /\ payment'[c].refunded = payment[c].refunded
                              /\ credits'[c] = credits[c],
         \A c \in Known : remote[c] = "paid" => remote'[c] = "paid",
         applied \subseteq applied',
         \A e \in DOMAIN events : events[e].type = "refund.succeeded" =>
            (Webhook(e) \in applied' => Webhook(e) \in applied)
  PROVE  Money'
  <1>0. /\ Known \subseteq DOMAIN checkout' /\ Known \subseteq Checkouts
        /\ \A c \in Known : checkout'[c].purpose = checkout[c].purpose
        /\ \A e \in DOMAIN events : events[e].checkout \in Known
    BY PurchasesStay
  <1>1. PaidOnce'
    BY <1>0 DEF Money, PaidOnce, IsPaymentOf, Known
  <1>2. RecordedIsApplied'
    BY DEF Money, RecordedIsApplied, IsPaymentOf, Webhook
  <1>3. ASSUME NEW c \in Checkouts PROVE CreditsFollow(c)'
    <2>1. payment[c].recorded => c \in Known
      BY <1>0 DEF Money, RecordedIsApplied, IsPaymentOf
    <2>2. CASE c \in Known
      BY <1>0, <2>2, ZenonT(30) DEF Money, CreditsFollow, Known, Share
    <2>3. CASE c \notin Known
      BY <2>1, <2>3 DEF Money, CreditsFollow, Known, Share
    <2> QED BY <2>2, <2>3
  <1>4. ASSUME NEW c \in Checkouts PROVE RefundsCovered(c)'
    <2>1. PICK due \in [0..Len(events) -> Nat] :
              AddsUp(c, due) /\ payment[c].refunded + due[Len(events)] <= refunds[c]
      BY DEF Money, RefundsCovered
    <2>2. \A e \in DOMAIN events : DueOf(c, e)' = DueOf(c, e)
      BY DEF DueOf, Webhook
    <2>3. AddsUp(c, due)'
      BY <2>1, <2>2 DEF AddsUp
    <2> QED BY <2>1, <2>3 DEF RefundsCovered
  <1> QED BY <1>1, <1>2, <1>3, <1>4 DEF Money

\* The provider's event adds to what is to come.
LEMMA MoneyReported ==
  ASSUME Sound, Money, NEW c \in Known, Reported(c)
  PROVE  Money'
  <1>1. PICK type \in EventTypes, says \in Says, amount \in Amounts, state \in Remotes :
          ReportedAs(c, type, says, amount, state)
    BY DEF Reported
  <1>n. PICK n : n = Len(events) + 1
    OBVIOUS
  <1>2. /\ Sound' /\ Len(events') = n /\ Len(events) \in Nat /\ n \in Nat
        /\ DOMAIN events = 1..Len(events) /\ DOMAIN events' = 1..n
        /\ \A e \in DOMAIN events : events'[e] = events[e]
        /\ events'[n] = Event(type, c, says, amount)
    <2>1. /\ Sound' /\ Len(events') = n /\ \A e \in DOMAIN events : events'[e] = events[e]
      BY <1>n, ReportedSound
    <2>2. events \in Seq(Events) /\ events' = Append(events, Event(type, c, says, amount))
      BY <1>1 DEF Sound, TypeOK, ReportedAs
    <2>3. Len(events) \in Nat /\ DOMAIN events = 1..Len(events)
      BY <2>2
    <2>4. events' \in Seq(Events)
      BY <2>1 DEF Sound, TypeOK
    <2> QED BY <1>n, <2>1, <2>2, <2>3, <2>4
  <1>3. /\ events'[n].type = type /\ events'[n].checkout = c /\ events'[n].amount = amount
        /\ c \in Checkouts /\ Known \subseteq Checkouts
    BY <1>2, Bounds DEF Event, Sound, TypeOK, Known, Checkouts
  <1>4. UNCHANGED <<checkout, applied, payment, credits>>
    BY DEF Reported, accountVars
  <1>5. /\ remote' = [remote EXCEPT ![c] = state] /\ remote \in [Checkouts -> Remotes]
        /\ checkout[c].purpose = "EXTRA_CREDITS" =>
              IF type = "payment.succeeded" THEN remote[c] = "open" /\ state = "paid" ELSE state = remote[c]
    BY <1>1 DEF ReportedAs, Sound, TypeOK
  <1>6. PaidOnce'
    <2> SUFFICES ASSUME NEW d \in Known, checkout[d].purpose = "EXTRA_CREDITS", NEW e \in 1..n,
                        IsPaymentOf(d, e)'
                 PROVE  remote'[d] = "paid" /\ \A f \in 1..n : IsPaymentOf(d, f)' => f = e
      BY <1>2, <1>4 DEF PaidOnce, Known
    <2>1. \A f \in DOMAIN events : IsPaymentOf(d, f)' => IsPaymentOf(d, f)
      BY <1>2 DEF IsPaymentOf
    <2>2. CASE d # c
      <3>1. \A f \in 1..n : IsPaymentOf(d, f)' => f \in DOMAIN events
        BY <1>n, <1>2, <1>3, <2>2 DEF IsPaymentOf
      <3>2. IsPaymentOf(d, e) /\ e \in DOMAIN events /\ remote'[d] = remote[d]
        BY <1>3, <1>5, <2>1, <2>2, <3>1
      <3> QED BY <2>1, <3>1, <3>2 DEF Money, PaidOnce
    <2>3. CASE d = c /\ type = "payment.succeeded"
      <3>1. \A f \in DOMAIN events : ~IsPaymentOf(c, f)
        BY <1>5, <2>3 DEF Money, PaidOnce
      <3>2. \A f \in 1..n : IsPaymentOf(d, f)' => f = n
        BY <1>n, <1>2, <2>1, <2>3, <3>1
      <3> QED BY <1>3, <1>5, <2>3, <3>2
    <2>4. CASE d = c /\ type # "payment.succeeded"
      <3>1. \A f \in 1..n : IsPaymentOf(d, f)' => f \in DOMAIN events
        BY <1>n, <1>2, <1>3, <2>4 DEF IsPaymentOf
      <3>2. IsPaymentOf(d, e) /\ e \in DOMAIN events /\ remote'[d] = remote[d]
        BY <1>3, <1>5, <2>1, <2>4, <3>1
      <3> QED BY <2>1, <3>1, <3>2 DEF Money, PaidOnce
    <2> QED BY <2>2, <2>3, <2>4
  <1>7. RecordedIsApplied'
    <2>1. \A d \in Checkouts, e \in DOMAIN events : IsPaymentOf(d, e) => IsPaymentOf(d, e)' /\ e \in DOMAIN events'
      BY <1>n, <1>2 DEF IsPaymentOf
    <2> QED BY <1>4, <2>1 DEF Money, RecordedIsApplied, Webhook
  <1>8. \A d \in Checkouts : CreditsFollow(d)'
    BY <1>4 DEF Money, CreditsFollow, Known, Share
  <1>9. ASSUME NEW d \in Checkouts PROVE RefundsCovered(d)'
    <2>1. PICK due \in [0..Len(events) -> Nat] :
              AddsUp(d, due) /\ payment[d].refunded + due[Len(events)] <= refunds[d]
      BY DEF Money, RefundsCovered
    <2> DEFINE new == DueOf(d, n)'
    <2>2. new \in Nat /\ refunds[d] \in Nat /\ payment[d].refunded \in Nat /\ amount \in Nat
      <3>1. Amounts \subseteq Nat /\ 0..Price \subseteq Nat
        BY Bounds DEF Amounts
      <3>2. new \in {0, amount}
        BY <1>3 DEF DueOf
      <3> HIDE DEF new
      <3> QED BY <3>1, <3>2, EventsTyped
    <2>3. payment[d].refunded + (due[n - 1] + new) <= refunds'[d]
      <3>1. due[n - 1] \in Nat /\ n - 1 = Len(events)
        BY <1>n, <1>2, <2>1
      <3>2. CASE type = "refund.succeeded" /\ d = c
        <4>1. refunds'[d] = refunds[d] + amount
          BY <1>1, <1>3, <3>2 DEF ReportedAs, Sound, TypeOK
        <4>2. new = amount \/ new = 0
          BY <1>3, <3>2 DEF DueOf
        <4> HIDE DEF new
        <4> QED BY <2>1, <2>2, <3>1, <4>1, <4>2
      <3>3. CASE ~(type = "refund.succeeded" /\ d = c)
        <4>1. refunds'[d] = refunds[d]
          BY <1>1, <1>3, <3>3 DEF ReportedAs, Sound, TypeOK
        <4>2. new = 0
          BY <1>3, <3>3 DEF DueOf
        <4> HIDE DEF new
        <4> QED BY <2>1, <2>2, <3>1, <4>1, <4>2
      <3> QED BY <3>2, <3>3
    <2>4. \A e \in DOMAIN events : DueOf(d, e)' = DueOf(d, e)
      BY <1>2, <1>4 DEF DueOf, Webhook
    <2> HIDE DEF new
    <2>n. PICK next : next = [k \in 0..n |-> IF k = n THEN due[n - 1] + new ELSE due[k]]
      OBVIOUS
    <2>5. next \in [0..n -> Nat]
      BY <1>n, <1>2, <2>n, <2>1, <2>2, SMTT(30)
    <2>6. /\ next[0] = 0 /\ next[n] = due[n - 1] + new
          /\ \A k \in 0..Len(events) : next[k] = due[k]
      BY <1>n, <1>2, <2>n, <2>1 DEF AddsUp
    <2>7. \A e \in 1..n : next[e] = next[e - 1] + DueOf(d, e)'
      <3>1. \A e \in 1..Len(events) : next[e] = next[e - 1] + DueOf(d, e)'
        BY <1>2, <2>1, <2>4, <2>6 DEF AddsUp
      <3>2. next[n] = next[n - 1] + DueOf(d, n)'
        BY <1>n, <1>2, <2>6 DEF new
      <3> QED BY <1>n, <1>2, <3>1, <3>2
    <2>8. \A j, k \in 0..n : j <= k => next[j] <= next[k]
      <3>1. \A j \in 0..Len(events) : due[j] \in Nat /\ due[j] <= due[n - 1]
        BY <1>n, <1>2, <2>1 DEF AddsUp
      <3>2. \A j, k \in 0..Len(events) : j <= k => next[j] <= next[k]
        BY <2>1, <2>6 DEF AddsUp
      <3>3. \A j \in 0..Len(events) : next[j] <= next[n]
        <4>1. due[n - 1] \in Nat
          BY <1>n, <1>2, <2>1
        <4> QED BY <2>2, <2>6, <3>1, <4>1
      <3>4. next[n] \in Nat /\ \A j \in 0..n : j = n \/ j \in 0..Len(events)
        BY <1>n, <1>2, <2>5
      <3>5. \A k \in 0..Len(events) : ~(n <= k)
        BY <1>n, <1>2
      <3> QED BY <3>2, <3>3, <3>4, <3>5
    <2>9. AddsUp(d, next)'
      BY <1>2, <2>6, <2>7, <2>8 DEF AddsUp
    <2>10. payment'[d].refunded + next[Len(events')] <= refunds'[d]
      BY <1>2, <1>4, <2>3, <2>6
    <2> QED BY <1>2, <2>5, <2>9, <2>10 DEF RefundsCovered
  <1> QED BY <1>6, <1>7, <1>8, <1>9 DEF Money

\* A payment is recorded at most once, before any refund of it.
LEMMA MoneyPaid ==
  ASSUME Sound, Sound', Money, SamePurchases, UNCHANGED <<remote, events, refunds>>,
         NEW e \in DOMAIN events, NEW c, NEW authorized, IsPaymentOf(c, e),
         ApplyBillingEvent(Webhook(e), "payment.succeeded", c, authorized, e)
  PROVE  Money'
  <1>0. /\ c \in Known /\ c \in Checkouts /\ Known \subseteq Checkouts /\ Known \subseteq DOMAIN checkout'
        /\ \A d \in Known : checkout'[d].purpose = checkout[d].purpose
        /\ \A f \in DOMAIN events : events[f].checkout \in Known
        /\ payment[c].recorded \in BOOLEAN /\ credits[c].bought \in Nat /\ credits[c].reversed \in Nat
    <2>1. c \in Known /\ c \in Checkouts
      BY PurchasesStay DEF IsPaymentOf
    <2> QED BY <2>1, PurchasesStay DEF Sound, TypeOK
  <1>1. /\ applied' = applied \union {Webhook(e)}
        /\ \A f \in DOMAIN events : f # e => Webhook(f) # Webhook(e)
    BY DEF ApplyBillingEvent, Webhook
  <1>2. CASE UNCHANGED <<payment, credits>>
    <2>1. \A f \in DOMAIN events : events[f].type = "refund.succeeded" =>
            (Webhook(f) \in applied' => Webhook(f) \in applied)
      BY <1>1 DEF IsPaymentOf
    <2> QED BY <1>1, <1>2, <2>1, MoneyUntouched
  <1>3. CASE /\ Webhook(e) \notin applied
             /\ payment' = [payment EXCEPT ![c].recorded = @ \/ "payment.succeeded" = "payment.succeeded"]
             /\ credits' = IF checkout[c].purpose = "EXTRA_CREDITS"
                           THEN [credits EXCEPT ![c].bought = @ + Quantity] ELSE credits
    <2>1. /\ payment'[c].recorded = TRUE /\ payment'[c].refunded = payment[c].refunded
          /\ \A d \in Checkouts : d # c => payment'[d] = payment[d]
      BY <1>0, <1>3 DEF Sound, TypeOK
    <2>2. PaidOnce'
      BY <1>0 DEF Money, PaidOnce, IsPaymentOf, Known
    <2>3. RecordedIsApplied'
      BY <1>1, <2>1 DEF Money, RecordedIsApplied, IsPaymentOf, Webhook
    <2>4. ASSUME NEW d \in Checkouts PROVE CreditsFollow(d)'
      <3>0. payment[d].recorded => d \in Known
        BY <1>0 DEF Money, RecordedIsApplied, IsPaymentOf
      <3>1. CASE d # c
        <4>1. credits'[d] = credits[d] /\ payment'[d] = payment[d]
          BY <1>0, <1>3, <2>1, <3>1 DEF Sound, TypeOK
        <4>2. d \in Known' => d \in Known \/ ~payment[d].recorded
          BY <3>0
        <4> QED BY <1>0, <3>0, <4>1 DEF Money, CreditsFollow, Known, Share
      <3>2. CASE d = c /\ checkout[c].purpose = "EXTRA_CREDITS"
        <4>1. ~payment[c].recorded
          BY <1>0, <1>3, <3>2 DEF Money, PaidOnce, RecordedIsApplied
        <4>2. payment[c].refunded = 0 /\ credits[c].bought = 0 /\ credits[c].reversed = 0
          BY <1>0, <4>1 DEF Money, RecordedIsApplied, CreditsFollow
        <4>3. credits'[c].bought = Quantity /\ credits'[c].reversed = 0
          BY <1>0, <1>3, <3>2, <4>2, Bounds DEF Sound, TypeOK
        <4>4. Share(0) = 0
          BY ShareGrows
        <4> QED BY <1>0, <2>1, <3>2, <4>2, <4>3, <4>4, Bounds DEF CreditsFollow, Known, Share
      <3>3. CASE d = c /\ checkout[c].purpose # "EXTRA_CREDITS"
        <4>1. credits' = credits
          BY <1>3, <3>3
        <4> QED BY <1>0, <3>3, <4>1 DEF Money, CreditsFollow, Known
      <3> QED BY <3>1, <3>2, <3>3
    <2>5. ASSUME NEW d \in Checkouts PROVE RefundsCovered(d)'
      <3>1. PICK due \in [0..Len(events) -> Nat] :
                AddsUp(d, due) /\ payment[d].refunded + due[Len(events)] <= refunds[d]
        BY DEF Money, RefundsCovered
      <3>2. \A f \in DOMAIN events : DueOf(d, f)' = DueOf(d, f)
        BY <1>1 DEF DueOf, Webhook, IsPaymentOf
      <3>3. AddsUp(d, due)' /\ payment'[d].refunded = payment[d].refunded
        BY <2>1, <3>1, <3>2 DEF AddsUp
      <3> QED BY <3>1, <3>3 DEF RefundsCovered
    <2> QED BY <2>2, <2>3, <2>4, <2>5 DEF Money
  <1> QED BY <1>2, <1>3 DEF ApplyBillingEvent

\* A refund takes back its share, of what was due.
LEMMA MoneyReversed ==
  ASSUME Sound, Sound', Money, UNCHANGED <<checkout, remote, events, refunds>>,
         NEW e \in DOMAIN events, NEW c \in Known, events[e].type = "refund.succeeded", events[e].checkout = c,
         payment[c].recorded, ApplyBillingReversal(e, c, events[e].amount)
  PROVE  Money'
  <1> DEFINE amount == events[e].amount
             refunded == Min({payment[c].refunded + amount, Price})
  <1>0. /\ c \in Checkouts /\ Known \subseteq Checkouts /\ amount \in Nat
        /\ payment[c].refunded \in 0..Price /\ credits[c].bought \in Nat /\ credits[c].reversed \in Nat
        /\ events \in Seq(Events) /\ Len(events) \in Nat /\ DOMAIN events = 1..Len(events)
    BY EventsTyped DEF Sound, TypeOK
  <1>1. /\ applied' = applied \union {Webhook(e)}
        /\ \A f \in DOMAIN events : f # e => Webhook(f) # Webhook(e)
    BY DEF ApplyBillingReversal, Webhook
  <1>2. CASE Webhook(e) \in applied
    <2>1. UNCHANGED <<payment, credits>> /\ applied' = applied
      BY <1>1, <1>2 DEF ApplyBillingReversal
    <2> QED BY <2>1, MoneyUntouched, SMTT(30) DEF SamePurchases, Sound, TypeOK
  <1>3. CASE Webhook(e) \notin applied
    <2>1. /\ payment' = [payment EXCEPT ![c].refunded = refunded]
          /\ credits' = IF checkout[c].purpose = "EXTRA_CREDITS"
                        THEN [credits EXCEPT ![c].reversed = Max({@, Share(refunded)})] ELSE credits
      BY <1>3 DEF ApplyBillingReversal
    <2>2. /\ refunded \in Nat /\ payment[c].refunded <= refunded
          /\ refunded <= payment[c].refunded + amount
      <3>1. payment[c].refunded + amount \in Nat /\ payment[c].refunded \in Nat
        BY <1>0, Bounds
      <3> QED BY <1>0, <3>1, Smaller, Bounds, SMTT(30)
    <2> HIDE DEF refunded
    <2>3. /\ payment'[c].refunded = refunded /\ payment'[c].recorded = payment[c].recorded
          /\ \A d \in Checkouts : d # c => payment'[d] = payment[d]
      <3>1. payment \in [Checkouts -> [recorded : BOOLEAN, refunded : 0..Price]]
        BY DEF Sound, TypeOK
      <3> QED BY <1>0, <2>1, <3>1
    <2>4. PaidOnce'
      BY DEF Money, PaidOnce, IsPaymentOf, Known
    <2>5. RecordedIsApplied'
      BY <1>1, <2>3 DEF Money, RecordedIsApplied, IsPaymentOf, Webhook
    <2>6. ASSUME NEW d \in Checkouts PROVE CreditsFollow(d)'
      <3>1. CASE d # c
        <4>1. credits'[d] = credits[d] /\ payment'[d] = payment[d]
          BY <1>0, <2>1, <2>3, <3>1 DEF Sound, TypeOK
        <4> QED BY <4>1 DEF Money, CreditsFollow, Known, Share
      <3>2. CASE d = c /\ checkout[c].purpose = "EXTRA_CREDITS"
        <4>1. credits[c].bought = Quantity /\ credits[c].reversed = Share(payment[c].refunded)
          BY <1>0, <3>2, Bounds DEF Money, CreditsFollow
        <4>2. Share(payment[c].refunded) \in Nat /\ Share(refunded) \in Nat
              /\ Share(payment[c].refunded) <= Share(refunded)
          <5>1. payment[c].refunded \in Nat
            BY <1>0, Bounds
          <5>2. Share(payment[c].refunded) \in 0..Quantity /\ Share(payment[c].refunded) <= Share(refunded)
            BY <2>2, <5>1, ShareGrows
          <5>3. Share(refunded) \in 0..Quantity
            BY <2>2, ShareGrows
          <5> QED BY <5>2, <5>3, Bounds
        <4>3. Max({credits[c].reversed, Share(refunded)}) = Share(refunded)
          BY <4>1, <4>2, Larger
        <4>4. credits'[c].bought = Quantity /\ credits'[c].reversed = Share(refunded)
          BY <1>0, <2>1, <3>2, <4>1, <4>3 DEF Sound, TypeOK
        <4> QED BY <2>3, <3>2, <4>4, Bounds DEF CreditsFollow, Known, Share
      <3>3. CASE d = c /\ checkout[c].purpose # "EXTRA_CREDITS"
        <4>1. credits' = credits
          BY <2>1, <3>3
        <4> QED BY <3>3, <4>1 DEF Money, CreditsFollow, Known
      <3> QED BY <3>1, <3>2, <3>3
    <2>7. ASSUME NEW d \in Checkouts PROVE RefundsCovered(d)'
      <3>1. PICK due \in [0..Len(events) -> Nat] :
                AddsUp(d, due) /\ payment[d].refunded + due[Len(events)] <= refunds[d]
        BY DEF Money, RefundsCovered
      <3>2. \A f \in DOMAIN events : f # e => DueOf(d, f)' = DueOf(d, f)
        BY <1>1 DEF DueOf, Webhook
      <3>3. DueOf(d, e)' = 0
        BY <1>1 DEF DueOf, Webhook
      <3>4. CASE d # c
        <4>1. DueOf(d, e) = 0
          BY <3>4 DEF DueOf
        <4>2. AddsUp(d, due)'
          BY <3>1, <3>2, <3>3, <4>1 DEF AddsUp
        <4> QED BY <2>3, <3>1, <3>4, <4>2 DEF RefundsCovered
      <3>5. CASE d = c
        <4>n. PICK next : next = [k \in 0..Len(events) |-> IF k >= e THEN due[k] - amount ELSE due[k]]
          OBVIOUS
        <4>1. DueOf(d, e) = amount
          BY <1>3, <3>5 DEF DueOf
        <4> HIDE DEF amount
        <4>2. /\ e \in 1..Len(events) /\ due[e] = due[e - 1] + amount /\ due[e - 1] \in Nat
              /\ \A k \in 1..Len(events) : due[k] = due[k - 1] + DueOf(d, k)
              /\ \A k \in 0..Len(events) : due[k] \in Nat
              /\ due[0] = 0
          <5>1. e \in 1..Len(events) /\ e - 1 \in 0..Len(events)
            BY <1>0
          <5> QED BY <1>0, <3>1, <4>1, <5>1 DEF AddsUp
        <4>3. \A j, k \in 0..Len(events) : j <= k => due[j] <= due[k]
          BY <3>1 DEF AddsUp
        <4>4. \A k \in 0..Len(events) : k >= e => due[k] >= due[e - 1] + amount
          BY <1>0, <4>2, <4>3
        <4>5. next \in [0..Len(events) -> Nat]
          BY <1>0, <4>n, <4>2, <4>4, SMTT(30)
        <4>6. \A k \in 0..Len(events) : next[k] = IF k >= e THEN due[k] - amount ELSE due[k]
          BY <4>n
        <4>7. \A k \in 1..Len(events) : next[k] = next[k - 1] + DueOf(d, k)'
          <5> SUFFICES ASSUME NEW k \in 1..Len(events) PROVE next[k] = next[k - 1] + DueOf(d, k)'
            OBVIOUS
          <5>0. k \in 0..Len(events) /\ k - 1 \in 0..Len(events) /\ due[k] = due[k - 1] + DueOf(d, k)
                /\ due[k] \in Nat /\ due[k - 1] \in Nat
            BY <1>0, <4>2
          <5>1. CASE k = e
            BY <1>0, <3>3, <4>2, <4>6, <5>0, <5>1
          <5>2. CASE k # e
            <6>1. DueOf(d, k)' = DueOf(d, k) /\ DueOf(d, k) = due[k] - due[k - 1]
              <7>1. DueOf(d, k) \in Nat
                BY EventsTyped, <1>0
              <7> QED BY <1>0, <3>2, <5>0, <5>2, <7>1
            <6>2. CASE k > e
              <7>1. e \in Nat /\ k \in Nat /\ k - 1 \in Nat /\ amount \in Nat
                BY <1>0, <4>2, <5>0
              <7>2. k >= e /\ k - 1 >= e
                BY <6>2, <7>1
              <7>3. next[k] = due[k] - amount /\ next[k - 1] = due[k - 1] - amount
                BY <4>6, <5>0, <7>2
              <7>4. due[k] - amount = (due[k - 1] - amount) + (due[k] - due[k - 1])
                BY <5>0, <7>1
              <7> QED BY <6>1, <7>3, <7>4
            <6>3. CASE k < e
              <7>1. next[k] = due[k] /\ next[k - 1] = due[k - 1]
                <8>1. e \in Nat /\ k \in Nat /\ k - 1 \in Nat
                  BY <1>0, <4>2, <5>0
                <8>2. ~(k >= e) /\ ~(k - 1 >= e)
                  BY <6>3, <8>1
                <8> QED BY <4>6, <5>0, <8>2
              <7> QED BY <5>0, <6>1, <7>1
            <6> QED BY <1>0, <5>2, <6>2, <6>3
          <5> QED BY <5>1, <5>2
        <4>8. \A j, k \in 0..Len(events) : j <= k => next[j] <= next[k]
          <5> SUFFICES ASSUME NEW j \in 0..Len(events), NEW k \in 0..Len(events), j <= k
                       PROVE  next[j] <= next[k]
            OBVIOUS
          <5>1. due[j] \in Nat /\ due[k] \in Nat /\ due[j] <= due[k] /\ amount \in Nat /\ e \in Nat /\ j \in Nat /\ k \in Nat
            BY <1>0, <4>2, <4>3
          <5>2. CASE k >= e /\ j >= e
            BY <4>6, <5>1, <5>2
          <5>3. CASE k >= e /\ j < e
            <6>1. due[j] <= due[e - 1] /\ due[k] >= due[e - 1] + amount
              <7>1. e - 1 \in 0..Len(events) /\ j <= e - 1
                BY <1>0, <4>2, <5>1, <5>3, SMTT(30)
              <7> QED BY <4>3, <4>4, <5>3, <7>1
            <6> QED BY <4>2, <4>6, <5>1, <5>3, <6>1, SMTT(30)
          <5>4. CASE k < e /\ j < e
            BY <4>6, <5>1, <5>4
          <5> QED BY <5>1, <5>2, <5>3, <5>4
        <4>9. next[0] = 0
          <5>1. 0 \in 0..Len(events) /\ ~(0 >= e)
            BY <1>0, <4>2
          <5> QED BY <4>2, <4>6, <5>1
        <4>10. AddsUp(d, next)'
          BY <1>0, <4>7, <4>8, <4>9 DEF AddsUp
        <4>11. payment'[d].refunded + next[Len(events)] <= refunds'[d]
          <5>1. next[Len(events)] = due[Len(events)] - amount
            BY <1>0, <4>2, <4>6
          <5>2. refunds[d] \in Nat /\ due[Len(events)] \in Nat
            BY <1>0, <4>2, EventsTyped
          <5> QED BY <1>0, <2>2, <2>3, <3>1, <3>5, <5>1, <5>2 DEF amount
        <4> QED BY <4>5, <4>10, <4>11 DEF RefundsCovered
      <3> QED BY <3>4, <3>5
    <2> QED BY <2>4, <2>5, <2>6, <2>7 DEF Money
  <1> QED BY <1>2, <1>3

LEMMA MoneyStep == Sound /\ Money /\ [Next]_vars => Money'
  <1> SUFFICES ASSUME Sound, Money, [Next]_vars PROVE Money'
    OBVIOUS
  <1>0. /\ Sound' /\ applied \subseteq applied'
        /\ \A e \in DOMAIN events : e \in Nat
    BY SoundStep, AppliedGrows, EventsTyped
  \* What changes neither money nor what is applied.
  <1>1. ASSUME SamePurchases, UNCHANGED <<events, refunds, payment, credits, applied>>,
               \A c \in Known : remote[c] = "paid" => remote'[c] = "paid"
        PROVE  Money'
    BY <1>0, <1>1, MoneyUntouched
  <1>2. UNCHANGED checkout => SamePurchases
    <2>1. Len(checkout) \in Nat
      BY DEF Sound, TypeOK
    <2> QED BY <2>1 DEF SamePurchases
  \* An event that is not a payment.
  <1>3. ASSUME NEW id, NEW type, NEW c \in Checkouts, NEW authorized, NEW at,
               ApplyBillingEvent(id, type, c, authorized, at), type # "payment.succeeded",
               \A e \in DOMAIN events : events[e].type = "refund.succeeded" => Webhook(e) # id,
               SamePurchases, UNCHANGED <<remote, refunds, events>>
        PROVE  Money'
    <2>1. \A d \in Checkouts : /\ payment'[d].recorded = payment[d].recorded
                               /\ payment'[d].refunded = payment[d].refunded
                               /\ credits'[d] = credits[d]
      <3>1. CASE UNCHANGED <<payment, credits>>
        BY <3>1
      <3>2. CASE /\ payment' = [payment EXCEPT ![c].recorded = @ \/ type = "payment.succeeded"]
                 /\ UNCHANGED credits
        <4>1. payment \in [Checkouts -> [recorded : BOOLEAN, refunded : 0..Price]]
          BY DEF Sound, TypeOK
        <4>2. payment[c].recorded \in BOOLEAN /\ (payment[c].recorded \/ type = "payment.succeeded") = payment[c].recorded
          BY <1>3, <4>1
        <4> QED BY <3>2, <4>1, <4>2
      <3> QED BY <1>3, <3>1, <3>2 DEF ApplyBillingEvent
    <2>2. \A e \in DOMAIN events : events[e].type = "refund.succeeded" =>
            (Webhook(e) \in applied' => Webhook(e) \in applied)
      BY <1>3 DEF ApplyBillingEvent
    <2> QED BY <1>0, <1>3, <2>1, <2>2, MoneyUntouched
  <1>4. ASSUME NEW c \in Known, Pays(c) \/ Collects(c) \/ Lifecycle(c) \/ Refunds(c) PROVE Money'
    BY <1>4, ProviderReports, MoneyReported DEF Sound
  <1>5. ASSUME NEW r \in Requests,
               \/ \E p \in Purposes : CreateCheckout(r, p)
               \/ BeginCheckout(r) \/ InsertIntent(r) \/ RequestCheckout(r) \/ CompleteIntent(r)
        PROVE  Money'
    <2>1. Requested(r) /\ SamePurchases
      BY <1>5, RequestsAreRequested, RequestedSound
    <2>2. \A c \in Known : remote[c] = "paid" => remote'[c] = "paid"
      BY <2>1, EventsTyped DEF Requested, Sound, TypeOK
    <2> QED BY <1>1, <2>1, <2>2 DEF Requested, accountVars
  <1>6. ASSUME NEW r \in Requests, Activate(r) PROVE Money'
    <2>1. /\ request[r].checkout \in Known /\ request[r].type \in EventTypes
          /\ request[r].type # "payment.succeeded" /\ SamePurchases
      BY <1>6, RequestNames, ActivateSound DEF Activate
    <2>2. \A e : Webhook(e) # <<request[r].checkout, request[r].type>>
      BY <2>1 DEF Webhook, EventTypes
    <2>3. /\ ApplyBillingEvent(<<request[r].checkout, request[r].type>>, request[r].type,
                               request[r].checkout, Open(request[r].checkout), Len(events))
          /\ UNCHANGED <<remote, refunds, events>>
      BY <1>6 DEF Activate, providerVars
    <2> QED BY <1>3, <2>1, <2>2, <2>3, EventsTyped
  <1>7. CASE (\E e \in EventIds : EnqueueWebhook(e)) \/ ClaimWebhook
    BY <1>1, <1>2, <1>7, InboxSound DEF providerVars, accountVars
  <1>8. ASSUME NEW j \in jobs, LookUp(j) \/ CompleteWebhook(j) \/ FailWebhook(j) \/ WorkerDies(j) PROVE Money'
    BY <1>1, <1>2, <1>8 DEF LookUp, CompleteWebhook, FailWebhook, WorkerDies, providerVars, accountVars
  <1>9. ASSUME NEW j \in jobs, ApplyWebhook(j) PROVE Money'
    <2> DEFINE e == j.event
               c == events[j.event].checkout
    <2>1. e \in DOMAIN events /\ c \in Known /\ c \in Checkouts /\ CheckoutOf(j) = c /\ TypeOf(j) = events[e].type
      BY EventsTyped DEF Sound, Refers, CheckoutOf, TypeOf
    <2>2. SamePurchases /\ UNCHANGED <<remote, refunds, events>>
      BY <1>9, WorkSound DEF Process, providerVars
    <2>3. \A f \in DOMAIN events : f # e => Webhook(f) # Webhook(e)
      BY DEF Webhook
    <2>4. CASE TypeOf(j) = "refund.succeeded"
      <3>1. ApplyBillingReversal(e, c, events[e].amount) /\ payment[c].recorded
        BY <1>9, <2>1, <2>4 DEF ApplyWebhook, Raises
      <3>2. UNCHANGED checkout
        BY <3>1 DEF ApplyBillingReversal
      <3> QED BY <1>0, <2>1, <2>2, <2>4, <3>1, <3>2, MoneyReversed
    <2>5. CASE TypeOf(j) = "dunning.recovered"
      <3>1. ApplyDunningRecovery(e, c)
        BY <1>9, <2>1, <2>5 DEF ApplyWebhook
      <3>2. UNCHANGED <<payment, credits>> /\ applied' \subseteq applied \union {Webhook(e)}
        BY <3>1 DEF ApplyDunningRecovery
      <3>3. \A f \in DOMAIN events : events[f].type = "refund.succeeded" =>
              (Webhook(f) \in applied' => Webhook(f) \in applied)
        BY <2>1, <2>3, <2>5, <3>2
      <3> QED BY <1>0, <2>2, <3>2, <3>3, MoneyUntouched
    <2>6. CASE TypeOf(j) \notin {"refund.succeeded", "dunning.recovered"}
      <3>1. ApplyBillingEvent(Webhook(e), events[e].type, c, j.authorized, e)
        BY <1>9, <2>1, <2>6 DEF ApplyWebhook
      <3>2. CASE events[e].type = "payment.succeeded"
        <4>1. IsPaymentOf(c, e)
          BY <3>2 DEF IsPaymentOf
        <4> QED BY <1>0, <2>1, <2>2, <3>1, <3>2, <4>1, MoneyPaid
      <3>3. CASE events[e].type # "payment.succeeded"
        <4>1. \A f \in DOMAIN events : events[f].type = "refund.succeeded" => Webhook(f) # Webhook(e)
          BY <2>1, <2>3, <2>6
        <4> HIDE DEF e, c
        <4> QED BY <1>3, <2>1, <2>2, <3>1, <3>3, <4>1
      <3> QED BY <3>2, <3>3
    <2> QED BY <2>4, <2>5, <2>6
  <1>10. CASE UNCHANGED vars
    BY <1>1, <1>2, <1>10 DEF vars, providerVars, accountVars
  <1> QED BY <1>4, <1>5, <1>6, <1>7, <1>8, <1>9, <1>10 DEF Next, Process

LEMMA MoneyInit == Init => Money
  <1> SUFFICES ASSUME Init PROVE Money
    OBVIOUS
  <1>1. PaidOnce /\ RecordedIsApplied
    BY DEF Init, PaidOnce, RecordedIsApplied, Known
  <1>2. ASSUME NEW c \in Checkouts PROVE CreditsFollow(c) /\ RefundsCovered(c)
    <2>1. CreditsFollow(c)
      BY DEF Init, CreditsFollow
    <2>2. PICK due : due = [k \in 0..0 |-> 0]
      OBVIOUS
    <2>3. due \in [0..Len(events) -> Nat] /\ AddsUp(c, due)
      BY <2>2 DEF Init, AddsUp
    <2>4. payment[c].refunded + due[Len(events)] <= refunds[c]
      BY <2>2 DEF Init
    <2> QED BY <2>1, <2>3, <2>4 DEF RefundsCovered
  <1> QED BY <1>1, <1>2 DEF Money

\* The invariant of checkouts.
THEOREM BillingInvariance == Spec => []BillingInv
  <1>1. Init => AcknowledgedIsApplied
    BY DEF Init, AcknowledgedIsApplied
  <1>2. Sound /\ AcknowledgedIsApplied /\ Money => BillingInv
    BY DEF Sound, Money, BillingInv
  <1> QED BY <1>1, <1>2, BillingInitSound, SoundStep, AcknowledgedStep, MoneyInit, MoneyStep, PTL DEF Spec

\* Credits are bought once and for money, and what is taken back is the share of
\* what the provider has refunded, whatever is delivered twice, retried, reordered
\* or refunded in parts.
THEOREM CreditsFollowMoney == CommerceSpec => []CreditsMatchPayments
  <1>1. BillingInv => CreditsMatchPayments
    <2> SUFFICES ASSUME BillingInv, NEW c \in Checkouts
                 PROVE  /\ credits[c].bought > 0 => remote[c] = "paid"
                        /\ CreditsFollow(c) /\ payment[c].refunded <= refunds[c]
      BY DEF CreditsMatchPayments, CreditsFollow
    <2>1. Sound
      BY DEF BillingInv, Sound
    <2>2. credits[c].bought > 0 => remote[c] = "paid"
      <3>1. credits[c].bought > 0 => c \in Known /\ checkout[c].purpose = "EXTRA_CREDITS" /\ payment[c].recorded
        BY DEF BillingInv, CreditsFollow
      <3> QED BY <3>1 DEF BillingInv, RecordedIsApplied, PaidOnce
    <2>3. payment[c].refunded <= refunds[c]
      <3>1. PICK due \in [0..Len(events) -> Nat] : payment[c].refunded + due[Len(events)] <= refunds[c]
        BY DEF BillingInv, RefundsCovered
      <3>2. due[Len(events)] \in Nat /\ payment[c].refunded \in Nat /\ refunds[c] \in Nat
        BY <2>1, EventsTyped
      <3> QED BY <3>1, <3>2
    <2> QED BY <2>2, <2>3 DEF BillingInv
  <1> QED BY <1>1, CommerceIsBilling, BillingInvariance, PTL
=============================================================================
