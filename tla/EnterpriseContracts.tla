------------------------ MODULE EnterpriseContracts ------------------------
(***************************************************************************)
(* How an enterprise customer gets credits: sales staff qualify a lead, a    *)
(* founder links it to an organization, a proposal becomes an agreement,     *)
(* invoices are issued for it, and payments that the provider confirms post  *)
(* the credits. Staff are promoted, suspended and replaced at any time, and  *)
(* confirmations are delivered several times, at once, late or never.        *)
(*                                                                         *)
(* One lead stands for all: it has at most one agreement. The terms of a     *)
(* contract are the number of credits; value and currency go with it. A      *)
(* provider's event names one payment. Left out: notes, follow-ups (see      *)
(* EmailOutbox) and the subscription that goes with an active agreement.     *)
(***************************************************************************)
EXTENDS Integers, FiniteSets

CONSTANTS
    Staff,
    Founder,          \* the account of the configured founder address
    Organizations,
    Terms,            \* credits that a contract may be about
    Invoices,         \* the provider's invoice numbers
    PaymentEvents,    \* the provider's payment events
    Calls             \* confirmations being processed at the same time

ASSUME ContractAssumption ==
    /\ Founder \in Staff /\ Terms \subseteq Nat \ {0}
    /\ "none" \notin Organizations /\ IsFiniteSet(Invoices)

VARIABLES
    staff,       \* role and status of the platform's staff
    lead,        \* stage, owner and customer organization
    agreement,   \* the contract with the lead
    invoice,     \* the invoices issued for it
    collected,   \* the payments the provider has collected
    recorded,    \* those that were recorded, at most one per event
    posted,      \* credits posted to each organization's ledger
    call         \* the confirmations at work

salesVars == <<staff, lead, agreement>>
moneyVars == <<invoice, collected, recorded, posted>>
contractVars == <<salesVars, moneyVars, call>>

Nobody == "nobody"
NoOrganization == "none"

StaffRows == [role : {"none", "FOUNDER", "SALES"}, active : BOOLEAN]
Leads == [won : BOOLEAN, owner : Staff \union {Nobody}, organization : Organizations \union {NoOrganization}]
Agreements == [state : {"none", "PROPOSAL", "PAYMENT_PENDING", "ACTIVE"}, terms : Terms \union {0}]
InvoiceRows == [status : {"none", "OPEN", "PAID"}, terms : Terms \union {0}]
Payments == [event : PaymentEvents, invoice : Invoices, terms : Terms]
NoPayment == [event |-> "none"]

\* The type invariant.
ContractTypeOK ==
    /\ staff \in [Staff -> StaffRows] /\ lead \in Leads /\ agreement \in Agreements
    /\ invoice \in [Invoices -> InvoiceRows]
    /\ collected \subseteq Payments /\ recorded \subseteq collected
    /\ posted \in [Organizations -> Nat]
    /\ call \in [Calls -> Payments \union {NoPayment}]

ContractInit ==
    /\ staff = [s \in Staff |-> IF s = Founder THEN [role |-> "FOUNDER", active |-> TRUE]
                                               ELSE [role |-> "none", active |-> FALSE]]
    /\ lead = [won |-> FALSE, owner |-> Nobody, organization |-> NoOrganization]
    /\ agreement = [state |-> "none", terms |-> 0]
    /\ invoice = [i \in Invoices |-> [status |-> "none", terms |-> 0]]
    /\ collected = {} /\ recorded = {}
    /\ posted = [o \in Organizations |-> 0]
    /\ call = [c \in Calls |-> NoPayment]

-----------------------------------------------------------------------------
IsFounder(s) == staff[s] = [role |-> "FOUNDER", active |-> TRUE]
IsSales(s) == staff[s] = [role |-> "SALES", active |-> TRUE]
Handles(s) == IsFounder(s) \/ (staff[s].active /\ lead.owner = s)

\* The configured founder is restored whenever he opens the workspace.
OpenWorkspace ==
    /\ ~IsFounder(Founder)
    /\ staff' = [staff EXCEPT ![Founder] = [role |-> "FOUNDER", active |-> TRUE]]
    /\ UNCHANGED <<lead, agreement, moneyVars, call>>

\* Founders appoint, suspend and remove anybody but themselves.
ManageStaff(s, other, row) ==
    /\ IsFounder(s) /\ other # s /\ row.role # "none" /\ staff[other] # row
    /\ staff' = [staff EXCEPT ![other] = row]
    /\ UNCHANGED <<lead, agreement, moneyVars, call>>

\* A lead moves through its stages, also back; founders assign it to sales.
UpdateLead(s, won, owner) ==
    /\ Handles(s)
    /\ owner # lead.owner => IsFounder(s) /\ owner # Nobody /\ IsSales(owner)
    /\ lead' = [lead EXCEPT !.won = won, !.owner = owner]
    /\ lead' # lead
    /\ UNCHANGED <<staff, agreement, moneyVars, call>>

\* The first organization that is linked stays.
ConvertLead(s, o) ==
    /\ IsFounder(s) /\ lead.organization = NoOrganization
    /\ lead' = [lead EXCEPT !.organization = o, !.won = TRUE]
    /\ UNCHANGED <<staff, agreement, moneyVars, call>>

\* A proposal is locked by its first invoice.
Revisable == {"none", "PROPOSAL"}

Propose(s, t) ==
    /\ Handles(s) /\ lead.won /\ lead.organization # NoOrganization
    /\ agreement.state \in Revisable
    /\ agreement' = [state |-> IF agreement.state = "none" THEN "PROPOSAL" ELSE agreement.state, terms |-> t]
    /\ agreement' # agreement
    /\ UNCHANGED <<staff, lead, moneyVars, call>>

Invoiceable == {"PROPOSAL", "PAYMENT_PENDING"}

\* An invoice takes over the terms of the agreement; its number is used once.
IssueInvoice(s, i) ==
    /\ IsFounder(s) /\ agreement.state \in Invoiceable /\ invoice[i].status = "none"
    /\ invoice' = [invoice EXCEPT ![i] = [status |-> "OPEN", terms |-> agreement.terms]]
    /\ agreement' = [agreement EXCEPT !.state = "PAYMENT_PENDING"]
    /\ UNCHANGED <<staff, lead, collected, recorded, posted, call>>

-----------------------------------------------------------------------------
\* The customer pays an invoice, perhaps twice, perhaps another amount.
Collect(p) ==
    /\ invoice[p.invoice].status # "none" /\ \A q \in collected : q.event # p.event
    /\ collected' = collected \union {p}
    /\ UNCHANGED <<salesVars, invoice, recorded, posted, call>>

AlreadyRecorded(p) == \E q \in recorded : q.event = p.event

\* A confirmation arrives, first or again: a known payment is answered at once.
Confirm(c, p) ==
    /\ call[c] = NoPayment /\ p \in collected /\ ~AlreadyRecorded(p)
    /\ call' = [call EXCEPT ![c] = p]
    /\ UNCHANGED <<salesVars, moneyVars>>

\* Seeded fault: the invoice is not looked at again once it is locked.
PayableOnce(p) == invoice[p.invoice].terms = p.terms

Payable(p) == invoice[p.invoice].status = "OPEN" /\ invoice[p.invoice].terms = p.terms

\* With the invoice locked the confirmation is applied, unless it is refused or
\* another call was faster.
ApplyPayment(c) ==
    LET p == call[c]
    IN /\ p # NoPayment
       /\ IF Payable(p) /\ ~AlreadyRecorded(p)
          THEN /\ recorded' = recorded \union {p}
               /\ invoice' = [invoice EXCEPT ![p.invoice].status = "PAID"]
               /\ agreement' = [agreement EXCEPT !.state = "ACTIVE"]
               /\ posted' = [posted EXCEPT ![lead.organization] = @ + invoice[p.invoice].terms]
          ELSE UNCHANGED <<recorded, invoice, agreement, posted>>
       /\ call' = [call EXCEPT ![c] = NoPayment]
       /\ UNCHANGED <<staff, lead, collected>>

\* The call dies or is rolled back.
CallDies(c) ==
    /\ call[c] # NoPayment
    /\ call' = [call EXCEPT ![c] = NoPayment]
    /\ UNCHANGED <<salesVars, moneyVars>>

ContractNext ==
    \/ OpenWorkspace
    \/ \E s \in Staff :
          \/ \E other \in Staff, row \in StaffRows : ManageStaff(s, other, row)
          \/ \E won \in BOOLEAN, owner \in Staff \union {Nobody} : UpdateLead(s, won, owner)
          \/ \E o \in Organizations : ConvertLead(s, o)
          \/ \E t \in Terms : Propose(s, t)
          \/ \E i \in Invoices : IssueInvoice(s, i)
    \/ \E p \in Payments : Collect(p)
    \/ \E c \in Calls : ApplyPayment(c) \/ CallDies(c) \/ \E p \in collected : Confirm(c, p)

-----------------------------------------------------------------------------
Paid == {i \in Invoices : invoice[i].status = "PAID"}

\* "A confirmed payment adds exactly the contracted credits once": every credit
\* of a contract stems from an invoice on its present terms, which the customer
\* has paid in full, and no invoice gives its credits twice, however
\* confirmations are repeated and overlap and whoever edits the proposal
\* meanwhile.
ContractedOnce ==
    /\ \A o \in Organizations :
          posted[o] = IF o = lead.organization THEN Cardinality(Paid) * agreement.terms ELSE 0
    /\ Paid # {} => lead.organization # NoOrganization
    /\ \A i \in Paid : \E p \in collected : p.invoice = i /\ p.terms = agreement.terms
=============================================================================
