------------------------------ MODULE Billing ------------------------------
(***************************************************************************)
(* Checkouts, the payment provider, its webhooks and what they do to the    *)
(* subscription and the credits of one organization.                        *)
(*                                                                         *)
(* A webhook is stored, claimed by a worker under a lock, routed, applied    *)
(* in one transaction and completed. Webhooks arrive late, again and in any  *)
(* order; every call may fail before or after it takes effect; a worker or a *)
(* request may die between any two steps. A transaction reads the checkout   *)
(* it pays for before it writes (READ COMMITTED), so that is a step too.     *)
(*                                                                         *)
(* The provider numbers its events in the order they happened; a checkout    *)
(* stands for the payment and the subscription that it leads to. A request   *)
(* that dies or loses an answer takes no further step.                       *)
(* Left out: enterprise contracts, delegated amounts, renewals (as "active"), *)
(* subscriptions older than checkout attribution, a claim of several rows    *)
(* (several claims) and the back-off between attempts.                       *)
(***************************************************************************)
EXTENDS Integers, Sequences, FiniteSetsExt

CONSTANTS
    MaxCheckouts,   \* bound of the model on checkouts
    MaxEvents,      \* bound of the model on the provider's events
    MaxAttempts,    \* claims of a webhook before it is given up
    MaxJobs,        \* webhooks in the hands of workers at the same time
    Requests,       \* the checkout requests of the purchaser, at any time
    Purposes,
    Attributions,   \* what an event may say of its checkout
    Quantity, Price \* what a purchase of extra credits brings and costs

ASSUME BoundsAssumption ==
    /\ {MaxCheckouts, MaxEvents, MaxAttempts, MaxJobs, Quantity, Price} \subseteq Nat \ {0}
    /\ Purposes \subseteq {"PROFESSIONAL", "EXTRA_CREDITS"}
    /\ Attributions \subseteq {"checkout", "nothing", "other"}

VARIABLES
    checkout,   \* the purchases begun so far, oldest first
    remote,     \* what the provider knows of each: its session and what became of it
    refunds,    \* how much of each payment it has refunded
    events,     \* what the provider has reported, in the order it happened
    inbox,      \* the webhook inbox
    jobs,       \* the webhooks at work
    applied,    \* the events recorded as applied
    mapped,     \* the subscriptions attributed to their checkout
    plan,       \* the organization's subscription
    payment,    \* the payments recorded, with what was refunded
    credits,    \* extra credits bought and reversed, by checkout
    request     \* how far each checkout request is

providerVars == <<remote, refunds, events>>
queueVars == <<inbox, jobs>>
accountVars == <<applied, mapped, plan, payment, credits>>
vars == <<checkout, providerVars, queueVars, accountVars, request>>

Checkouts == 1..MaxCheckouts
Known == DOMAIN checkout
EventIds == 1..MaxEvents
None == 0

Intents == [purpose : Purposes, status : {"PENDING", "COMPLETED", "ACTIVATED", "FAILED"},
            bound : BOOLEAN]   \* bound: the provider's session is stored
Remotes == {"none", "open", "paid", "active", "on_hold", "ended", "failed"}
EventTypes == {"payment.succeeded", "refund.succeeded", "dunning.recovered", "subscription.active",
               "subscription.on_hold", "subscription.cancelled", "subscription.failed"}
\* In minor units of the currency.
Amounts == 0..Price
\* An event repeats the metadata of its checkout or has nothing of it, or it names a
\* product that is not, or no longer, the one configured.
Says == {"checkout", "nothing", "other"}
Events == [type : EventTypes, checkout : Checkouts, says : Says, amount : Amounts]
Rows == [status : {"none", "PENDING", "PROCESSING", "PROCESSED", "DEAD_LETTER"},
         attempts : 0..MaxAttempts]
Jobs == [event : EventIds, attempt : 1..MaxAttempts,
         step : {"look", "apply", "complete"}, authorized : BOOLEAN]
Unasked == [step |-> "unasked"]
Answered == [step |-> "answered"]
Waiting == [step : {"activate"}, checkout : Checkouts, type : EventTypes]
           \union [step : {"begin", "insert"}, purpose : Purposes]
           \union [step : {"order", "store"}, checkout : Checkouts]

\* The type invariant.
TypeOK ==
    /\ checkout \in Seq(Intents) /\ Len(checkout) <= MaxCheckouts
    /\ remote \in [Checkouts -> Remotes]
    /\ refunds \in [Checkouts -> Amounts]
    /\ events \in Seq(Events) /\ Len(events) <= MaxEvents
    /\ inbox \in [EventIds -> Rows]
    /\ jobs \subseteq Jobs /\ Cardinality(jobs) <= MaxJobs
    /\ applied \subseteq (EventIds \X {"webhook"}) \union (Checkouts \X EventTypes)
    /\ mapped \subseteq Checkouts
    /\ plan \in [name : {"STARTER", "PROFESSIONAL"}, status : {"ACTIVE", "PAST_DUE"},
                 source : Checkouts \union {None}, at : 0..MaxEvents]
    /\ payment \in [Checkouts -> [recorded : BOOLEAN, refunded : 0..Price]]
    /\ credits \in [Checkouts -> [bought : Nat, reversed : Nat]]
    /\ request \in [Requests -> Waiting \union {Unasked, Answered}]

Init ==
    /\ checkout = << >>
    /\ remote = [c \in Checkouts |-> "none"]
    /\ refunds = [c \in Checkouts |-> 0]
    /\ events = << >>
    /\ inbox = [e \in EventIds |-> [status |-> "none", attempts |-> 0]]
    /\ jobs = {} /\ applied = {} /\ mapped = {}
    /\ plan = [name |-> "STARTER", status |-> "ACTIVE", source |-> None, at |-> 0]
    /\ payment = [c \in Checkouts |-> [recorded |-> FALSE, refunded |-> 0]]
    /\ credits = [c \in Checkouts |-> [bought |-> 0, reversed |-> 0]]
    /\ request = [r \in Requests |-> Unasked]

-----------------------------------------------------------------------------
\* The provider. A session is paid or declined; a subscription is put on hold,
\* recovered and ended; a payment is refunded, in parts or whole.
Event(type, c, says, amount) ==
    [type |-> type, checkout |-> c, says |-> says, amount |-> amount]

Reports(c, states, state, event) ==
    /\ remote[c] \in states /\ Len(events) < MaxEvents
    /\ remote' = [remote EXCEPT ![c] = state]
    /\ events' = Append(events, event)
    /\ UNCHANGED <<checkout, queueVars, accountVars, request>>

Pays(c) ==
    /\ \E says \in Attributions :
          \/ /\ checkout[c].purpose = "EXTRA_CREDITS"
             /\ Reports(c, {"open"}, "paid", Event("payment.succeeded", c, says, Price))
          \/ /\ checkout[c].purpose = "PROFESSIONAL"
             /\ Reports(c, {"open"}, "active", Event("subscription.active", c, says, 0))
    /\ UNCHANGED refunds

IsPaymentOf(c, e) == events[e].type = "payment.succeeded" /\ events[e].checkout = c

\* The payment of a subscription is reported by itself.
Collects(c) ==
    /\ checkout[c].purpose = "PROFESSIONAL" /\ \A e \in DOMAIN events : ~IsPaymentOf(c, e)
    /\ \E says \in Attributions :
          Reports(c, {"active", "on_hold", "ended"}, remote[c], Event("payment.succeeded", c, says, Price))
    /\ UNCHANGED refunds

Lifecycle(c) ==
    /\ checkout[c].purpose = "PROFESSIONAL"
    /\ \E says \in Attributions :
          \/ Reports(c, {"open"}, "failed", Event("subscription.failed", c, says, 0))
          \/ Reports(c, {"active"}, "on_hold", Event("subscription.on_hold", c, says, 0))
          \/ Reports(c, {"on_hold"}, "active", Event("dunning.recovered", c, says, 0))
          \/ Reports(c, {"active", "on_hold"}, "ended", Event("subscription.cancelled", c, says, 0))
    /\ UNCHANGED refunds

Refunds(c) ==
    /\ \E e \in DOMAIN events : IsPaymentOf(c, e)
    /\ \E amount \in 1..(Price - refunds[c]) :
          /\ Reports(c, {remote[c]}, remote[c], Event("refund.succeeded", c, "nothing", amount))
          /\ refunds' = [refunds EXCEPT ![c] = @ + amount]

-----------------------------------------------------------------------------
\* The purchaser asks for a checkout. Before another Professional checkout the
\* last one is looked up at the provider.
Goes(r, next) == request' = [request EXCEPT ![r] = next]
Answers(r) == Goes(r, Answered)
At(r, step) == request[r].step = step

Open(c) == checkout[c].status \in {"PENDING", "COMPLETED"}
Failed(c) == IF Open(c) THEN [checkout EXCEPT ![c].status = "FAILED"] ELSE checkout
Professional(status) == {c \in Known : checkout[c].purpose = "PROFESSIONAL" /\ checkout[c].status = status}
Pending(p) == {c \in Known : checkout[c].purpose = p /\ checkout[c].status = "PENDING"}

Asks(p) == [step |-> "begin", purpose |-> p]

ReconcilePendingCheckout(r, c) ==
    \/ remote[c] = "open" /\ Goes(r, Asks("PROFESSIONAL")) /\ UNCHANGED checkout
    \/ remote[c] = "failed" /\ Goes(r, Asks("PROFESSIONAL")) /\ checkout' = Failed(c)
    \/ /\ remote[c] \in {"active", "on_hold", "ended"}
       /\ Goes(r, [step |-> "activate", checkout |-> c, type |->
            CASE remote[c] = "active" -> "subscription.active"
              [] remote[c] = "on_hold" -> "subscription.on_hold"
              [] remote[c] = "ended" -> "subscription.cancelled"])
       /\ UNCHANGED checkout

CreateCheckout(r, p) ==
    LET last == {c \in Professional("COMPLETED") : checkout[c].bound}
    IN /\ request[r] = Unasked
       /\ IF p = "PROFESSIONAL" /\ last # {}
          THEN \E c \in last : ReconcilePendingCheckout(r, c)
          ELSE Goes(r, Asks(p)) /\ UNCHANGED checkout
       /\ UNCHANGED <<providerVars, queueVars, accountVars>>

Refused(p) ==
    \/ p = "EXTRA_CREDITS" /\ plan.status # "ACTIVE"
    \/ p = "PROFESSIONAL" /\ plan.name = "PROFESSIONAL" /\ plan.status = "ACTIVE"
    \/ p = "PROFESSIONAL" /\ plan.status = "PAST_DUE" /\ plan.source # None

\* The transaction looks for an intent to use again, which it locks, before it
\* locks the organization: two requests may both find none.
BeginCheckout(r) ==
    LET p == request[r].purpose
    IN /\ At(r, "begin")
       /\ \/ Pending(p) # {} /\ Refused(p) /\ Answers(r)
          \/ /\ ~Refused(p)
             /\ \E c \in Pending(p) : /\ \A d \in Pending(p) : d <= c
                                     /\ Goes(r, [step |-> "order", checkout |-> c])
          \/ Pending(p) = {} /\ Goes(r, [request[r] EXCEPT !.step = "insert"])
       /\ UNCHANGED <<checkout, providerVars, queueVars, accountVars>>

\* A Professional checkout that was ordered less than five seconds ago is still
\* being activated, an older one is offered again.
InsertIntent(r) ==
    LET p == request[r].purpose
        ordered == IF p = "PROFESSIONAL" THEN Professional("COMPLETED") ELSE {}
    IN /\ At(r, "insert")
       /\ \/ Refused(p) /\ Answers(r) /\ UNCHANGED checkout
          \/ ~Refused(p) /\ ordered # {} /\ Answers(r) /\ UNCHANGED checkout
          \/ /\ ~Refused(p)
             /\ \E c \in ordered : Goes(r, [step |-> "order", checkout |-> c])
             /\ UNCHANGED checkout
          \/ /\ ~Refused(p) /\ ordered = {} /\ Len(checkout) < MaxCheckouts
             /\ checkout' = Append(checkout, [purpose |-> p, status |-> "PENDING", bound |-> FALSE])
             /\ Goes(r, [step |-> "order", checkout |-> Len(checkout) + 1])
       /\ UNCHANGED <<providerVars, queueVars, accountVars>>

\* The order names the intent, so that the provider opens one session for it. An
\* answer that rules out a session releases the intent, also one used again whose
\* session was opened by an earlier order.
RequestCheckout(r) ==
    LET c == request[r].checkout
        opened == [remote EXCEPT ![c] = IF @ = "none" THEN "open" ELSE @]
    IN /\ At(r, "order")
       /\ \/ remote' = opened /\ Goes(r, [request[r] EXCEPT !.step = "store"]) /\ UNCHANGED checkout
          \/ Answers(r) /\ checkout' = Failed(c) /\ UNCHANGED remote
       /\ UNCHANGED <<refunds, events, queueVars, accountVars>>

CompleteIntent(r) ==
    LET c == request[r].checkout
    IN /\ At(r, "store")
       /\ checkout' = IF checkout[c].status = "PENDING"
                      THEN [checkout EXCEPT ![c].status = "COMPLETED", ![c].bound = TRUE] ELSE checkout
       /\ Answers(r)
       /\ UNCHANGED <<providerVars, queueVars, accountVars>>

-----------------------------------------------------------------------------
\* The effects of an event in its transaction: "at" is when it happened and
\* "authorized" whether its checkout was open when the transaction read it.
Takes(c, authorized) ==
    \/ plan.source = c
    \/ authorized /\ (plan.source = None \/ (plan.status = "PAST_DUE" /\ c > plan.source))

PlanEffect(type, c, authorized, at) ==
    CASE type = "subscription.active" /\ Takes(c, authorized) ->
           [name |-> "PROFESSIONAL", status |-> "ACTIVE", source |-> c, at |-> at]
      [] type \in {"subscription.on_hold", "subscription.failed"} /\ plan.source = c ->
           [plan EXCEPT !.status = "PAST_DUE", !.at = at]
      [] type = "subscription.cancelled" /\ plan.source = c ->
           [name |-> "STARTER", status |-> "ACTIVE", source |-> None, at |-> at]
      [] OTHER -> plan

\* An older event than the last one that changed the subscription changes nothing.
\* (The seeded fault is to believe it: the effect by itself.)
PlanAfter(type, c, authorized, at) ==
    IF plan.at > at THEN plan ELSE PlanEffect(type, c, authorized, at)

StatusAfter(type, c, authorized, at) ==
    CASE type = "subscription.active" /\ authorized /\ plan.at <= at /\ Takes(c, authorized) -> "ACTIVATED"
      [] type = "subscription.failed" /\ authorized -> "FAILED"
      [] type = "payment.succeeded" /\ checkout[c].purpose = "EXTRA_CREDITS" -> "ACTIVATED"
      [] OTHER -> IF Open(c) THEN "COMPLETED" ELSE checkout[c].status

Attributed(type, c, at, authorized) ==
    \/ type = "payment.succeeded" /\ checkout[c].purpose = "PROFESSIONAL"
    \/ PlanAfter(type, c, authorized, at) # plan

\* Seeded fault: an event that has been applied is applied again.
ApplyEveryDelivery(id, type, c, authorized, at) ==
    /\ applied' = applied \union {id}
    /\ IF ~(authorized \/ plan.source = c)
       THEN UNCHANGED <<checkout, mapped, plan, payment, credits>>
       ELSE /\ checkout' = [checkout EXCEPT ![c].status = StatusAfter(type, c, authorized, at)]
            /\ plan' = PlanAfter(type, c, authorized, at)
            /\ mapped' = IF Attributed(type, c, at, authorized) THEN mapped \union {c} ELSE mapped
            /\ payment' = [payment EXCEPT ![c].recorded = @ \/ type = "payment.succeeded"]
            /\ credits' = IF type = "payment.succeeded" /\ checkout[c].purpose = "EXTRA_CREDITS"
                          THEN [credits EXCEPT ![c].bought = @ + Quantity] ELSE credits

ApplyBillingEvent(id, type, c, authorized, at) ==
    /\ applied' = applied \union {id}
    /\ IF id \in applied \/ ~(authorized \/ plan.source = c)
       THEN UNCHANGED <<checkout, mapped, plan, payment, credits>>
       ELSE /\ checkout' = [checkout EXCEPT ![c].status = StatusAfter(type, c, authorized, at)]
            /\ plan' = PlanAfter(type, c, authorized, at)
            /\ mapped' = IF Attributed(type, c, at, authorized) THEN mapped \union {c} ELSE mapped
            /\ payment' = [payment EXCEPT ![c].recorded = @ \/ type = "payment.succeeded"]
            /\ credits' = IF type = "payment.succeeded" /\ checkout[c].purpose = "EXTRA_CREDITS"
                          THEN [credits EXCEPT ![c].bought = @ + Quantity] ELSE credits

Webhook(e) == <<e, "webhook">>

\* The credits that a refund of this much takes back, rounded up.
Share(refunded) == Min({Quantity, (refunded * Quantity + Price - 1) \div Price})

ApplyBillingReversal(e, c, amount) ==
    /\ applied' = applied \union {Webhook(e)}
    /\ IF Webhook(e) \in applied THEN UNCHANGED <<plan, payment, credits>>
       ELSE LET refunded == Min({payment[c].refunded + amount, Price})
            IN /\ payment' = [payment EXCEPT ![c].refunded = refunded]
               /\ credits' = IF checkout[c].purpose = "EXTRA_CREDITS"
                             THEN [credits EXCEPT ![c].reversed = Max({@, Share(refunded)})] ELSE credits
               /\ plan' = IF refunded = Price /\ plan.source = c /\ plan.at <= e
                          THEN [plan EXCEPT !.status = "PAST_DUE", !.at = e] ELSE plan
    /\ UNCHANGED <<checkout, mapped>>

Superseded(c) ==
    \/ plan.source \notin {None, c}
    \/ \E d \in Known : d > c /\ checkout[d].purpose = "PROFESSIONAL" /\ checkout[d].status # "FAILED"

ApplyDunningRecovery(e, c) ==
    /\ IF Superseded(c) \/ Webhook(e) \in applied THEN UNCHANGED <<applied, plan>>
       ELSE /\ applied' = applied \union {Webhook(e)}
            /\ plan' = IF plan.at <= e
                       THEN [name |-> "PROFESSIONAL", status |-> "ACTIVE", source |-> c, at |-> e]
                       ELSE plan
    /\ UNCHANGED <<checkout, mapped, payment, credits>>

\* A purchase that was paid before the next was asked for is applied at once,
\* as an event of this moment.
Activate(r) ==
    LET c == request[r].checkout
        type == request[r].type
    IN /\ At(r, "activate")
       /\ ApplyBillingEvent(<<c, type>>, type, c, Open(c), Len(events))
       /\ Goes(r, Asks("PROFESSIONAL"))
       /\ UNCHANGED <<providerVars, queueVars>>

-----------------------------------------------------------------------------
\* The inbox. A webhook is stored once, whatever the number of its deliveries.
EnqueueWebhook(e) ==
    /\ e \in DOMAIN events /\ inbox[e].status = "none"
    /\ inbox' = [inbox EXCEPT ![e].status = "PENDING"]
    /\ UNCHANGED <<checkout, providerVars, jobs, accountVars, request>>

Exhausted(e) == inbox[e].attempts >= MaxAttempts
Processing == {e \in EventIds : inbox[e].status = "PROCESSING"}

\* A claim first gives up the rows whose last attempt has run out of time. A lock
\* lasts five minutes: of the rows at work, any may have run out of it.
ClaimWebhook ==
    \E expired \in SUBSET Processing :
        LET swept == [e \in EventIds |-> IF e \in expired /\ Exhausted(e)
                                         THEN [inbox[e] EXCEPT !.status = "DEAD_LETTER"] ELSE inbox[e]]
            due == {e \in EventIds : (inbox[e].status = "PENDING" \/ e \in expired) /\ ~Exhausted(e)}
        IN /\ \/ \E e \in due :
                    /\ Cardinality(jobs) < MaxJobs
                    /\ inbox' = [swept EXCEPT ![e] = [status |-> "PROCESSING", attempts |-> @.attempts + 1]]
                    /\ jobs' = jobs \union {[event |-> e, attempt |-> inbox[e].attempts + 1,
                                             step |-> "look", authorized |-> FALSE]}
              \/ due = {} /\ swept # inbox /\ inbox' = swept /\ UNCHANGED jobs
           /\ UNCHANGED <<checkout, providerVars, accountVars, request>>

Holds(j) == inbox[j.event].status = "PROCESSING" /\ inbox[j.event].attempts = j.attempt
Moves(j, step, authorized) ==
    jobs' = (jobs \ {j}) \union {[j EXCEPT !.step = step, !.authorized = authorized]}
Done(j) == jobs' = jobs \ {j}
TypeOf(j) == events[j.event].type
CheckoutOf(j) == events[j.event].checkout

\* Events that may be acknowledged without being applied: recoveries, those of
\* another product and payments that nothing tells what they are for.
Dismissible(e) ==
    \/ events[e].type = "dunning.recovered"
    \/ events[e].type = "payment.succeeded" /\ events[e].says = "nothing"
    \/ events[e].says = "other"

\* The provider is asked whether a recovered subscription is active.
Dismissed(j) ==
    Dismissible(j.event) /\ (TypeOf(j) = "dunning.recovered" => remote[CheckoutOf(j)] # "active")

IsSubscription(type) ==
    type \in {"subscription.active", "subscription.on_hold", "subscription.cancelled", "subscription.failed"}

\* What cannot be looked up raises, and has to wait: a subscription without stored
\* attribution or metadata of its own, and the recovery of another product.
Waits(j) ==
    \/ IsSubscription(TypeOf(j)) /\ CheckoutOf(j) \notin mapped /\ events[j.event].says = "nothing"
    \/ TypeOf(j) = "dunning.recovered" /\ events[j.event].says = "other"

Routed(j) ==
    IF Dismissed(j) THEN Moves(j, "complete", FALSE) ELSE Moves(j, "apply", Open(CheckoutOf(j)))

\* Seeded fault: a subscription that cannot be looked up yet is acknowledged.
LookUpIgnoring(j) ==
    /\ j.step = "look"
    /\ IF Waits(j) THEN Moves(j, "complete", FALSE) ELSE Routed(j)
    /\ UNCHANGED <<checkout, providerVars, inbox, accountVars, request>>

\* Routing, and the reading part of the transaction.
LookUp(j) ==
    /\ j.step = "look" /\ ~Waits(j) /\ Routed(j)
    /\ UNCHANGED <<checkout, providerVars, inbox, accountVars, request>>

\* A reversal of an unknown payment and a recovery of an unknown subscription raise.
Raises(j) ==
    \/ TypeOf(j) = "refund.succeeded" /\ ~payment[CheckoutOf(j)].recorded
    \/ TypeOf(j) = "dunning.recovered" /\ CheckoutOf(j) \notin mapped

ApplyWebhook(j) ==
    /\ j.step = "apply" /\ ~Raises(j)
    /\ CASE TypeOf(j) = "refund.succeeded" ->
              ApplyBillingReversal(j.event, CheckoutOf(j), events[j.event].amount)
         [] TypeOf(j) = "dunning.recovered" -> ApplyDunningRecovery(j.event, CheckoutOf(j))
         [] OTHER -> ApplyBillingEvent(Webhook(j.event), TypeOf(j), CheckoutOf(j), j.authorized, j.event)
    /\ Moves(j, "complete", FALSE)
    /\ UNCHANGED <<providerVars, inbox, request>>

CompleteWebhook(j) ==
    /\ j.step = "complete"
    /\ inbox' = IF Holds(j) THEN [inbox EXCEPT ![j.event].status = "PROCESSED"] ELSE inbox
    /\ Done(j)
    /\ UNCHANGED <<checkout, providerVars, accountVars, request>>

\* A call failed, in vain or after it took effect, or raised: the row is given back.
FailWebhook(j) ==
    /\ inbox' = IF Holds(j) THEN [inbox EXCEPT ![j.event].status =
                                    IF Exhausted(j.event) THEN "DEAD_LETTER" ELSE "PENDING"]
                ELSE inbox
    /\ Done(j)
    /\ UNCHANGED <<checkout, providerVars, accountVars, request>>

WorkerDies(j) ==
    /\ Done(j)
    /\ UNCHANGED <<checkout, providerVars, inbox, accountVars, request>>

Process(j) == LookUp(j) \/ ApplyWebhook(j) \/ CompleteWebhook(j) \/ FailWebhook(j) \/ WorkerDies(j)

Next ==
    \/ \E c \in Known : Pays(c) \/ Collects(c) \/ Lifecycle(c) \/ Refunds(c)
    \/ \E r \in Requests :
          \/ \E p \in Purposes : CreateCheckout(r, p)
          \/ Activate(r) \/ BeginCheckout(r) \/ InsertIntent(r) \/ RequestCheckout(r)
          \/ CompleteIntent(r)
    \/ \E e \in EventIds : EnqueueWebhook(e)
    \/ ClaimWebhook
    \/ \E j \in jobs : Process(j)

Spec == Init /\ [][Next]_vars

-----------------------------------------------------------------------------
\* The credits of a checkout are bought once and for money: whatever is delivered
\* twice, retried, reordered or refunded in parts, they are those of the recorded
\* payment, and what is taken back is the share of what the provider has refunded.
CreditsMatchPayments ==
    \A c \in Checkouts :
        /\ credits[c].bought > 0 => remote[c] = "paid"
        /\ credits[c].bought = IF c \in Known /\ checkout[c].purpose = "EXTRA_CREDITS" /\ payment[c].recorded
                               THEN Quantity ELSE 0
        /\ credits[c].reversed = IF credits[c].bought = 0 THEN 0 ELSE Share(payment[c].refunded)
        /\ payment[c].refunded <= refunds[c]

\* The subscription never goes back: an event older than the last one that changed
\* it changes nothing, and a subscription that still has a source gives way only
\* to a later purchase, and only when it is past due.
OnlyNewerTakesOver ==
    [][plan' # plan =>
        /\ plan'.at >= plan.at
        /\ {plan.source, plan'.source} \subseteq Checkouts /\ plan'.source # plan.source =>
              plan.status = "PAST_DUE" /\ plan'.source > plan.source]_vars

\* A webhook is acknowledged only when it has been applied, however workers overlap,
\* fail and die: a subscription that is not bound to its checkout yet is tried again,
\* and so is a refund whose payment is still unknown. (The recovery of a subscription
\* that is not active any more or has been superseded, an event of another product,
\* and a payment that nothing tells what it is for are acknowledged and let go.)
ProcessedIsApplied ==
    \A e \in DOMAIN events :
        inbox[e].status = "PROCESSED" /\ ~Dismissible(e) => Webhook(e) \in applied
=============================================================================
