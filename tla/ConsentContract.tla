--------------------------- MODULE ConsentContract ---------------------------
(***************************************************************************)
(* What Authenti8 promises candidates and customers about one organization's *)
(* interviews, whatever happens in calendars, billing, queues and e-mail:   *)
(* a candidate is invited only against a held credit; monitoring starts only *)
(* after that candidate accepted, takes the held credit and costs exactly   *)
(* one; a refusal, a started monitoring and a credit given back by hand are *)
(* final; and only one interview moves forward in a step.                   *)
(*                                                                         *)
(* InterviewLifecycle, the model of the code, implements this module.       *)
(***************************************************************************)
EXTENDS Integers

CONSTANT Interviews

VARIABLES
    stage,   \* how far each candidate has come
    hold,    \* the credit of each interview
    credit   \* credits of the current period, the unclaimed allowance included

vars == <<stage, hold, credit>>

Stages == {"open", "invited", "accepted", "declined", "monitored", "finished"}
Holdings == {"none", "held", "returned", "given back", "spent"}

\* The type invariant.
TypeOK ==
    /\ stage \in [Interviews -> Stages]
    /\ hold \in [Interviews -> Holdings]
    /\ credit \in Int

Init ==
    /\ stage = [i \in Interviews |-> "open"]
    /\ hold = [i \in Interviews |-> "none"]
    /\ credit \in Int

\* How the credit of an interview moves while no monitoring starts.  Entitlement
\* comes and goes: one transaction may reserve a credit and, settling accounts
\* before it commits, return it in favour of an interview that starts earlier.
CreditMoves(i) ==
    \/ hold'[i] = hold[i]
    \/ hold[i] \in {"none", "held", "returned"} /\ hold'[i] \in {"held", "returned"}
    \/ hold[i] \in {"held", "returned"} /\ hold'[i] = "given back"

Untouched(i) == stage'[i] = stage[i] /\ hold'[i] = hold[i]

\* An interview goes back to the start, or waits there.
Lapse(i) ==
    /\ stage[i] \in {"open", "invited", "accepted"} /\ hold[i] # "spent"
    /\ stage'[i] = "open"
    /\ CreditMoves(i)

\* A start outside the window returns the credit of an accepted candidate.
LateStart(i) ==
    /\ stage[i] = "accepted" /\ stage'[i] = "accepted"
    /\ hold[i] = "held" /\ hold'[i] = "returned"

Background(i) == Untouched(i) \/ Lapse(i) \/ LateStart(i)

Moves(i, from, to) == stage[i] = from /\ hold[i] = "held" /\ stage'[i] = to

Offer(i) == Moves(i, "open", "invited") /\ hold'[i] = "held"
Accept(i) == Moves(i, "invited", "accepted") /\ hold'[i] = "held"
Decline(i) == Moves(i, "invited", "declined") /\ hold'[i] = "returned"
Finish(i) == stage[i] = "monitored" /\ stage'[i] = "finished" /\ hold'[i] = hold[i]

Alone(i) == credit' = credit /\ \A j \in Interviews \ {i} : Untouched(j)

\* Charging may make the entitlement change for every other interview.
Start(i) ==
    /\ Moves(i, "accepted", "monitored") /\ hold'[i] = "spent"
    /\ credit' = credit - 1
    /\ \A j \in Interviews \ {i} : Background(j)

\* Bookkeeping: calendars, billing, expiry.
Manage == credit' \in Int /\ \A i \in Interviews : Background(i)

Next ==
    /\ stage' \in [Interviews -> Stages] /\ hold' \in [Interviews -> Holdings]
    /\ \/ \E i \in Interviews : (Offer(i) \/ Accept(i) \/ Decline(i) \/ Finish(i)) /\ Alone(i)
       \/ \E i \in Interviews : Start(i)
       \/ Manage

Spec == Init /\ [][Next]_vars

-----------------------------------------------------------------------------
\* Exactly the interviews whose monitoring has started have cost a credit
\* (of the code: theorem MonitoredIsPaid of InterviewLifecycleProofs).
PaidIffMonitored ==
    \A i \in Interviews : hold[i] = "spent" <=> stage[i] \in {"monitored", "finished"}
=============================================================================
