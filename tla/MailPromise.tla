---------------------------- MODULE MailPromise ----------------------------
(***************************************************************************)
(* What the rest of Authenti8 may count on after it has handed over an      *)
(* e-mail: it may arrive never, once or several times, also after it has    *)
(* been given up; but it is reported as sent only when it did arrive or     *)
(* nobody needs it any more, and a report is final.                         *)
(*                                                                         *)
(* EmailOutbox, the model of the code, implements this module; Accounts is  *)
(* built on it.                                                             *)
(***************************************************************************)
CONSTANT Mails

VARIABLES
    posted,    \* the mails handed over
    unneeded,  \* those whose purpose has lapsed
    arrived,   \* those the recipient has received, once or more often
    report     \* what the queue says of each

mailVars == <<posted, unneeded, arrived, report>>

MailInit ==
    /\ posted = {} /\ unneeded = {} /\ arrived = {}
    /\ report = [m \in Mails |-> "open"]

\* A mail may go to several recipients at once.
PostAll(ms) ==
    /\ ms \intersect posted = {} /\ posted' = posted \union ms
    /\ UNCHANGED <<unneeded, arrived, report>>

Post(m) == PostAll({m})

Lapse(m) ==
    /\ m \in posted /\ unneeded' = unneeded \union {m}
    /\ UNCHANGED <<posted, arrived, report>>

\* Some purposes lapse together with their mail.
Withdraw(m) ==
    /\ m \in posted /\ report[m] = "open"
    /\ unneeded' = unneeded \union {m}
    /\ report' = [report EXCEPT ![m] = "given up"]
    /\ UNCHANGED <<posted, arrived>>

Arrive(m) ==
    /\ m \in posted /\ arrived' = arrived \union {m}
    /\ UNCHANGED <<posted, unneeded, report>>

\* One step of a queue may close several mails: nobody looks again at those that were
\* given up.
Settle ==
    /\ report' \in [Mails -> {"open", "given up", "sent"}]
    /\ \A m \in Mails : report'[m] # report[m] =>
          /\ m \in posted /\ report[m] = "open"
          /\ report'[m] = "sent" => m \in arrived \union unneeded
    /\ UNCHANGED <<posted, unneeded, arrived>>

MailNext ==
    \/ Settle \/ \E ms \in SUBSET Mails : PostAll(ms)
    \/ \E m \in Mails : Lapse(m) \/ Withdraw(m) \/ Arrive(m)

MailSpec == MailInit /\ [][MailNext]_mailVars
=============================================================================
