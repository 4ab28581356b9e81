--------------------------- MODULE MCOperations ----------------------------
(* The queues and their recovery with the constants of the .cfg file: one mail in up to  *)
(* two hands at the same time, or the copies of one notification in one hand.            *)
EXTENDS Operations

CONSTANTS
    Mail,   \* the one that waits alone
    Hand    \* the one that delivers copies

McAbout == [m \in Mails |-> "notification"]

McInit ==
    /\ OperationsInit
    /\ \A m \in Mails \ {Mail} : outbox[m].kind \in {"link", outbox[Mail].kind} \intersect {"link", "notice"}

Posted == {m \in Mails : outbox[m].status # "none"}
AtWork == {d \in Deliveries : delivery[d] # Idle}

McNext ==
    /\ OperationsNext
    /\ Posted' \subseteq {Mail}
          \/ (Posted' \subseteq Copies("notification")' /\ AtWork' \subseteq {Hand})

McSpec == McInit /\ [][McNext]_<<vars, report>> /\ Fairness /\ ReportFairness
=============================================================================
