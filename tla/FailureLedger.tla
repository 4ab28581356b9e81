--------------------------- MODULE FailureLedger ---------------------------
(***************************************************************************)
(* The ledger of operational failures (operational_failures): a queue that  *)
(* fails leaves an entry, and a job of every minute gives what failed        *)
(* another chance, until the entry is dead or the work has been done.        *)
(*                                                                         *)
(* The quarter of an hour between two chances is left out: an entry that is *)
(* being retried may be looked at again at any time.                        *)
(***************************************************************************)
EXTENDS Naturals

CONSTANT MaxRecoveries   \* chances given before an entry is dead

ASSUME RecoveriesAssumption == MaxRecoveries \in Nat

Entries == [status : {"none", "OPEN", "RETRYING", "DEAD", "RESOLVED"}, chances : 0..MaxRecoveries]
Unfailed == [status |-> "none", chances |-> 0]

\* A failure is seen, for the first time or again.
Captured(entry) ==
    IF entry.status \in {"RETRYING", "DEAD"} THEN entry ELSE [entry EXCEPT !.status = "OPEN"]

\* The work was done after all.
Resolved(entry) ==
    IF entry.status = "RETRYING" THEN [entry EXCEPT !.status = "RESOLVED"] ELSE entry

\* What the recovery finds to do, and what it makes of an entry.
Due(entry) == entry.status \in {"OPEN", "RETRYING"}
Closes(entry) == [entry EXCEPT !.status = "RESOLVED"]
Retries(entry) == [entry EXCEPT !.status = "RETRYING", !.chances = @ + 1]
Buries(entry) == [entry EXCEPT !.status = "DEAD"]
Hopeless(entry) == entry.chances >= MaxRecoveries
=============================================================================
