------------------------ MODULE MCInterviewLifecycle ------------------------
(***************************************************************************)
(* InterviewLifecycle on the small instances of the .cfg files.  It extends *)
(* the proofs, so that TLC evaluates the assumption on the constants and may *)
(* check the inductive invariant IInv as well.                             *)
(***************************************************************************)
EXTENDS InterviewLifecycleProofs
=============================================================================
