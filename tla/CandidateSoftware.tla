------------------------- MODULE CandidateSoftware -------------------------
(***************************************************************************)
(* The verifier before and after it reaches a candidate: how its versions are *)
(* released (AccuracyRelease), and how one on a candidate's machine is         *)
(* enrolled and reports the browser (BrowserEvidence). The server treats       *)
(* released versions alike, so the two share nothing: a behaviour of this      *)
(* module follows one of them.                                             *)
(***************************************************************************)
EXTENDS BrowserEvidence, AccuracyRelease

SoftwareInit == Init /\ ReleaseInit

SoftwareNext ==
    \/ ReleaseInit /\ Next /\ UNCHANGED releaseVars
    \/ Init /\ ReleaseNext /\ UNCHANGED vars

SoftwareSpec == SoftwareInit /\ [][SoftwareNext]_<<vars, releaseVars>>

\* The type invariant of both.
SoftwareTypeOK == TypeOK /\ ReleaseTypeOK
=============================================================================
