--------------------------- MODULE VerifierUpdate ---------------------------
(***************************************************************************)
(* The Windows verifier replaces itself. At its start it finishes or rolls   *)
(* back an update that was interrupted, asks the server for the supported    *)
(* versions, and hands a newer release to a helper, a detached script that   *)
(* waits for it to end, replaces the installed parts one by one and starts   *)
(* the new verifier.                                                        *)
(*                                                                         *)
(* The machine may go down between any two file operations, and an operation *)
(* of the helper may fail (a file in use, a full disk). A journal beside the  *)
(* executable says how far the helper got. Downloads and packages that do    *)
(* not verify end the verifier or the helper before the first operation.     *)
(* Nothing keeps the candidate from opening the link while the helper works:  *)
(* the verifier then takes its journal for that of an interrupted update. Two *)
(* verifiers or two helpers at the same time are left out.                   *)
(***************************************************************************)
EXTENDS Naturals, Sequences

CONSTANTS
    Platforms,   \* of the candidate's machine; only the Windows verifier updates itself
    Manifests,   \* what the server serves, one after another: version and minimum version
    MaxFailures  \* bound of the model on failed operations, interruptions and overlaps

ASSUME UpdateAssumption ==
    /\ Platforms \subseteq {"WINDOWS", "MACOS"}
    /\ Manifests \in Seq([version : Nat \ {0}, minimum : Nat \ {0}]) /\ Manifests # <<>>
    /\ MaxFailures \in Nat

VARIABLES
    platform,
    deployed,  \* which manifest the server serves now
    package,   \* the version that the last helper was given
    files,     \* the version of each installed part, or Missing
    backup,    \* what the backup directory holds, if there is one
    journal,   \* the phase and the version that the journal names, or NoJournal
    helper,    \* the operations that the helper still has to do
    verifier,  \* "off", "starting" or "running"
    recovery,  \* the operations that a starting verifier still has to do
    failures   \* failed operations of helpers, interruptions, and openings of the
               \* link while a helper was at work ("overlaps")

diskVars == <<files, backup, journal>>
updateVars == <<platform, deployed, package, diskVars, helper, verifier, recovery, failures>>

Missing == 0
Parts == {"native", "installer", "host"}
NoBackup == [p \in {} |-> Missing]
Empty == [p \in Parts |-> Missing]
NoJournal == [phase |-> "none", version |-> Missing]
Phases == {"prepared", "assets_replaced", "commit_executable"}

Out(p) == [op |-> "out", part |-> p]          \* into the backup
In(p) == [op |-> "in", part |-> p]            \* the new version
Remove(p) == [op |-> "remove", part |-> p]
RemoveSaved(p) == [op |-> "removeSaved", part |-> p]
Back(p) == [op |-> "back", part |-> p]        \* from the backup
Write(phase) == [op |-> "journal", phase |-> phase]
Discard == [op |-> "discard"]                 \* the backup
Forget == [op |-> "forget"]                   \* the journal
Start == [op |-> "start"]                     \* the verifier
Operations == {In(p) : p \in Parts \union {"exe"}} \union {Out(p) : p \in Parts}
    \union {Remove(p) : p \in Parts} \union {RemoveSaved(p) : p \in Parts}
    \union {Back(p) : p \in Parts} \union {Write(phase) : phase \in Phases}
    \union {Discard, Forget, Start}

\* The type invariant.
UpdateTypeOK ==
    /\ platform \in Platforms /\ deployed \in DOMAIN Manifests
    /\ files \in [Parts \union {"exe"} -> Nat]
    /\ backup = NoBackup \/ backup \in [Parts -> Nat]
    /\ package \in Nat
    /\ journal = NoJournal \/ journal \in [phase : Phases, version : Nat]
    /\ helper \in Seq(Operations) /\ recovery \in Seq(Operations)
    /\ verifier \in {"off", "starting", "running"}
    /\ failures \in [errors : Nat, interruptions : Nat, overlaps : Nat]

UpdateInit ==
    /\ platform \in Platforms /\ deployed = 1
    /\ files = [p \in Parts \union {"exe"} |-> 1]
    /\ package = Missing /\ backup = NoBackup /\ journal = NoJournal
    /\ helper = <<>> /\ recovery = <<>> /\ verifier = "off"
    /\ failures = [errors |-> 0, interruptions |-> 0, overlaps |-> 0]

-----------------------------------------------------------------------------
(***************************************************************************)
(* What the three programs do to the disk, operation by operation.           *)
(***************************************************************************)
Replace == <<Write("prepared"), Out("native"), In("native"), Out("installer"), In("installer"),
             Out("host"), Write("assets_replaced"), Write("commit_executable"),
             In("host"), In("exe")>>
Finish == <<Discard, Forget, Start>>
GiveUp == <<Remove("native"), Back("native"), Remove("installer"), Back("installer"),
            Remove("host"), Back("host"), Forget>>
RestoreDirectories == <<RemoveSaved("native"), Back("native"), RemoveSaved("installer"),
                        Back("installer"), Remove("host"), Back("host")>>
Cleanup == <<Discard, Forget>>

Saved(p) == p \in DOMAIN backup /\ backup[p] # Missing

\* The new version is unpacked when the backup directory is made and deleted with it.
Unpacked == backup # NoBackup

\* Nothing can be moved to a backup that is gone, no directory back over another, and
\* no executable over one that runs. The commitment is written after the executables
\* were copied from what was unpacked.
Possible(o) ==
    /\ o.op = "out" => files[o.part] = Missing \/ backup # NoBackup
    /\ o = Write("commit_executable") => Unpacked
    /\ o = In("exe") => verifier = "off"
    /\ o.op = "back" => files[o.part] = Missing \/ ~Saved(o.part) \/ o.part = "host"

\* An operation on the disk.
Operate(o) ==
    \/ /\ o.op = "out"
       /\ files' = [files EXCEPT ![o.part] = Missing]
       /\ backup' = IF files[o.part] = Missing THEN backup
                    ELSE [backup EXCEPT ![o.part] = files[o.part]]
       /\ UNCHANGED journal
    \/ /\ o.op = "in"
       /\ files' = IF o.part \in {"native", "installer"} /\ ~Unpacked THEN files
                   ELSE [files EXCEPT ![o.part] = package]
       /\ UNCHANGED <<backup, journal>>
    \/ /\ o.op \in {"remove", "removeSaved"}
       /\ files' = IF o.op = "remove" \/ Saved(o.part)
                   THEN [files EXCEPT ![o.part] = Missing] ELSE files
       /\ UNCHANGED <<backup, journal>>
    \/ /\ o.op = "back"
       /\ files' = IF Saved(o.part) THEN [files EXCEPT ![o.part] = backup[o.part]] ELSE files
       /\ backup' = IF Saved(o.part) THEN [backup EXCEPT ![o.part] = Missing] ELSE backup
       /\ UNCHANGED journal
    \/ o.op = "journal" /\ journal' = [phase |-> o.phase, version |-> package] /\ UNCHANGED <<files, backup>>
    \/ o.op = "discard" /\ backup' = NoBackup /\ UNCHANGED <<files, journal>>
    \/ o.op = "forget" /\ journal' = NoJournal /\ UNCHANGED <<files, backup>>

-----------------------------------------------------------------------------
\* Seeded fault: the phase alone decides.
CommittedByPhase == journal.phase = "commit_executable"

\* Had the helper replaced the executable before it was interrupted?
Committed == journal.phase = "commit_executable" /\ files["exe"] = journal.version

Recovery ==
    IF journal = NoJournal THEN <<>>
    ELSE IF Committed THEN Cleanup ELSE RestoreDirectories \o Cleanup

Begin == verifier' = "starting" /\ recovery' = Recovery

\* The server is deployed with another manifest, of a newer release or again of an
\* older one.
Redeploy ==
    /\ deployed < Len(Manifests) /\ deployed' = deployed + 1
    /\ UNCHANGED <<platform, package, diskVars, helper, verifier, recovery, failures>>

policy == Manifests[deployed]

MoreFailures == failures.errors + failures.interruptions + failures.overlaps < MaxFailures

\* The candidate opens the link, be a helper at work or not.
Launch ==
    /\ verifier = "off"
    /\ \/ helper = <<>> /\ UNCHANGED failures
       \/ helper # <<>> /\ MoreFailures /\ failures' = [failures EXCEPT !.overlaps = @ + 1]
    /\ Begin
    /\ UNCHANGED <<platform, deployed, package, diskVars, helper>>

\* recoverInterruptedUpdate: an error ends the verifier.
Recover ==
    /\ verifier = "starting" /\ recovery # <<>>
    /\ IF Possible(Head(recovery))
       THEN Operate(Head(recovery)) /\ recovery' = Tail(recovery) /\ UNCHANGED verifier
       ELSE verifier' = "off" /\ recovery' = <<>> /\ UNCHANGED diskVars
    /\ UNCHANGED <<platform, deployed, package, helper, failures>>

UpdateAvailable == files["exe"] < policy.version
Unsupported ==
    files["exe"] < policy.minimum /\ (~UpdateAvailable \/ policy.version < policy.minimum)

\* The verifier ends and the helper makes its backup directory.
InstallUpdate ==
    /\ verifier = "starting" /\ recovery = <<>> /\ platform = "WINDOWS"
    /\ UpdateAvailable /\ ~Unsupported /\ helper = <<>>
    /\ verifier' = "off" /\ helper' = Replace \o Finish /\ backup' = Empty
    /\ package' = policy.version
    /\ UNCHANGED <<platform, deployed, files, journal, recovery, failures>>

Supported == platform = "MACOS" \/ (~UpdateAvailable /\ ~Unsupported)

\* The verifier starts to work; the caller says with which detection rules.
StartWork ==
    /\ verifier = "starting" /\ recovery = <<>> /\ Supported
    /\ verifier' = "running"
    /\ UNCHANGED <<platform, deployed, package, diskVars, helper, recovery, failures>>

\* An unsupported version, a server that does not answer, any error, or the end.
Ends ==
    /\ verifier # "off" /\ recovery = <<>>
    /\ verifier' = "off"
    /\ UNCHANGED <<platform, deployed, package, diskVars, helper, recovery, failures>>

Help ==
    /\ helper # <<>>
    /\ \/ Possible(Head(helper)) /\ Operate(Head(helper)) /\ UNCHANGED <<verifier, recovery>>
       \/ /\ Head(helper) = Start /\ UNCHANGED diskVars
          /\ IF verifier = "off" THEN Begin ELSE UNCHANGED <<verifier, recovery>>
    /\ helper' = Tail(helper)
    /\ UNCHANGED <<platform, deployed, package, failures>>

\* An operation fails, by itself or because it is not possible, while the parts are
\* replaced: the helper restores what it saved.
HelperFails ==
    /\ \E k \in DOMAIN helper : helper[k] = In("exe")
    /\ \/ MoreFailures /\ failures' = [failures EXCEPT !.errors = @ + 1]
       \/ ~Possible(Head(helper)) /\ UNCHANGED failures
    /\ helper' = IF Head(helper) = Write("prepared") THEN <<>> ELSE GiveUp
    /\ UNCHANGED <<platform, deployed, package, diskVars, verifier, recovery>>

\* The machine goes down.
Interrupted ==
    /\ helper # <<>> \/ verifier # "off"
    /\ MoreFailures
    /\ helper' = <<>> /\ verifier' = "off" /\ recovery' = <<>>
    /\ failures' = [failures EXCEPT !.interruptions = @ + 1]
    /\ UNCHANGED <<platform, deployed, package, diskVars>>

\* The steps that touch nothing but the installation. The module that EXTENDS this
\* one adds StartWork, Ends and Interrupted, which concern the work as well.
UpdateNext == Redeploy \/ Launch \/ Recover \/ InstallUpdate \/ Help \/ HelperFails

-----------------------------------------------------------------------------
\* However often updates were interrupted, a verifier that works finds both directories
\* in its own version (the native host may be missing: a rollback deletes one that was
\* not yet saved). Where operations of the helper failed instead, a part may be missing,
\* but none is of another version. This is claimed as long as the link was never opened
\* while a helper was at work.
AdvanceTogether ==
    verifier = "running" /\ failures.overlaps = 0 =>
        /\ 0 \in {failures.errors, failures.interruptions} =>
               \A p \in Parts : files[p] \in {Missing, files["exe"]}
        /\ failures.errors = 0 => Missing \notin {files["native"], files["installer"]}

\* apps/windows-agent/README.md: "Updates are complete release archives so the signed
\* executable, native sensors, and installer assets advance together", said of every
\* update that is over, and so of one during which the candidate opened the link again.
\* It does not hold: the verifier that was opened undoes the half of an update of which
\* the helper then does the rest.
EveryUpdateAdvancesTogether ==
    verifier = "running" /\ helper = <<>> /\ failures.errors = 0 /\ failures.interruptions = 0 =>
        \A p \in Parts : files[p] \in {Missing, files["exe"]}
=============================================================================
