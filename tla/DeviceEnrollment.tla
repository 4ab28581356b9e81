-------------------------- MODULE DeviceEnrollment --------------------------
(***************************************************************************)
(* How a candidate's device becomes the one device of a verification         *)
(* session: consent on the portal prepares a secret, a verifier that is      *)
(* opened with it answers the server's challenge with a fresh key, and the   *)
(* server binds the first key that completes. Requests outlive the process   *)
(* that sent them, answers get lost, and a verifier may exit at any time.    *)
(*                                                                         *)
(* Signatures are left out: a verifier that holds a key can sign with it.    *)
(* A machine runs one verifier at a time.                                   *)
(***************************************************************************)
EXTENDS Naturals

CONSTANTS
    Machines,     \* computers on which the candidate opens the setup link
    Windows,      \* those that run Windows; the others run macOS
    MaxKeys,      \* bound of the model on the keys that verifiers generate
    MaxAttempts   \* challenges of a secret before it expires (20 in the code)

ASSUME EnrollmentAssumption ==
    /\ Windows \subseteq Machines /\ "none" \notin Machines
    /\ MaxKeys \in Nat /\ MaxAttempts \in Nat \ {0}

VARIABLES
    session,    \* the verification session, as far as enrollment depends on it
    portal,     \* the candidate's tab
    secret,     \* the secret of the session, attempts counted
    device,     \* the device that is bound to the session, or NoDevice
    requests,   \* completions that the API has not finished
    disk,       \* the verifier's credential on each machine
    verifier,   \* what the verifier on each machine does, and with which key
    keys        \* keys generated so far

enrollmentVars == <<session, portal, secret, device, requests, disk, verifier, keys>>

Key == 1..MaxKeys
NoDevice == [machine |-> "none", key |-> 0]
NoCredential == [kind |-> "none", key |-> 0]
Off == [at |-> "off", key |-> 0]

EnrollmentTypeOK ==
    /\ session \in {"CONSENT_PENDING", "CONSENTED", "MONITORING_ACTIVE", "ENDED"}
    /\ portal \in {"form", "prepare", "accepted", "gone"}
    /\ secret \in [status : {"none", "active", "consumed"}, expired : BOOLEAN,
                   attempts : 0..MaxAttempts]
    /\ device \in [machine : Machines, key : Key] \union {NoDevice}
    /\ requests \subseteq [machine : Machines, key : Key, step : {"challenge", "complete", "replay"}]
    /\ disk \in [Machines -> [kind : {"pending", "identity"}, key : Key] \union {NoCredential}]
    /\ verifier \in [Machines ->
        [at : {"off", "challenge", "keys", "post", "wait", "save", "run"}, key : Key \union {0}]]
    /\ keys \in 0..MaxKeys

EnrollmentInit ==
    /\ session = "CONSENT_PENDING" /\ portal = "form"
    /\ secret = [status |-> "none", expired |-> FALSE, attempts |-> 0]
    /\ device = NoDevice /\ requests = {}
    /\ disk = [m \in Machines |-> NoCredential]
    /\ verifier = [m \in Machines |-> Off] /\ keys = 0

-----------------------------------------------------------------------------
(***************************************************************************)
(* The portal. Consent and the preparation of the secret are two calls of    *)
(* the API; the form may be submitted again when their answer was lost.      *)
(***************************************************************************)
Consent ==
    /\ portal = "form" /\ session \in {"CONSENT_PENDING", "CONSENTED", "MONITORING_ACTIVE"}
    /\ session' = IF session = "CONSENT_PENDING" THEN "CONSENTED" ELSE session
    /\ portal' = "prepare"
    /\ UNCHANGED <<secret, device, requests, disk, verifier, keys>>

\* The secret is derived from the candidate's link and unique: it is inserted
\* once, and an expired or used one makes the second insert fail.
Prepare ==
    /\ portal = "prepare"
    /\ session = "CONSENTED" /\ device = NoDevice
    /\ secret.status = "none" \/ (secret.status = "active" /\ ~secret.expired)
    /\ secret' = [secret EXCEPT !.status = "active"]
    /\ portal' \in {"accepted", "form"}
    /\ UNCHANGED <<session, device, requests, disk, verifier, keys>>

\* The call fails, or the API process dies between the two.
PrepareFails ==
    /\ portal = "prepare"
    /\ portal' = "form"
    /\ UNCHANGED <<session, secret, device, requests, disk, verifier, keys>>

\* The tab is closed or reloaded before it shows the setup link: the candidate's
\* link was used and does not open again.
LeavePortal ==
    /\ session # "CONSENT_PENDING" /\ portal \in {"form", "prepare"}
    /\ portal' = "gone"
    /\ UNCHANGED <<session, secret, device, requests, disk, verifier, keys>>

SecretExpires ==
    /\ secret.status = "active" /\ ~secret.expired
    /\ secret' = [secret EXCEPT !.expired = TRUE]
    /\ UNCHANGED <<session, portal, device, requests, disk, verifier, keys>>

\* The interview is cancelled, monitoring is stopped, or its window ends.
SessionEnds ==
    /\ session \in {"CONSENTED", "MONITORING_ACTIVE"}
    /\ session' = "ENDED"
    /\ UNCHANGED <<portal, secret, device, requests, disk, verifier, keys>>

-----------------------------------------------------------------------------
(***************************************************************************)
(* The verifier.                                                           *)
(***************************************************************************)
Go(m, at, key) == verifier' = [verifier EXCEPT ![m] = [at |-> at, key |-> key]]
Does(m, at) == verifier[m].at = at

\* The setup link, once shown, opens the verifier: with its identity, with the key
\* it was about to enroll (Windows only), or with neither. What a verifier does
\* after the end of the session is part of AgentTelemetry.
Launch(m) ==
    /\ Does(m, "off") /\ portal = "accepted" /\ session # "ENDED"
    /\ CASE disk[m].kind = "identity" -> Go(m, "run", disk[m].key)
         [] disk[m].kind = "pending" -> Go(m, "post", disk[m].key)
         [] OTHER -> Go(m, "challenge", 0)
    /\ UNCHANGED <<session, portal, secret, device, requests, disk, keys>>

\* The secret can still be used; anything else consumes it.
Usable == secret.status = "active" /\ ~secret.expired /\ secret.attempts < MaxAttempts
ChallengeAnswered == Usable /\ session = "CONSENTED"

\* What authenti8_device_enrollment_challenge leaves behind.
AfterChallenge ==
    IF ChallengeAnswered THEN [secret EXCEPT !.attempts = @ + 1]
    ELSE IF secret.status = "active" /\ ~Usable THEN [secret EXCEPT !.status = "consumed"]
    ELSE secret

AskChallenge(m) ==
    /\ Does(m, "challenge")
    /\ secret' = AfterChallenge
    /\ \/ ChallengeAnswered /\ Go(m, "keys", 0)
       \/ Go(m, "off", 0)
    /\ UNCHANGED <<session, portal, device, requests, disk, keys>>

\* Seeded fault: the key is only written once it is enrolled.
GenerateKeysUnsaved(m) ==
    /\ Does(m, "keys") /\ keys < MaxKeys
    /\ keys' = keys + 1
    /\ Go(m, "post", keys + 1)
    /\ UNCHANGED <<session, portal, secret, device, requests, disk>>

\* A fresh key, which Windows writes to disk before it is sent anywhere.
GenerateKeys(m) ==
    /\ Does(m, "keys") /\ keys < MaxKeys
    /\ keys' = keys + 1
    /\ disk' = IF m \in Windows
               THEN [disk EXCEPT ![m] = [kind |-> "pending", key |-> keys + 1]] ELSE disk
    /\ Go(m, "post", keys + 1)
    /\ UNCHANGED <<session, portal, secret, device, requests>>

Post(m) ==
    /\ Does(m, "post")
    /\ requests' = requests \union
        {[machine |-> m, key |-> verifier[m].key, step |-> "challenge"]}
    /\ Go(m, "wait", verifier[m].key)
    /\ UNCHANGED <<session, portal, secret, device, disk, keys>>

SaveIdentity(m) ==
    /\ Does(m, "save")
    /\ disk' = [disk EXCEPT ![m] = [kind |-> "identity", key |-> verifier[m].key]]
    /\ Go(m, "run", verifier[m].key)
    /\ UNCHANGED <<session, portal, secret, device, requests, keys>>

\* The process ends: by a crash, an error, or a request it gave up waiting for.
Exit(m) ==
    /\ ~Does(m, "off")
    /\ verifier' = [verifier EXCEPT ![m] = Off]
    /\ UNCHANGED <<session, portal, secret, device, requests, disk, keys>>

-----------------------------------------------------------------------------
(***************************************************************************)
(* DeviceEnrollmentService.complete: three calls of the database, between    *)
(* which other requests run.                                               *)
(***************************************************************************)
Continue(r, step) == requests' = (requests \ {r}) \union {[r EXCEPT !.step = step]}

\* The answer reaches the verifier that waits for it, or nobody.
Answer(r, enrolled) ==
    /\ requests' = requests \ {r}
    /\ \/ UNCHANGED verifier
       \/ /\ verifier[r.machine] = [at |-> "wait", key |-> r.key]
          /\ IF enrolled THEN Go(r.machine, "save", r.key) ELSE Go(r.machine, "off", 0)

Recheck(r) ==
    /\ r.step = "challenge"
    /\ secret' = AfterChallenge
    /\ Continue(r, IF ChallengeAnswered THEN "complete" ELSE "replay")
    /\ UNCHANGED <<session, portal, device, disk, verifier, keys>>

\* The first completion binds its key and uses the secret up.
Complete(r) ==
    LET binds == /\ secret.status = "active" /\ ~secret.expired
                 /\ session = "CONSENTED" /\ device = NoDevice
    IN /\ r.step = "complete"
       /\ IF binds
          THEN /\ device' = [machine |-> r.machine, key |-> r.key]
               /\ secret' = [secret EXCEPT !.status = "consumed"]
          ELSE UNCHANGED <<device, secret>>
       /\ Answer(r, binds)
       /\ UNCHANGED <<session, portal, disk, keys>>

\* A used secret answers once more to the key that it enrolled.
Replayable(key) == secret.status = "consumed" /\ device.key = key

Replay(r) ==
    /\ r.step = "replay"
    /\ Answer(r, Replayable(r.key))
    /\ UNCHANGED <<session, portal, secret, device, disk, keys>>

\* All steps but Exit.
EnrollmentNext ==
    \/ Consent \/ Prepare \/ PrepareFails \/ LeavePortal \/ SecretExpires \/ SessionEnds
    \/ \E m \in Machines :
        Launch(m) \/ AskChallenge(m) \/ GenerateKeys(m) \/ Post(m) \/ SaveIdentity(m)
    \/ \E r \in requests : Recheck(r) \/ Complete(r) \/ Replay(r)

-----------------------------------------------------------------------------
\* While the session lasts, a Windows machine that was enrolled can always get its
\* identity, whenever the verifier died and whichever answer was lost: the key is
\* on its disk, and the server answers a repeated completion with it.
EnrolledKeyIsKept ==
    session # "ENDED" /\ device.machine \in Windows =>
        /\ disk[device.machine].key = device.key
        /\ Replayable(device.key)

=============================================================================
