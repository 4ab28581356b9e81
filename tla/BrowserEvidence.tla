-------------------------- MODULE BrowserEvidence ---------------------------
(***************************************************************************)
(* From the candidate's browser to the server: the extension reports the     *)
(* health of its profile and the extensions that a rule matches, the native  *)
(* host spools the report on the machine, and the verifier of the enrolled   *)
(* device moves it into its signed event chain and on to the server.         *)
(*                                                                         *)
(* The spool belongs to the machine and outlives every process; it hands its *)
(* content out as a claim and forgets it when the claim is acknowledged. The  *)
(* verifier saves each event together with its place in the claim.           *)
(*                                                                         *)
(* Signing, sequence numbers and refusals are part of AgentTelemetry.         *)
(***************************************************************************)
EXTENDS DeviceEnrollment, Sequences, FiniteSets

CONSTANTS
    Browsers,     \* Windows machines with the candidate extension
    Observations, \* what the extension may find: a profile, a rule pack, extensions
    MaxItems,     \* bound of the model on the items that are reported
    QueueLimit,   \* items that the spool keeps (500 in the code)
    MaxExcuses    \* bound of the model on reports that the browser is missing

ASSUME BrowserAssumption ==
    /\ Browsers \subseteq Windows
    /\ Observations \subseteq [proved : BOOLEAN, packVerified : BOOLEAN, extensions : Nat]
    /\ MaxItems \in Nat /\ MaxExcuses \in Nat /\ QueueLimit \in Nat \ {0}

VARIABLES
    reported,   \* every item that a machine's spool took in, oldest first
    dropped,    \* the places of those that a full spool dropped
    spool,      \* each machine's queue, and the items of its open claim
    kept,       \* what is saved with the identity: events to send, place in a claim
    memory,     \* what the running verifier knows beyond that
    stored      \* browser events that the server has recorded; is the next one sent among them?

evidenceVars == <<reported, dropped, spool, kept, memory, stored>>
vars == <<enrollmentVars, evidenceVars>>

Kinds == {"verified", "RULE_PACK_UNAVAILABLE", "PROFILE_MISMATCH", "match"}
Item == [place : 1..MaxItems, kind : Kinds]
Unavailable == [place |-> 0, kind |-> "EXTENSION_DISABLED"]
Event == Item \union {Unavailable}
NoClaim == [id |-> 0, next |-> 0]

\* The type invariant.
TypeOK ==
    /\ EnrollmentTypeOK
    /\ reported \in [Browsers -> Seq(Kinds)] /\ dropped \in [Browsers -> SUBSET (1..MaxItems)]
    /\ spool \in [Browsers -> [queue : Seq(Item), claim : Seq(Item)]]
    /\ kept \in [pending : Seq(Event), claim : [id : Nat, next : Nat]]
    /\ memory \in [completing : BOOLEAN, excused : BOOLEAN]
    /\ stored \in [events : Seq(Event), next : BOOLEAN]

Fresh == [completing |-> FALSE, excused |-> FALSE]
NothingKept == [pending |-> <<>>, claim |-> NoClaim]

Init ==
    /\ EnrollmentInit
    /\ reported = [m \in Browsers |-> <<>>] /\ dropped = [m \in Browsers |-> {}]
    /\ spool = [m \in Browsers |-> [queue |-> <<>>, claim |-> <<>>]]
    /\ kept = NothingKept /\ memory = Fresh
    /\ stored = [events |-> <<>>, next |-> FALSE]

-----------------------------------------------------------------------------
(***************************************************************************)
(* The extension and its native host. A report is lost when the host cannot  *)
(* be reached; the extension then reports anew, so that is no step.          *)
(***************************************************************************)

\* The first item of every report: did a Meet tab prove this profile within the
\* last 15 seconds, and is the rule pack, fetched or cached, signed and current?
Health(proved, packVerified) ==
    IF ~packVerified THEN "RULE_PACK_UNAVAILABLE"
    ELSE IF proved THEN "verified" ELSE "PROFILE_MISMATCH"

\* Without a verified pack there is no rule that an extension could match.
Matches(packVerified, n) == IF packVerified THEN [k \in 1..n |-> "match"] ELSE <<>>

\* synchronize and extensionChanged: the spool takes in the whole report, and
\* drops the oldest items of its queue when there are too many.
Report(m) ==
    \E o \in Observations :
        LET report == <<Health(o.proved, o.packVerified)>> \o Matches(o.packVerified, o.extensions)
            first == Len(reported[m])
            all == spool[m].queue \o
                   [k \in 1..Len(report) |-> [place |-> first + k, kind |-> report[k]]]
            excess == IF Len(all) > QueueLimit THEN Len(all) - QueueLimit ELSE 0
        IN /\ first + Len(report) <= MaxItems
           /\ reported' = [reported EXCEPT ![m] = @ \o report]
           /\ dropped' = [dropped EXCEPT ![m] = @ \union {all[k].place : k \in 1..excess}]
           /\ spool' = [spool EXCEPT ![m].queue = SubSeq(all, excess + 1, Len(all))]
           /\ UNCHANGED <<enrollmentVars, kept, memory, stored>>

-----------------------------------------------------------------------------
(***************************************************************************)
(* transferBrowserEvidence. There is one verifier with an identity, so what  *)
(* it keeps and knows needs no index.                                       *)
(***************************************************************************)
Running(m) == Does(m, "run") /\ session # "ENDED"
Monitoring(m) == m \in Browsers /\ Running(m) /\ session = "MONITORING_ACTIVE"

\* The server records MONITORING_STARTED.
StartMonitoring(m) ==
    /\ Running(m) /\ session = "CONSENTED"
    /\ session' = "MONITORING_ACTIVE"
    /\ UNCHANGED <<portal, secret, device, requests, disk, verifier, keys, evidenceVars>>

\* Seeded fault: a claim also takes in what was spooled after it was opened.
ClaimMore(m) ==
    /\ Monitoring(m) /\ ~memory.completing /\ spool[m].queue # <<>>
    /\ spool' = [spool EXCEPT ![m] = [queue |-> <<>>, claim |-> @.queue \o @.claim]]
    /\ memory' = [memory EXCEPT !.excused = FALSE]
    /\ UNCHANGED <<enrollmentVars, reported, dropped, kept, stored>>

\* An open claim is handed out again; otherwise the queue becomes the claim.
Claim(m) ==
    /\ Monitoring(m) /\ ~memory.completing
    /\ spool[m].claim = <<>> /\ spool[m].queue # <<>>
    /\ spool' = [spool EXCEPT ![m] = [queue |-> <<>>, claim |-> @.queue]]
    /\ memory' = [memory EXCEPT !.excused = FALSE]
    /\ UNCHANGED <<enrollmentVars, reported, dropped, kept, stored>>

\* A claim is known by its first item, which no other claim contains.
ClaimId(m) == spool[m].claim[1].place
Resumes(m) == kept.claim.id = ClaimId(m)

\* How many items of the open claim are in the event chain already.
NextIndex(m) == IF Resumes(m) THEN kept.claim.next ELSE 0

\* enqueueClaimed: the event and the place after it are saved in one write.
Move(m) ==
    /\ Monitoring(m) /\ ~memory.completing
    /\ spool[m].claim # <<>> /\ NextIndex(m) < Len(spool[m].claim)
    /\ kept' = [pending |-> Append(kept.pending, spool[m].claim[NextIndex(m) + 1]),
                claim |-> [id |-> ClaimId(m), next |-> NextIndex(m) + 1]]
    /\ UNCHANGED <<enrollmentVars, reported, dropped, spool, memory, stored>>

Acknowledge(m) ==
    /\ Monitoring(m) /\ ~memory.completing
    /\ spool[m].claim # <<>> /\ NextIndex(m) = Len(spool[m].claim)
    /\ spool' = [spool EXCEPT ![m].claim = <<>>]
    /\ memory' = [memory EXCEPT !.completing = TRUE]
    /\ UNCHANGED <<enrollmentVars, reported, dropped, kept, stored>>

CompleteBrowserClaim(m) ==
    /\ Monitoring(m) /\ memory.completing
    /\ kept' = [kept EXCEPT !.claim = NoClaim]
    /\ memory' = [memory EXCEPT !.completing = FALSE]
    /\ UNCHANGED <<enrollmentVars, reported, dropped, spool, stored>>

Excuses == Cardinality({k \in 1..Len(stored.events \o kept.pending) :
                            (stored.events \o kept.pending)[k] = Unavailable})

\* Nothing was spooled for 45 seconds: the browser is reported missing, once.
ReportUnavailable(m) ==
    /\ Monitoring(m) /\ ~memory.completing /\ ~memory.excused /\ Excuses < MaxExcuses
    /\ spool[m].claim = <<>> /\ spool[m].queue = <<>>
    /\ kept' = [kept EXCEPT !.pending = Append(@, Unavailable)]
    /\ memory' = [memory EXCEPT !.excused = TRUE]
    /\ UNCHANGED <<enrollmentVars, reported, dropped, spool, stored>>

\* flush: the head of the queue is sent. If the answer is lost it is sent again,
\* and the server recognizes what it has recorded.
Send(m, answered) ==
    /\ Monitoring(m) /\ kept.pending # <<>>
    /\ stored' = [events |-> IF stored.next THEN stored.events
                             ELSE Append(stored.events, Head(kept.pending)),
                  next |-> ~answered]
    /\ kept' = IF answered THEN [kept EXCEPT !.pending = Tail(@)] ELSE kept
    /\ UNCHANGED <<enrollmentVars, reported, dropped, spool, memory>>

ExitVerifier(m) ==
    /\ Exit(m)
    /\ memory' = IF Does(m, "run") THEN Fresh ELSE memory
    /\ UNCHANGED <<reported, dropped, spool, kept, stored>>

Next ==
    \/ EnrollmentNext /\ UNCHANGED evidenceVars
    \/ \E m \in Machines : ExitVerifier(m) \/ StartMonitoring(m)
    \/ \E m \in Browsers :
        \/ Report(m)
        \/ Claim(m) \/ Move(m) \/ Acknowledge(m) \/ CompleteBrowserClaim(m)
        \/ ReportUnavailable(m) \/ \E answered \in BOOLEAN : Send(m, answered)

Spec == Init /\ [][Next]_vars

-----------------------------------------------------------------------------
Unsent == IF stored.next THEN Tail(kept.pending) ELSE kept.pending
Unclaimed(m) == IF spool[m].claim = <<>> THEN <<>>
                ELSE SubSeq(spool[m].claim, NextIndex(m) + 1, Len(spool[m].claim))

\* Where the items of a machine are: recorded, in the event chain, in the rest of
\* the open claim, or in the queue. The chain also holds reports of a missing browser.
Trail(m) ==
    LET sent == IF device.machine = m THEN stored.events \o Unsent ELSE <<>>
    IN sent \o (Unclaimed(m) \o spool[m].queue)
Items(trail) == {k \in DOMAIN trail : trail[k] # Unavailable}
Ordered(trail) == \A j, k \in Items(trail) : j < k => trail[j].place < trail[k].place
Places(trail) == {trail[k].place : k \in Items(trail)}

\* While the session lasts, every item that the spool took in is in exactly one
\* place, in its order and unchanged, unless a full queue dropped it: whenever the
\* verifier died and whatever was spooled meanwhile, nothing is lost or sent twice.
EvidenceOnce ==
    session # "ENDED" =>
        \A m \in Browsers :
            /\ Ordered(Trail(m))
            /\ Places(Trail(m)) = DOMAIN reported[m] \ dropped[m]
            /\ \A k \in Items(Trail(m)) : Trail(m)[k].kind = reported[m][Trail(m)[k].place]

=============================================================================
