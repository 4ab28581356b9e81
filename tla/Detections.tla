----------------------------- MODULE Detections -----------------------------
(***************************************************************************)
(* From a detection rule to a confirmed incident. Operators approve, publish  *)
(* and disable rules; a pack of rules is signed for one platform. A verifier   *)
(* that works holds the pack it loaded, compares what its sensors collect with *)
(* it and queues a signal for each new match; the candidate's browser does the *)
(* same for extensions with a pack of its own, which it caches. The server     *)
(* decides on each signal as it is stored, with the rule as it was in force     *)
(* when the signal was made, and looks again at earlier signals of rules that  *)
(* need the new one as support.                                             *)
(*                                                                         *)
(* Time is counted in publications and withdrawals. Packs do not reach their   *)
(* expiry by themselves, but a verifier may ask for a fresh pack at any moment, *)
(* as it does shortly before its own expires.                                *)
(***************************************************************************)
EXTENDS VerifierUpdate

CONSTANTS
    Rules,     \* name |-> [pack : "NATIVE" or "CHROME", confidence, requires, signs]
    MaxPacks,  \* bound of the model on publications
    MaxTime,   \* bound of the model on publications and withdrawals
    MaxEvents  \* bound of the model on signals

Keys == DOMAIN Rules

ASSUME DetectionAssumption ==
    /\ \A r \in Keys : Rules[r] \in [pack : {"NATIVE", "CHROME"},
           confidence : {"HIGH", "MEDIUM", "LOW"}, requires : SUBSET Keys,
           signs : SUBSET {"OVERLAY", "AUDIO", "ENABLED"}]
    /\ {MaxPacks, MaxTime, MaxEvents} \subseteq Nat

VARIABLES
    time,
    status,     \* of each rule
    disabledAt, \* when a disabled rule was disabled
    packs,      \* the published packs of both kinds, in order
    held,       \* the pack of the verifier
    browser,    \* the pack in the storage of the candidate's browser
    seen,       \* the uses of each tool that the verifier has reported and remembers
    queue,      \* signals on their way; kept when the verifier ends
    stored,     \* signals in the order in which the server stored them
    incidents   \* the places in stored of the confirmed ones

serverVars == <<time, status, disabledAt, packs>>
agentVars == <<held, seen>>
signalVars == <<queue, stored, incidents>>
vars == <<updateVars, serverVars, agentVars, browser, signalVars>>

Never == MaxTime + 1
Fallback == 0  \* the pack of the configuration, or none
Uses == UNION {SUBSET Rules[r].signs : r \in Keys}  \* evidence of active use
Packs == [pack : {"NATIVE", "CHROME"}, rules : SUBSET Keys, from : Nat, until : Nat]
Signals == [rule : Keys, pack : Nat, at : Nat, use : Uses, valid : BOOLEAN]

\* The type invariant.
TypeOK ==
    /\ UpdateTypeOK
    /\ time \in 0 .. MaxTime
    /\ status \in [Keys -> {"DRAFT", "APPROVED", "PUBLISHED", "DISABLED"}]
    /\ disabledAt \in [Keys -> 0 .. MaxTime] /\ packs \in Seq(Packs)
    /\ held \in 0 .. MaxPacks /\ browser \in 0 .. MaxPacks
    /\ seen \in [Keys -> SUBSET Uses]
    /\ queue \in Seq(Signals) /\ stored \in Seq(Signals)
    /\ incidents \subseteq DOMAIN stored

Nothing == [r \in Keys |-> {}]

Init ==
    /\ UpdateInit
    /\ time = 0 /\ status = [r \in Keys |-> "DRAFT"] /\ disabledAt = [r \in Keys |-> 0]
    /\ packs = <<>> /\ held = Fallback /\ browser = Fallback /\ seen = Nothing
    /\ queue = <<>> /\ stored = <<>> /\ incidents = {}

-----------------------------------------------------------------------------
(***************************************************************************)
(* Operators and packs (036_detection_and_live_logs).                        *)
(***************************************************************************)
Approve(r) ==
    /\ status[r] = "DRAFT" /\ status' = [status EXCEPT ![r] = "APPROVED"]
    /\ UNCHANGED <<time, disabledAt, packs>>

Withdrawn(which) ==
    [i \in DOMAIN packs |-> IF packs[i].until = Never /\ i \in which
                            THEN [packs[i] EXCEPT !.until = time] ELSE packs[i]]

\* A new pack holds approved rules that were never published; the one before it
\* is withdrawn.
Publish(kind, rules) ==
    /\ Len(packs) < MaxPacks /\ time < MaxTime
    /\ rules # {} /\ \A r \in rules : Rules[r].pack = kind /\ status[r] = "APPROVED"
    /\ LET same == {i \in DOMAIN packs : packs[i].pack = kind}
       IN  packs' = Append(Withdrawn(same), [pack |-> kind, rules |-> rules,
                                             from |-> time + 1, until |-> Never])
    /\ status' = [r \in Keys |-> IF r \in rules THEN "PUBLISHED" ELSE status[r]]
    /\ time' = time + 1
    /\ UNCHANGED disabledAt

\* The whole pack of the rule goes with it.
Disable(r) ==
    /\ status[r] \in {"APPROVED", "PUBLISHED"} /\ time < MaxTime
    /\ status' = [status EXCEPT ![r] = "DISABLED"]
    /\ disabledAt' = [disabledAt EXCEPT ![r] = time]
    /\ packs' = Withdrawn({i \in DOMAIN packs : r \in packs[i].rules})
    /\ time' = time + 1

Active(kind) == {i \in DOMAIN packs : packs[i].pack = kind /\ packs[i].until = Never}

\* What the server answers to a program that asks for a pack: nothing when all
\* packs were withdrawn; the configured one when there never was any.
Served(kind) ==
    IF \E i \in DOMAIN packs : packs[i].pack = kind THEN Active(kind) ELSE {Fallback}

-----------------------------------------------------------------------------
(***************************************************************************)
(* The verifier at work and the browser.                                     *)
(***************************************************************************)
Work ==
    /\ StartWork
    /\ \E p \in Served("NATIVE") : held' = p
    /\ seen' = Nothing
    /\ UNCHANGED <<serverVars, browser, signalVars>>

\* A verifier that gets no pack in force ends.
RefreshRules ==
    /\ verifier = "running"
    /\ \E p \in Served("NATIVE") :
           /\ held' = p
           /\ seen' = IF platform = "MACOS" /\ p # held THEN Nothing ELSE seen
    /\ UNCHANGED <<updateVars, serverVars, browser, signalVars>>

Stops == (Ends \/ Interrupted)
    /\ held' = Fallback /\ seen' = Nothing
    /\ UNCHANGED <<serverVars, browser, signalVars>>

InForce(p) == p # Fallback /\ packs[p].until = Never

\* A signal, with the truth of the moment: were the pack and the rule in force?
Signal(r, use, p) ==
    [rule |-> r, pack |-> p, at |-> time, use |-> use,
     valid |-> InForce(p) /\ status[r] = "PUBLISHED"]

Room == Len(queue) + Len(stored) < MaxEvents

\* Seeded fault: a tool is reported once, whatever it does later.
NewsOnce(r, use) == seen[r] = {}

\* A match that was not reported before: the Windows verifier remembers all it
\* reported since its start, the macOS one compares with the snapshot before.
News(r, use) == use \notin seen[r]

\* What the sensors may find of a program besides its identity.
Overlays(r) == SUBSET (Rules[r].signs \intersect {"OVERLAY"})
VirtualAudio(r) == SUBSET (Rules[r].signs \intersect {"AUDIO"})
Snapshots(r) == {overlay \union audio : overlay \in Overlays(r), audio \in VirtualAudio(r)}

\* The sensors find a program that the held pack identifies.
MatchSnapshot(r, use) ==
    /\ held # Fallback /\ r \in packs[held].rules
    /\ use \in Snapshots(r)

Observe(r, use) ==
    /\ verifier = "running" /\ MatchSnapshot(r, use)
    /\ seen' = [seen EXCEPT ![r] = IF platform = "MACOS" THEN {use} ELSE @ \union {use}]
    /\ seen' # seen
    /\ IF News(r, use) THEN Room /\ queue' = Append(queue, Signal(r, use, held))
       ELSE UNCHANGED queue
    /\ UNCHANGED <<updateVars, serverVars, held, browser, stored, incidents>>

\* The extension asks for its pack, or falls back on the one it stored.
LoadSignatures == (Served("CHROME") \union {browser}) \ {Fallback}
MatchExtension(r, use, p) == r \in packs[p].rules /\ use \subseteq {"ENABLED"}

\* The browser finds an extension; the verifier stamps what it takes over.
ReportExtension(r, use) ==
    /\ verifier = "running" /\ Room
    /\ \E p \in LoadSignatures :
           /\ MatchExtension(r, use, p)
           /\ browser' = p
           /\ queue' = Append(queue, Signal(r, use, p))
    /\ UNCHANGED <<updateVars, serverVars, agentVars, stored, incidents>>

-----------------------------------------------------------------------------
(***************************************************************************)
(* The server decides (037_order_independent_detection).                      *)
(***************************************************************************)
\* The rule and its pack as they were when the signal was made.
Matched(e) ==
    /\ e.pack # Fallback /\ e.at \in packs[e.pack].from .. packs[e.pack].until
    /\ e.rule \in packs[e.pack].rules
    /\ \/ status[e.rule] = "PUBLISHED"
       \/ (status[e.rule] = "DISABLED" /\ e.at <= disabledAt[e.rule])

Browser(e) == Rules[e.rule].pack = "CHROME"

\* A match by Windows always names the running process as evidence of active use.
ActiveUse(e) == e.use # {} \/ (~Browser(e) /\ platform = "WINDOWS")
Identified(e) == Browser(e) => e.use # {}

Supports(e, key) ==
    e.rule = key /\ Matched(e) /\ Rules[key].confidence = "MEDIUM" /\ Identified(e)

Confirmed(i, events) ==
    LET e == events[i]  rule == Rules[e.rule]
    IN  /\ Matched(e)
        /\ \/ rule.confidence = "HIGH" /\ ActiveUse(e)
           \/ /\ rule.confidence = "MEDIUM" /\ Identified(e) /\ rule.requires # {}
              /\ \A key \in rule.requires :
                     \E j \in DOMAIN events \ {i} : Supports(events[j], key)

\* Seeded fault: only the new signal is decided on.
EvaluatedAlone(events) == {Len(events)}

\* The signals decided on: the new one, and those of rules that need its rule.
Evaluated(events) ==
    {Len(events)} \union
    {i \in DOMAIN events : /\ Rules[events[i].rule].confidence = "MEDIUM"
                           /\ events[Len(events)].rule \in Rules[events[i].rule].requires}

Ingest ==
    /\ verifier = "running" /\ queue # <<>>
    /\ queue' = Tail(queue) /\ stored' = Append(stored, Head(queue))
    /\ incidents' = incidents \union {i \in Evaluated(stored') : Confirmed(i, stored')}
    /\ UNCHANGED <<updateVars, serverVars, agentVars, browser>>

Operators ==
    /\ \/ \E r \in Keys : Approve(r) \/ Disable(r)
       \/ \E kind \in {"NATIVE", "CHROME"}, rules \in SUBSET Keys : Publish(kind, rules)
    /\ UNCHANGED <<updateVars, agentVars, browser, signalVars>>

Next ==
    \/ UpdateNext /\ UNCHANGED <<serverVars, agentVars, browser, signalVars>>
    \/ Work \/ RefreshRules \/ Stops \/ Operators \/ Ingest
    \/ \E r \in Keys : \E use \in SUBSET Rules[r].signs : Observe(r, use) \/ ReportExtension(r, use)

Spec == Init /\ [][Next]_vars

-----------------------------------------------------------------------------
(***************************************************************************)
(* packages/detection-rules: the decision on a set of signals. The technical   *)
(* evidence of a signal is an input there. Here it is the evidence that a rule *)
(* of its confidence has to be backed by in 037: of active use, or of identity. *)
(***************************************************************************)
HasTechnicalEvidence(e) ==
    IF Rules[e.rule].confidence = "HIGH" THEN ActiveUse(e) ELSE Identified(e)

HasRequiredSupport(i, signals) ==
    /\ HasTechnicalEvidence(stored[i]) /\ Rules[stored[i].rule].requires # {}
    /\ \A key \in Rules[stored[i].rule].requires : \E j \in signals \ {i} :
           /\ stored[j].rule = key /\ Rules[key].confidence = "MEDIUM"
           /\ HasTechnicalEvidence(stored[j])

DecideDetection(signals) ==
    {i \in signals : Rules[stored[i].rule].confidence = "HIGH" /\ HasTechnicalEvidence(stored[i])}
    \union {i \in signals : Rules[stored[i].rule].confidence = "MEDIUM" /\ HasRequiredSupport(i, signals)}

\* In whatever order the signals arrive, and whatever was published or disabled while
\* they waited, the server has confirmed those that decideDetection confirms
\* (packages/detection-rules/src/index.ts:28) among all signals that were made with
\* a rule and a pack in force.
DecidesAsReference ==
    incidents = DecideDetection({i \in DOMAIN stored : stored[i].valid})

\* A tool of a HIGH rule that the verifier has seen in use, with a pack still in
\* force, is a confirmed incident as soon as nothing waits to be delivered, whatever
\* was seen of it before, and across restarts of the verifier.
ActiveToolIsConfirmed ==
    \A r \in Keys :
        /\ verifier = "running" /\ queue = <<>> /\ \E use \in seen[r] : use # {}
        /\ Rules[r].confidence = "HIGH" /\ InForce(held) /\ r \in packs[held].rules
        => \E i \in incidents : stored[i].rule = r
=============================================================================
