-------------------------- MODULE AccuracyRelease --------------------------
(***************************************************************************)
(* How a candidate agent reaches production: a workflow tests the binaries    *)
(* of one commit on both platforms and uploads the results, and the server    *)
(* records and registers both in one transaction. Rule packs are published    *)
(* and withdrawn meanwhile, workflows are dispatched again or repeat only     *)
(* their last job with the results of then, and calls outlive the job that     *)
(* made them.                                                               *)
(*                                                                         *)
(* A result is that of a whole suite on one version of its system: scenarios  *)
(* are left out, and so are the signature of an upload and the registration   *)
(* of other programs and channels, which does not touch the production agents. *)
(***************************************************************************)
EXTENDS Integers, FiniteSets

CONSTANTS
    Dispatches,    \* runs of the workflow
    Uploads,       \* calls of accuracy-release at the same time
    VersionOf,     \* commit |-> platform |-> version of the agent
    Builds,        \* binaries of one commit: a repeated build may differ
    MaxPublished   \* bound of the model on the rule packs of both platforms

Order == <<"WINDOWS", "MACOS">>
Platforms == {"WINDOWS", "MACOS"}
Commits == DOMAIN VersionOf

ASSUME ReleaseAssumption ==
    /\ \A c \in Commits : DOMAIN VersionOf[c] = Platforms
    /\ MaxPublished \in Nat \ {0}

VARIABLES
    packs,     \* of each platform: how many were published, is the last one active
    flow,      \* each run of the workflow: its commit and its results
    call,      \* each upload: its results and its open transaction
    runs,      \* accuracy_runs
    versions,  \* the production rows of application_versions
    minimum    \* the one that is the minimum supported

releaseVars == <<packs, flow, call, runs, versions, minimum>>

None == [commit |-> "none"]
Results ==
    [platform : Platforms, commit : Commits, build : Builds, pack : 1 .. MaxPublished,
     passed : BOOLEAN, by : Dispatches]
Version(r) == [commit |-> r.commit, build |-> r.build, version |-> VersionOf[r.commit][r.platform]]
Versions == [commit : Commits, build : Builds,
             version : {VersionOf[c][p] : c \in Commits, p \in Platforms}]
Row == [Platforms -> Versions \union {None}]
Undispatched == [commit |-> "none", result |-> [p \in Platforms |-> None]]

\* No transaction; one that has read the pack (checked) of the platform it is at,
\* and holds its rows and the lock of application_versions once it wrote any.
NoCall == [at |-> 0, checked |-> FALSE, locks |-> FALSE,
           result |-> [p \in Platforms |-> None],
           runs |-> {}, versions |-> [p \in Platforms |-> {}], minimum |-> [p \in Platforms |-> None]]

Flows == [commit : Commits \union {"none"}, result : [Platforms -> Results \union {None}]]
Calls == [at : 0 .. 3, checked : BOOLEAN, locks : BOOLEAN,
          result : [Platforms -> Results \union {None}],
          runs : SUBSET Results, versions : [Platforms -> SUBSET Versions], minimum : Row]

\* The type invariant.
ReleaseTypeOK ==
    /\ packs \in [Platforms -> [last : 0 .. MaxPublished, active : BOOLEAN]]
    /\ flow \in [Dispatches -> Flows]
    /\ call \in [Uploads -> Calls]
    /\ runs \subseteq Results /\ minimum \in Row
    /\ versions \in [Platforms -> SUBSET Versions]

ReleaseInit ==
    /\ packs = [p \in Platforms |-> [last |-> 0, active |-> FALSE]]
    /\ flow = [k \in Dispatches |-> Undispatched]
    /\ call = [u \in Uploads |-> NoCall]
    /\ runs = {} /\ versions = [p \in Platforms |-> {}] /\ minimum = [p \in Platforms |-> None]

-----------------------------------------------------------------------------
\* Operators replace a pack, or withdraw it by disabling one of its rules.
PublishPack(p) ==
    /\ packs["WINDOWS"].last + packs["MACOS"].last < MaxPublished
    /\ packs' = [packs EXCEPT ![p] = [last |-> @.last + 1, active |-> TRUE]]
    /\ UNCHANGED <<flow, call, runs, versions, minimum>>

WithdrawPack(p) ==
    /\ packs[p].active /\ packs' = [packs EXCEPT ![p].active = FALSE]
    /\ UNCHANGED <<flow, call, runs, versions, minimum>>

\* Workflows run one at a time, but one whose job failed may continue after another.
Dispatch(k, c) ==
    /\ flow[k] = Undispatched /\ flow' = [flow EXCEPT ![k].commit = c]
    /\ UNCHANGED <<packs, call, runs, versions, minimum>>

\* The native suite of one platform runs against the binary built from the commit,
\* with the pack that the server offers. A repeated suite is a dispatch of its own.
TestCandidate(k, p) ==
    /\ flow[k] # Undispatched /\ flow[k].result[p] = None /\ packs[p].active
    /\ \E b \in Builds, passed \in BOOLEAN :
          flow' = [flow EXCEPT ![k].result[p] =
              [platform |-> p, commit |-> flow[k].commit, build |-> b, pack |-> packs[p].last,
               passed |-> passed, by |-> k]]
    /\ UNCHANGED <<packs, call, runs, versions, minimum>>

\* The last job requires the binary and the result of both platforms, transferred as
\* they were tested, and that both suites passed; then it uploads the results.
Transferred(k) == \A p \in Platforms : flow[k].result[p] # None /\ flow[k].result[p].commit = flow[k].commit
Passed(k) == \A p \in Platforms : flow[k].result[p].passed

Attest(k, u) ==
    /\ call[u] = NoCall /\ Transferred(k) /\ Passed(k)
    /\ call' = [call EXCEPT ![u] = [NoCall EXCEPT !.at = 1, !.result = flow[k].result]]
    /\ UNCHANGED <<packs, flow, runs, versions, minimum>>

-----------------------------------------------------------------------------
\* A run is recorded once for each binary and pack; the result of another suite
\* for the same ones is a conflict.
SameRun(r, s) ==
    /\ r.platform = s.platform /\ r.commit = s.commit /\ r.build = s.build /\ r.pack = s.pack
Conflict(known, r) == \E s \in known : SameRun(r, s) /\ s # r

\* The endpoint for a single result, passed or not. It waits for an open transaction
\* that records the same run.
RecordRun(k, p) ==
    LET r == flow[k].result[p] IN
    /\ r # None /\ r \notin runs /\ ~Conflict(runs, r)
    /\ \A u \in Uploads : \A s \in call[u].runs : ~SameRun(r, s)
    /\ runs' = runs \union {r}
    /\ UNCHANGED <<packs, flow, call, versions, minimum>>

\* Seeded fault: what the first platform has written stays when the second is refused.
RefuseLate(u) ==
    /\ call' = [call EXCEPT ![u] = NoCall] /\ runs' = runs \union call[u].runs
    /\ IF call[u].locks THEN versions' = call[u].versions /\ minimum' = call[u].minimum
                        ELSE UNCHANGED <<versions, minimum>>

\* A refusal rolls back both platforms.
Refuse(u) == call' = [call EXCEPT ![u] = NoCall] /\ UNCHANGED <<runs, versions, minimum>>

At(u) == call[u].result[Order[call[u].at]]

\* The pack is read without a lock: it may be replaced before the commit.
CheckPack(u) ==
    /\ call[u].at \in 1 .. 2 /\ ~call[u].checked
    /\ IF packs[At(u).platform] = [last |-> At(u).pack, active |-> TRUE]
       THEN call' = [call EXCEPT ![u].checked = TRUE] /\ UNCHANGED <<runs, versions, minimum>>
       ELSE Refuse(u)
    /\ UNCHANGED <<packs, flow>>

\* A registered version never changes its commit or binary.
Taken(rows, v) == \E w \in rows : w.version = v.version /\ w # v

\* The first registration locks the table until the end of the transaction.
RegisterVersion(u) ==
    LET r == At(u)
        p == r.platform
        rows == IF call[u].locks THEN call[u].versions ELSE versions
        least == IF call[u].locks THEN call[u].minimum ELSE minimum
    IN
    /\ call[u].at \in 1 .. 2 /\ call[u].checked
    /\ \A w \in Uploads \ {u} : ~call[w].locks
    /\ IF Conflict(runs \union call[u].runs, r) \/ Taken(rows[p], Version(r)) THEN Refuse(u)
       ELSE /\ call' = [call EXCEPT ![u].at = @ + 1, ![u].checked = FALSE, ![u].locks = TRUE,
                            ![u].runs = @ \union {r},
                            ![u].versions = [rows EXCEPT ![p] = @ \union {Version(r)}],
                            ![u].minimum = [least EXCEPT ![p] = Version(r)]]
            /\ UNCHANGED <<runs, versions, minimum>>
    /\ UNCHANGED <<packs, flow>>

CommitRelease(u) ==
    /\ call[u].at = 3
    /\ runs' = runs \union call[u].runs
    /\ versions' = call[u].versions /\ minimum' = call[u].minimum
    /\ call' = [call EXCEPT ![u] = NoCall]
    /\ UNCHANGED <<packs, flow>>

\* The call of the database fails or runs out of time before the commit.
LoseRelease(u) ==
    /\ call[u] # NoCall /\ call' = [call EXCEPT ![u] = NoCall]
    /\ UNCHANGED <<packs, flow, runs, versions, minimum>>

ReleaseNext ==
    \/ \E p \in Platforms : PublishPack(p) \/ WithdrawPack(p)
    \/ \E k \in Dispatches :
          \/ \E c \in Commits : Dispatch(k, c)
          \/ \E p \in Platforms : TestCandidate(k, p) \/ RecordRun(k, p)
          \/ \E u \in Uploads : Attest(k, u)
    \/ \E u \in Uploads : CheckPack(u) \/ RegisterVersion(u) \/ CommitRelease(u) \/ LoseRelease(u)

ReleaseSpec == ReleaseInit /\ [][ReleaseNext]_releaseVars

-----------------------------------------------------------------------------
\* "Either both production versions advance or neither does": whatever is published,
\* repeated, lost or refused meanwhile, the minimum versions of the two platforms are
\* of one commit, and each registered version passed its suite as exactly that binary.
PlatformsReleaseTogether ==
    /\ minimum["WINDOWS"].commit = minimum["MACOS"].commit
    /\ \A p \in Platforms : \A v \in versions[p] :
          \E r \in runs : r.platform = p /\ r.passed /\ Version(r) = v
=============================================================================
