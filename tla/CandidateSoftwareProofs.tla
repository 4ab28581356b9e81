----------------------- MODULE CandidateSoftwareProofs -----------------------
(***************************************************************************)
(* Releases of the candidate's software, for any number of workflows and      *)
(* uploads, any commits and builds and any rule packs; enrollment, for any    *)
(* machines and any number of keys, challenges and attempts; and the way of   *)
(* what the browser reports, for any spool, reports and number of items.      *)
(***************************************************************************)
EXTENDS CandidateSoftware, SequenceTheorems, TLAPS

-----------------------------------------------------------------------------
(* Releases *)

\* Every registered version passed its suite as exactly that binary.
Backed(rows, known) ==
    \A p \in Platforms : \A v \in rows[p] :
        \E r \in known : r.platform = p /\ r.passed /\ Version(r) = v

\* An active pack is one of those published.
PacksCounted == \A p \in Platforms : packs[p].active => packs[p].last > 0

\* A workflow is about one commit, and the results it keeps are those of the
\* platform they are kept for.
ResultsInPlace ==
    \A k \in Dispatches :
        /\ flow[k] = Undispatched \/ flow[k].commit \in Commits
        /\ \A p \in Platforms : flow[k].result[p] # None => flow[k].result[p].platform = p

\* An open upload is about two passed results of one commit.
UploadOfOneCommit(u) ==
    call[u].at > 0 =>
        \A p \in Platforms :
            LET r == call[u].result[p]
            IN /\ r \in Results /\ r.platform = p /\ r.passed
               /\ r.commit = call[u].result["WINDOWS"].commit

\* What an open transaction has written is backed by what it will have recorded,
\* and it has advanced Windows, or both, to its commit.
WritesOfOneCommit(u) ==
    /\ call[u].locks => Backed(call[u].versions, runs \union call[u].runs)
    /\ call[u].at = 2 => /\ call[u].locks
                         /\ call[u].minimum["WINDOWS"].commit = call[u].result["WINDOWS"].commit
    /\ call[u].at = 3 => /\ call[u].locks
                         /\ call[u].minimum["WINDOWS"].commit = call[u].minimum["MACOS"].commit

\* The inductive invariant.
ReleaseInv ==
    /\ ReleaseTypeOK /\ PacksCounted /\ ResultsInPlace
    /\ \A u \in Uploads : UploadOfOneCommit(u) /\ WritesOfOneCommit(u)
    /\ PlatformsReleaseTogether

\* Whoever changes neither versions nor a transaction, and at most adds to the runs,
\* keeps the invariant's parts about them.
LEMMA BackedGrows ==
  ASSUME NEW rows, NEW known, NEW more, known \subseteq more, Backed(rows, known)
  PROVE  Backed(rows, more)
  BY DEF Backed

\* PlatformsReleaseTogether in terms of Backed.
LEMMA TogetherIsBacked ==
  PlatformsReleaseTogether <=>
    /\ minimum["WINDOWS"].commit = minimum["MACOS"].commit
    /\ Backed(versions, runs)
  BY DEF PlatformsReleaseTogether, Backed

LEMMA ReleaseInitInv == ReleaseInit => ReleaseInv
  BY ReleaseAssumption DEF ReleaseInit, ReleaseInv, ReleaseTypeOK, Flows, Calls, PacksCounted, ResultsInPlace,
     UploadOfOneCommit, WritesOfOneCommit, PlatformsReleaseTogether, Undispatched, NoCall, None,
     Platforms, Row

\* A transaction that is given up leaves no trace.
LEMMA RefusedUploadInv ==
  ASSUME ReleaseInv, NEW u \in Uploads, call' = [call EXCEPT ![u] = NoCall],
         UNCHANGED <<packs, flow, runs, versions, minimum>>
  PROVE  ReleaseInv'
  <1>1. NoCall \in Calls
    BY DEF NoCall, Calls, Row, None, Platforms
  <1>2. ReleaseTypeOK'
    BY <1>1 DEF ReleaseInv, ReleaseTypeOK
  <1>3. ASSUME NEW w \in Uploads PROVE UploadOfOneCommit(w)' /\ WritesOfOneCommit(w)'
    BY <1>3 DEF ReleaseInv, ReleaseTypeOK, UploadOfOneCommit, WritesOfOneCommit, NoCall, Backed, Version
  <1> QED BY <1>2, <1>3 DEF ReleaseInv, PacksCounted, ResultsInPlace, PlatformsReleaseTogether, Version

\* Rule packs come and go without the releases noticing.
LEMMA PackStepInv ==
  ASSUME ReleaseInv, NEW p \in Platforms, PublishPack(p) \/ WithdrawPack(p)
  PROVE  ReleaseInv'
  <1>1. packs[p] \in [last : 0 .. MaxPublished, active : BOOLEAN]
    BY DEF ReleaseInv, ReleaseTypeOK
  <1>2. \E row \in [last : 0 .. MaxPublished, active : BOOLEAN] :
            packs' = [packs EXCEPT ![p] = row] /\ (row.active => row.last > 0)
    <2>1. CASE PublishPack(p)
      <3>1. packs[p].last + 1 \in 0 .. MaxPublished /\ packs[p].last + 1 > 0
        BY <2>1, ReleaseAssumption DEF PublishPack, ReleaseInv, ReleaseTypeOK, Platforms
      <3>2. [last |-> packs[p].last + 1, active |-> TRUE] \in [last : 0 .. MaxPublished, active : BOOLEAN]
        BY <3>1
      <3> QED BY <2>1, <3>1, <3>2, <1>1 DEF PublishPack
    <2>2. CASE WithdrawPack(p)
      <3>1. [packs[p] EXCEPT !.active = FALSE] \in [last : 0 .. MaxPublished, active : BOOLEAN]
        BY <1>1
      <3>2. packs' = [packs EXCEPT ![p] = [packs[p] EXCEPT !.active = FALSE]]
        BY <2>2 DEF WithdrawPack
      <3>3. ~[packs[p] EXCEPT !.active = FALSE].active
        BY <1>1
      <3> QED BY <3>1, <3>2, <3>3
    <2> QED BY <2>1, <2>2
  <1>3. ReleaseTypeOK' /\ PacksCounted' /\ UNCHANGED <<flow, call, runs, versions, minimum>>
    BY <1>2 DEF ReleaseInv, ReleaseTypeOK, PacksCounted, PublishPack, WithdrawPack
  <1> QED BY <1>3 DEF ReleaseInv, ResultsInPlace, UploadOfOneCommit, WritesOfOneCommit,
                           Backed, PlatformsReleaseTogether, Version

\* A workflow keeps a result where it belongs.
LEMMA WorkflowStepInv ==
  ASSUME ReleaseInv, NEW k \in Dispatches,
         \/ \E c \in Commits : Dispatch(k, c)
         \/ \E p \in Platforms : TestCandidate(k, p)
  PROVE  ReleaseInv'
  <1>1. ReleaseTypeOK' /\ ResultsInPlace'
    <2>1. CASE \E c \in Commits : Dispatch(k, c)
      BY <2>1, SMTT(30) DEF ReleaseInv, ReleaseTypeOK, ResultsInPlace, Flows, Dispatch, Undispatched
    <2>2. ASSUME NEW p \in Platforms, TestCandidate(k, p)
          PROVE  ReleaseTypeOK' /\ ResultsInPlace'
      <3>1. PICK b \in Builds, passed \in BOOLEAN :
                flow' = [flow EXCEPT ![k].result[p] =
                  [platform |-> p, commit |-> flow[k].commit, build |-> b,
                   pack |-> packs[p].last, passed |-> passed, by |-> k]]
        BY <2>2 DEF TestCandidate
      <3>2. flow[k].commit \in Commits /\ packs[p].last \in 1 .. MaxPublished
        <4>1. flow[k].commit \in Commits
          BY <2>2 DEF ReleaseInv, ResultsInPlace, TestCandidate
        <4>2. packs[p].last \in 1 .. MaxPublished
          BY <2>2, ReleaseAssumption DEF TestCandidate, ReleaseInv, ReleaseTypeOK, PacksCounted
        <4> QED BY <4>1, <4>2
      <3> DEFINE new == [platform |-> p, commit |-> flow[k].commit, build |-> b,
                         pack |-> packs[p].last, passed |-> passed, by |-> k]
      <3>3. new \in Results /\ new.platform = p
        BY <3>2 DEF Results
      <3> HIDE DEF new
      <3>4. flow' = [flow EXCEPT ![k].result[p] = new]
        BY <3>1 DEF new
      <3>5. flow[k] \in Flows /\ UNCHANGED <<packs, call, runs, versions, minimum>>
        BY <2>2 DEF TestCandidate, ReleaseInv, ReleaseTypeOK
      <3>6. /\ flow'[k] \in Flows /\ flow'[k].commit = flow[k].commit
            /\ flow'[k].result = [flow[k].result EXCEPT ![p] = new]
            /\ flow' = [flow EXCEPT ![k] = flow'[k]]
        BY <3>3, <3>4, <3>5 DEF ReleaseInv, ReleaseTypeOK, Flows
      <3>7. ReleaseTypeOK'
        BY <3>5, <3>6 DEF ReleaseInv, ReleaseTypeOK
      <3>8. ResultsInPlace'
        <4> SUFFICES ASSUME NEW j \in Dispatches
                     PROVE  /\ flow'[j] = Undispatched \/ flow'[j].commit \in Commits
                            /\ \A q \in Platforms : flow'[j].result[q] # None
                                                        => flow'[j].result[q].platform = q
          BY DEF ResultsInPlace, None, Undispatched
        <4>1. CASE j # k
          BY <3>6, <4>1 DEF ReleaseInv, ReleaseTypeOK, ResultsInPlace
        <4>2. CASE j = k
          <5>1. flow[k].result \in [Platforms -> Results \union {None}]
            BY <3>5 DEF Flows
          <5>2. \A q \in Platforms : flow[k].result[q] # None => flow[k].result[q].platform = q
            BY DEF ReleaseInv, ResultsInPlace
          <5> QED BY <3>2, <3>3, <3>6, <4>2, <5>1, <5>2
        <4> QED BY <4>1, <4>2
      <3> QED BY <3>7, <3>8
    <2> QED BY <2>1, <2>2
  <1>2. UNCHANGED <<packs, call, runs, versions, minimum>>
    BY DEF Dispatch, TestCandidate
  <1> QED BY <1>1, <1>2 DEF ReleaseInv, PacksCounted, UploadOfOneCommit, WritesOfOneCommit,
                           Backed, PlatformsReleaseTogether, Version

\* A run that is recorded by itself backs more than before.
LEMMA RecordRunInv ==
  ASSUME ReleaseInv, NEW k \in Dispatches, NEW p \in Platforms, RecordRun(k, p)
  PROVE  ReleaseInv'
  <1>1. ReleaseTypeOK' /\ runs \subseteq runs' /\ UNCHANGED <<packs, flow, call, versions, minimum>>
    BY DEF ReleaseInv, ReleaseTypeOK, RecordRun, Flows
  <1>2. PlatformsReleaseTogether'
    BY <1>1 DEF ReleaseInv, PlatformsReleaseTogether, Version
  <1>3. ASSUME NEW u \in Uploads PROVE UploadOfOneCommit(u)' /\ WritesOfOneCommit(u)'
    BY <1>1 DEF ReleaseInv, UploadOfOneCommit, WritesOfOneCommit, Backed, Version
  <1> QED BY <1>1, <1>2, <1>3 DEF ReleaseInv, PacksCounted, ResultsInPlace

\* Only results that both passed, of one commit, are uploaded.
LEMMA AttestInv ==
  ASSUME ReleaseInv, NEW k \in Dispatches, NEW u \in Uploads, Attest(k, u)
  PROVE  ReleaseInv'
  <1> DEFINE made == [NoCall EXCEPT !.at = 1, !.result = flow[k].result]
  <1>1. call' = [call EXCEPT ![u] = made] /\ UNCHANGED <<packs, flow, runs, versions, minimum>>
    BY DEF Attest
  <1>2. /\ made \in Calls /\ made.at = 1 /\ ~made.locks
        /\ made.result = flow[k].result
    <2>1. NoCall \in Calls
      BY DEF NoCall, Calls, Row, None, Platforms
    <2>2. flow[k].result \in [Platforms -> Results \union {None}]
      BY DEF ReleaseInv, ReleaseTypeOK, Flows
    <2>3. ASSUME NEW c \in Calls, NEW results \in [Platforms -> Results \union {None}]
          PROVE  LET m == [c EXCEPT !.at = 1, !.result = results]
                 IN  m \in Calls /\ m.at = 1 /\ m.locks = c.locks /\ m.result = results
      <3> DEFINE begun == [c EXCEPT !.at = 1]
      <3>1. begun \in Calls /\ begun.at = 1 /\ begun.locks = c.locks
        BY DEF Calls
      <3> HIDE DEF begun
      <3>2. LET m == [begun EXCEPT !.result = results]
            IN  m \in Calls /\ m.at = 1 /\ m.locks = c.locks /\ m.result = results
        BY <3>1 DEF Calls
      <3> QED BY <3>2 DEF begun
    <2>4. ~NoCall.locks
      BY DEF NoCall
    <2> QED BY <2>1, <2>2, <2>3, <2>4
  <1> HIDE DEF made
  <1>3. ReleaseTypeOK'
    BY <1>1, <1>2 DEF ReleaseInv, ReleaseTypeOK
  <1>4. \A p \in Platforms :
            /\ flow[k].result[p] \in Results /\ flow[k].result[p].platform = p
            /\ flow[k].result[p].passed
            /\ flow[k].result[p].commit = flow[k].result["WINDOWS"].commit
    BY DEF Attest, Transferred, Passed, ReleaseInv, ReleaseTypeOK, Flows, ResultsInPlace, Platforms
  <1>5. ASSUME NEW w \in Uploads PROVE UploadOfOneCommit(w)' /\ WritesOfOneCommit(w)'
    <2>1. CASE w = u
      BY <1>1, <1>2, <1>4, <2>1 DEF ReleaseInv, ReleaseTypeOK, UploadOfOneCommit, WritesOfOneCommit
    <2>2. CASE w # u
      BY <1>1, <2>2 DEF ReleaseInv, ReleaseTypeOK, UploadOfOneCommit, WritesOfOneCommit, Backed, Version
    <2> QED BY <2>1, <2>2
  <1> QED BY <1>1, <1>3, <1>5 DEF ReleaseInv, PacksCounted, ResultsInPlace, PlatformsReleaseTogether, Version

\* A pack that is still in force changes nothing that is written.
LEMMA CheckPackInv ==
  ASSUME ReleaseInv, NEW u \in Uploads, CheckPack(u)
  PROVE  ReleaseInv'
  <1>1. CASE call' = [call EXCEPT ![u].checked = TRUE] /\ UNCHANGED <<runs, versions, minimum>>
    <2>1. UNCHANGED <<packs, flow>>
      BY DEF CheckPack
    <2>2. ReleaseTypeOK'
      BY <1>1, <2>1 DEF ReleaseInv, ReleaseTypeOK, Calls
    <2>3. ASSUME NEW w \in Uploads
          PROVE  /\ call'[w].at = call[w].at /\ call'[w].locks = call[w].locks
                 /\ call'[w].result = call[w].result /\ call'[w].runs = call[w].runs
                 /\ call'[w].versions = call[w].versions /\ call'[w].minimum = call[w].minimum
      BY <1>1 DEF ReleaseInv, ReleaseTypeOK, Calls
    <2>4. ASSUME NEW w \in Uploads PROVE UploadOfOneCommit(w)' /\ WritesOfOneCommit(w)'
      BY <1>1, <2>3 DEF ReleaseInv, UploadOfOneCommit, WritesOfOneCommit, Backed, Version
    <2> QED BY <1>1, <2>1, <2>2, <2>4 DEF ReleaseInv, PacksCounted, ResultsInPlace, PlatformsReleaseTogether, Version
  <1>2. CASE Refuse(u)
    BY <1>2, RefusedUploadInv DEF Refuse, CheckPack
  <1> QED BY <1>1, <1>2 DEF CheckPack

LEMMA VersionOfResult ==
  \A r \in Results : Version(r) \in Versions /\ Version(r).commit = r.commit
  <1> TAKE r \in Results
  <1>1. r.commit \in Commits /\ r.platform \in Platforms /\ r.build \in Builds
    BY DEF Results
  <1>2. VersionOf[r.commit][r.platform] \in {VersionOf[c][p] : c \in Commits, p \in Platforms}
    BY <1>1
  <1> QED BY <1>1, <1>2 DEF Version, Versions

\* Windows is registered first, then macOS, and both from results of one commit.
LEMMA RegisterVersionInv ==
  ASSUME ReleaseInv, NEW u \in Uploads, RegisterVersion(u)
  PROVE  ReleaseInv'
  <1> DEFINE r == At(u)
             rows == IF call[u].locks THEN call[u].versions ELSE versions
             least == IF call[u].locks THEN call[u].minimum ELSE minimum
             written == [call[u] EXCEPT !.at = @ + 1, !.checked = FALSE, !.locks = TRUE,
                            !.runs = @ \union {r},
                            !.versions = [rows EXCEPT ![r.platform] = @ \union {Version(r)}],
                            !.minimum = [least EXCEPT ![r.platform] = Version(r)]]
  <1>1. CASE Refuse(u)
    BY <1>1, RefusedUploadInv DEF Refuse, RegisterVersion
  <1>2. CASE ~Refuse(u)
    <2>1. call' = [call EXCEPT ![u] = written] /\ UNCHANGED <<packs, flow, runs, versions, minimum>>
      BY <1>2 DEF RegisterVersion, ReleaseInv, ReleaseTypeOK
    <2>2. call[u].at \in 1 .. 2 /\ call[u] \in Calls /\ UploadOfOneCommit(u) /\ WritesOfOneCommit(u)
      BY DEF RegisterVersion, ReleaseInv, ReleaseTypeOK
    <2>3. /\ r \in Results /\ r.passed /\ r.platform \in Platforms
          /\ r.platform = Order[call[u].at] /\ r.commit = call[u].result["WINDOWS"].commit
      BY <2>2 DEF At, UploadOfOneCommit, Order, Platforms
    <2>4. rows \in [Platforms -> SUBSET Versions] /\ least \in Row
      BY <2>2 DEF ReleaseInv, ReleaseTypeOK, Calls
    <2>5. Version(r) \in Versions /\ Version(r).commit = r.commit
      BY <2>3, VersionOfResult, Zenon
    <2>6. Backed(rows, runs \union call[u].runs)
      BY <2>2, BackedGrows, TogetherIsBacked DEF ReleaseInv, WritesOfOneCommit
    <2> HIDE DEF r, rows, least
    <2>7. /\ written \in Calls /\ written.at = call[u].at + 1 /\ written.locks
          /\ written.result = call[u].result /\ written.runs = call[u].runs \union {r}
          /\ written.versions = [rows EXCEPT ![r.platform] = @ \union {Version(r)}]
          /\ written.minimum = [least EXCEPT ![r.platform] = Version(r)]
      <3>1. [rows EXCEPT ![r.platform] = @ \union {Version(r)}] \in [Platforms -> SUBSET Versions]
        BY <2>3, <2>4, <2>5
      <3>2. [least EXCEPT ![r.platform] = Version(r)] \in Row
        BY <2>3, <2>4, <2>5 DEF Row
      <3>3. call[u].at + 1 \in 0 .. 3 /\ call[u].runs \union {r} \in SUBSET Results
        BY <2>2, <2>3 DEF Calls
      <3> QED BY <2>2, <3>1, <3>2, <3>3 DEF Calls
    <2> HIDE DEF written
    <2>8. Backed(written.versions, runs \union written.runs)
      BY <2>3, <2>4, <2>6, <2>7 DEF Backed
    <2>9. ReleaseTypeOK'
      BY <2>1, <2>7 DEF ReleaseInv, ReleaseTypeOK
    <2>10. ASSUME NEW w \in Uploads PROVE UploadOfOneCommit(w)' /\ WritesOfOneCommit(w)'
      <3>1. CASE w # u
        BY <2>1, <3>1 DEF ReleaseInv, ReleaseTypeOK, UploadOfOneCommit, WritesOfOneCommit, Backed, Version
      <3>2. CASE w = u
        <4>1. call'[w] = written
          BY <2>1, <3>2 DEF ReleaseInv, ReleaseTypeOK
        <4>2. UploadOfOneCommit(w)'
          BY <2>2, <2>7, <3>2, <4>1 DEF UploadOfOneCommit
        <4>3. /\ written.at = 2 => written.minimum["WINDOWS"].commit = written.result["WINDOWS"].commit
              /\ written.at = 3 => written.minimum["WINDOWS"].commit = written.minimum["MACOS"].commit
          <5>1. CASE call[u].at = 1
            BY <5>1, <2>3, <2>4, <2>5, <2>7 DEF Order, Row, Platforms
          <5>2. CASE call[u].at = 2
            <6>1. least["WINDOWS"].commit = r.commit
              BY <5>2, <2>2, <2>3 DEF WritesOfOneCommit, least
            <6> QED BY <5>2, <6>1, <2>3, <2>4, <2>5, <2>7 DEF Order, Row, Platforms
          <5> QED BY <2>2, <5>1, <5>2
        <4>4. WritesOfOneCommit(w)'
          <5>1. Backed(written.versions, runs \union written.runs)
            BY <2>8
          <5>2. written.at \in 2 .. 3 /\ written.locks
            BY <2>2, <2>7
          <5> QED BY <2>1, <4>1, <4>3, <5>1, <5>2 DEF WritesOfOneCommit, Backed, Version
        <4> QED BY <4>2, <4>4
      <3> QED BY <3>1, <3>2
    <2> QED BY <2>1, <2>9, <2>10 DEF ReleaseInv, PacksCounted, ResultsInPlace, PlatformsReleaseTogether, Version
  <1> QED BY <1>1, <1>2

\* What is committed is what was written.
LEMMA CommitReleaseInv ==
  ASSUME ReleaseInv, NEW u \in Uploads, CommitRelease(u)
  PROVE  ReleaseInv'
  <1>1. /\ call[u] \in Calls /\ call[u].at = 3 /\ WritesOfOneCommit(u)
        /\ runs' = runs \union call[u].runs
        /\ versions' = call[u].versions /\ minimum' = call[u].minimum
        /\ call' = [call EXCEPT ![u] = NoCall] /\ UNCHANGED <<packs, flow>>
    BY DEF CommitRelease, ReleaseInv, ReleaseTypeOK
  <1>2. NoCall \in Calls
    BY DEF NoCall, Calls, Row, None, Platforms
  <1>3. ReleaseTypeOK'
    BY <1>1, <1>2 DEF ReleaseInv, ReleaseTypeOK, Calls
  <1>4. PlatformsReleaseTogether'
    BY <1>1 DEF WritesOfOneCommit, Backed, PlatformsReleaseTogether, Version
  <1>5. ASSUME NEW w \in Uploads PROVE UploadOfOneCommit(w)' /\ WritesOfOneCommit(w)'
    BY <1>1 DEF ReleaseInv, ReleaseTypeOK, UploadOfOneCommit, WritesOfOneCommit, NoCall, Backed, Version
  <1> QED BY <1>1, <1>3, <1>4, <1>5 DEF ReleaseInv, PacksCounted, ResultsInPlace

LEMMA LoseReleaseInv ==
  ASSUME ReleaseInv, NEW u \in Uploads, LoseRelease(u)
  PROVE  ReleaseInv'
  BY RefusedUploadInv DEF LoseRelease

LEMMA ReleaseNextInv == ReleaseInv /\ [ReleaseNext]_releaseVars => ReleaseInv'
  <1> SUFFICES ASSUME ReleaseInv, [ReleaseNext]_releaseVars PROVE ReleaseInv'
    OBVIOUS
  <1>1. CASE UNCHANGED releaseVars
    BY <1>1 DEF releaseVars, ReleaseInv, ReleaseTypeOK, PacksCounted, ResultsInPlace, UploadOfOneCommit,
       WritesOfOneCommit, Backed, PlatformsReleaseTogether, Version
  <1>2. CASE ReleaseNext
    BY <1>2, PackStepInv, WorkflowStepInv, RecordRunInv, AttestInv, CheckPackInv,
       RegisterVersionInv, CommitReleaseInv, LoseReleaseInv DEF ReleaseNext
  <1> QED BY <1>1, <1>2

\* The inductive invariant holds of every behaviour.
THEOREM ReleaseInvariance == ReleaseSpec => []ReleaseInv
  BY ReleaseInitInv, ReleaseNextInv, PTL DEF ReleaseSpec

\* The type invariant of a release.
THEOREM ReleaseTypeCorrect == ReleaseSpec => []ReleaseTypeOK
  <1>1. ReleaseInv => ReleaseTypeOK
    BY DEF ReleaseInv
  <1> QED BY <1>1, ReleaseInvariance, PTL

\* Either both production versions advance or neither does, whatever is published,
\* repeated, refused or lost between the steps of a release.
THEOREM PlatformsAreReleasedTogether == ReleaseSpec => []PlatformsReleaseTogether
  <1>1. ReleaseInv => PlatformsReleaseTogether
    BY DEF ReleaseInv
  <1> QED BY <1>1, ReleaseInvariance, PTL

-----------------------------------------------------------------------------
(* Enrollment *)

\* A Windows machine writes its first key to disk before it sends it and never makes
\* another: every key of the machine, at work, on its way or bound, is that one.
KnowsNoKey(m) ==
    /\ verifier[m].at \in {"off", "challenge", "keys"}
    /\ \A r \in requests : r.machine # m
    /\ device.machine # m

HasOneKey(m) ==
    /\ verifier[m].at \in {"off", "post", "wait", "save", "run"}
    /\ verifier[m].at # "off" => verifier[m].key = disk[m].key
    /\ \A r \in requests : r.machine = m => r.key = disk[m].key
    /\ device.machine = m => device.key = disk[m].key

OneKey(m) == IF disk[m] = NoCredential THEN KnowsNoKey(m) ELSE HasOneKey(m)

Has == {"post", "wait", "save", "run"}
KeyInHand == \A m \in Machines : verifier[m].at \in Has => verifier[m].key \in Key

\* The inductive invariant.
EnrollmentInv ==
    /\ EnrollmentTypeOK /\ KeyInHand
    /\ device # NoDevice => secret.status = "consumed"
    /\ \A m \in Windows : OneKey(m)

LEMMA EnrollmentInitInv == EnrollmentInit => EnrollmentInv
  BY EnrollmentAssumption DEF EnrollmentInit, EnrollmentInv, EnrollmentTypeOK, KeyInHand, Has, OneKey, KnowsNoKey,
     NoDevice, NoCredential, Off

\* A challenge counts an attempt of a usable secret, or consumes it; it never
\* revives one.
LEMMA AfterChallengeSecret ==
  ASSUME EnrollmentTypeOK
  PROVE  /\ AfterChallenge \in [status : {"none", "active", "consumed"}, expired : BOOLEAN,
                                attempts : 0..MaxAttempts]
         /\ secret.status = "consumed" => AfterChallenge.status = "consumed"
  BY EnrollmentAssumption DEF EnrollmentTypeOK, AfterChallenge, ChallengeAnswered, Usable

\* The portal and the passing of time do not touch keys.
LEMMA PortalInv ==
  ASSUME EnrollmentInv,
         \/ Consent \/ Prepare \/ PrepareFails \/ LeavePortal \/ SecretExpires \/ SessionEnds
  PROVE  EnrollmentInv'
  <1>1. UNCHANGED <<device, requests, disk, verifier, keys>>
    BY DEF Consent, Prepare, PrepareFails, LeavePortal, SecretExpires, SessionEnds
  <1>2. EnrollmentTypeOK'
    BY DEF EnrollmentInv, EnrollmentTypeOK, Consent, Prepare, PrepareFails, LeavePortal,
       SecretExpires, SessionEnds
  <1>3. device # NoDevice => secret'.status = "consumed"
    BY DEF EnrollmentInv, EnrollmentTypeOK, Consent, Prepare, PrepareFails, LeavePortal,
       SecretExpires, SessionEnds
  <1> QED BY <1>1, <1>2, <1>3 DEF EnrollmentInv, KeyInHand, OneKey, KnowsNoKey, HasOneKey

\* The verifier uses the key that is on the disk, or makes the first one.
LEMMA VerifierInv ==
  ASSUME EnrollmentInv, NEW m \in Machines,
         Launch(m) \/ AskChallenge(m) \/ GenerateKeys(m) \/ Post(m) \/ SaveIdentity(m) \/ Exit(m)
  PROVE  EnrollmentInv'
  <1>1. /\ EnrollmentTypeOK /\ KeyInHand /\ UNCHANGED device
        /\ device # NoDevice => secret.status = "consumed"
        /\ \A w \in Windows : OneKey(w)
    BY DEF EnrollmentInv, Launch, AskChallenge, GenerateKeys, Post, SaveIdentity, Exit
  <1>2. \E at \in {"off", "challenge", "keys", "post", "wait", "save", "run"}, key \in Key \union {0} :
            /\ verifier' = [verifier EXCEPT ![m] = [at |-> at, key |-> key]]
            /\ at \in Has => key \in Key
    <2> USE <1>1 DEF Go, Does, Has
    <2>1. CASE Launch(m)
      BY <2>1 DEF Launch, EnrollmentTypeOK, NoCredential
    <2>2. CASE AskChallenge(m)
      BY <2>2 DEF AskChallenge
    <2>3. CASE GenerateKeys(m)
      <3>1. keys + 1 \in Key
        BY <2>3, EnrollmentAssumption DEF GenerateKeys, EnrollmentTypeOK, Key
      <3> QED BY <2>3, <3>1 DEF GenerateKeys
    <2>4. CASE Post(m) \/ SaveIdentity(m)
      BY <2>4 DEF Post, SaveIdentity, KeyInHand
    <2>5. CASE Exit(m)
      BY <2>5 DEF Exit, Off
    <2> QED BY <2>1, <2>2, <2>3, <2>4, <2>5
  <1>3. EnrollmentTypeOK'
    <2>1. verifier' \in [Machines ->
            [at : {"off", "challenge", "keys", "post", "wait", "save", "run"}, key : Key \union {0}]]
      BY <1>1, <1>2 DEF EnrollmentTypeOK
    <2>2. requests' \subseteq [machine : Machines, key : Key, step : {"challenge", "complete", "replay"}]
      BY <1>1 DEF EnrollmentTypeOK, KeyInHand, Has, Does, Launch, AskChallenge, GenerateKeys, Post,
         SaveIdentity, Exit
    <2>3. disk' \in [Machines -> [kind : {"pending", "identity"}, key : Key] \union {NoCredential}]
      BY <1>1, EnrollmentAssumption DEF EnrollmentTypeOK, KeyInHand, Has, Does, Key, Launch, AskChallenge,
         GenerateKeys, Post, SaveIdentity, Exit
    <2> QED BY <1>1, <2>1, <2>2, <2>3, AfterChallengeSecret, EnrollmentAssumption DEF EnrollmentTypeOK,
               Launch, AskChallenge, GenerateKeys, Post, SaveIdentity, Exit
  <1>4. KeyInHand'
    BY <1>1, <1>2 DEF KeyInHand, EnrollmentTypeOK
  <1>5. device' # NoDevice => secret'.status = "consumed"
    BY <1>1, AfterChallengeSecret DEF Launch, AskChallenge, GenerateKeys, Post, SaveIdentity, Exit
  <1>6. ASSUME NEW w \in Windows PROVE OneKey(w)'
    <2>1. CASE w # m
      BY <1>1, <1>2, <2>1, EnrollmentAssumption DEF EnrollmentTypeOK, OneKey, KnowsNoKey, HasOneKey,
         Launch, AskChallenge, GenerateKeys, Post, SaveIdentity, Exit
    <2>2. CASE w = m
      <3> USE <2>2, <1>1 DEF EnrollmentTypeOK, OneKey, KnowsNoKey, HasOneKey, Go, Does
      <3>1. CASE Launch(m)
        BY <3>1 DEF Launch, NoCredential
      <3>2. CASE AskChallenge(m)
        BY <3>2 DEF AskChallenge
      <3>3. CASE GenerateKeys(m)
        BY <3>3 DEF GenerateKeys, NoCredential
      <3>4. CASE Post(m)
        BY <3>4 DEF Post
      <3>5. CASE SaveIdentity(m)
        BY <3>5 DEF SaveIdentity, NoCredential
      <3>6. CASE Exit(m)
        BY <3>6 DEF Exit, Off
      <3> QED BY <3>1, <3>2, <3>3, <3>4, <3>5, <3>6
    <2> QED BY <2>1, <2>2
  <1> QED BY <1>3, <1>4, <1>5, <1>6 DEF EnrollmentInv

\* The server binds the key of a request, and only while nothing is bound.
LEMMA ServerInv ==
  ASSUME EnrollmentInv, NEW r \in requests, Recheck(r) \/ Complete(r) \/ Replay(r)
  PROVE  EnrollmentInv'
  <1>1. /\ EnrollmentTypeOK /\ KeyInHand /\ UNCHANGED <<session, portal, disk, keys>>
        /\ device # NoDevice => secret.status = "consumed"
        /\ \A w \in Windows : OneKey(w)
        /\ r.machine \in Machines /\ r.key \in Key
    BY DEF EnrollmentInv, EnrollmentTypeOK, Recheck, Complete, Replay
  <1>2. \A q \in requests' :
            /\ q \in [machine : Machines, key : Key, step : {"challenge", "complete", "replay"}]
            /\ \E p \in requests : q.machine = p.machine /\ q.key = p.key
    BY <1>1 DEF EnrollmentTypeOK, Recheck, Complete, Replay, Continue, Answer
  <1>3. \/ UNCHANGED verifier
        \/ /\ verifier[r.machine] = [at |-> "wait", key |-> r.key]
           /\ \/ verifier' = [verifier EXCEPT ![r.machine] = [at |-> "save", key |-> r.key]]
              \/ verifier' = [verifier EXCEPT ![r.machine] = [at |-> "off", key |-> 0]]
    BY DEF Recheck, Complete, Replay, Continue, Answer, Go
  <1>4. \/ UNCHANGED device
        \/ /\ device = NoDevice /\ device' = [machine |-> r.machine, key |-> r.key]
           /\ secret' = [secret EXCEPT !.status = "consumed"]
    BY DEF Recheck, Complete, Replay
  <1>5. /\ secret' \in [status : {"none", "active", "consumed"}, expired : BOOLEAN,
                        attempts : 0..MaxAttempts]
        /\ secret.status = "consumed" => secret'.status = "consumed"
    BY <1>1, AfterChallengeSecret, ZenonT(30) DEF EnrollmentTypeOK, Recheck, Complete, Replay
  <1>6. EnrollmentTypeOK'
    <2>1. verifier' \in [Machines ->
            [at : {"off", "challenge", "keys", "post", "wait", "save", "run"}, key : Key \union {0}]]
      BY <1>1, <1>3 DEF EnrollmentTypeOK
    <2>2. device' \in [machine : Machines, key : Key] \union {NoDevice}
      BY <1>1, <1>4 DEF EnrollmentTypeOK
    <2> QED BY <1>1, <1>2, <1>5, <2>1, <2>2 DEF EnrollmentTypeOK
  <1>7. KeyInHand'
    BY <1>1, <1>3 DEF KeyInHand, EnrollmentTypeOK, Has
  <1>8. device' # NoDevice => secret'.status = "consumed"
    BY <1>1, <1>4, <1>5 DEF EnrollmentTypeOK
  <1>9. ASSUME NEW w \in Windows PROVE OneKey(w)'
    <2>0. w \in Machines /\ verifier \in [Machines ->
            [at : {"off", "challenge", "keys", "post", "wait", "save", "run"}, key : Key \union {0}]]
      BY <1>1, EnrollmentAssumption DEF EnrollmentTypeOK
    <2>1. \A q \in requests' : q.machine = w =>
              \E p \in requests : p.machine = w /\ q.key = p.key
      BY <1>2
    <2>2. CASE disk[w] = NoCredential
      <3>1. r.machine # w
        BY <1>1, <2>2 DEF OneKey, KnowsNoKey
      <3>2. KnowsNoKey(w)
        BY <1>1, <2>2 DEF OneKey
      <3>3. verifier'[w] = verifier[w]
        BY <1>3, <3>1, <2>0
      <3>4. device'.machine # w
        BY <1>4, <3>1, <3>2 DEF KnowsNoKey
      <3> QED BY <1>1, <2>1, <2>2, <3>2, <3>3, <3>4 DEF OneKey, KnowsNoKey
    <2>3. CASE disk[w] # NoCredential
      <3>1. HasOneKey(w)
        BY <1>1, <2>3 DEF OneKey
      <3>2. verifier'[w].at \in {"off", "post", "wait", "save", "run"}
            /\ (verifier'[w].at # "off" => verifier'[w].key = disk[w].key)
        <4>1. CASE r.machine # w
          <5>1. verifier'[w] = verifier[w]
            BY <1>3, <4>1, <2>0
          <5> QED BY <3>1, <5>1 DEF HasOneKey
        <4>2. CASE r.machine = w
          <5>1. r.key = disk[w].key
            BY <3>1, <4>2 DEF HasOneKey
          <5>2. \/ verifier'[w] = verifier[w]
                \/ verifier'[w] = [at |-> "save", key |-> r.key]
                \/ verifier'[w] = [at |-> "off", key |-> 0]
            BY <1>3, <4>2, <2>0
          <5> QED BY <3>1, <5>1, <5>2 DEF HasOneKey
        <4> QED BY <4>1, <4>2
      <3>3. device'.machine = w => device'.key = disk[w].key
        BY <1>4, <3>1 DEF HasOneKey
      <3> QED BY <1>1, <2>1, <2>3, <3>1, <3>2, <3>3 DEF OneKey, HasOneKey
    <2> QED BY <2>2, <2>3
  <1> QED BY <1>6, <1>7, <1>8, <1>9 DEF EnrollmentInv

LEMMA EnrollmentStepInv == EnrollmentInv /\ [Next]_vars => EnrollmentInv'
  <1> SUFFICES ASSUME EnrollmentInv, [Next]_vars PROVE EnrollmentInv'
    OBVIOUS
  <1>1. CASE EnrollmentNext
    BY <1>1, PortalInv, VerifierInv, ServerInv DEF EnrollmentNext
  <1>2. CASE \E m \in Machines : ExitVerifier(m)
    BY <1>2, VerifierInv DEF ExitVerifier
  <1>3. CASE \E m \in Machines : StartMonitoring(m)
    BY <1>3 DEF StartMonitoring, EnrollmentInv, EnrollmentTypeOK, KeyInHand, OneKey, KnowsNoKey, HasOneKey
  <1>4. CASE UNCHANGED enrollmentVars
    BY <1>4 DEF enrollmentVars, EnrollmentInv, EnrollmentTypeOK, KeyInHand, OneKey, KnowsNoKey, HasOneKey
  <1>5. CASE \E m \in Browsers :
              \/ Report(m)
              \/ Claim(m) \/ Move(m) \/ Acknowledge(m) \/ CompleteBrowserClaim(m)
              \/ ReportUnavailable(m) \/ \E answered \in BOOLEAN : Send(m, answered)
    BY <1>4, <1>5, ZenonT(30) DEF Report, Claim, Move, Acknowledge, CompleteBrowserClaim, ReportUnavailable, Send
  <1> QED BY <1>1, <1>2, <1>3, <1>4, <1>5 DEF Next, vars

\* The invariant, and with it the types of enrollment.
THEOREM EnrollmentInvariance == Spec => []EnrollmentInv
  <1>1. Init => EnrollmentInv
    BY EnrollmentInitInv DEF Init
  <1> QED BY <1>1, EnrollmentStepInv, PTL DEF Spec

\* A Windows machine that was enrolled can always get its identity: wherever the
\* verifier died and whichever answer was lost, the enrolled key is on its disk and
\* the server answers a repeated completion with it.
THEOREM EnrolledKeysAreKept == Spec => []EnrolledKeyIsKept
  <1>1. EnrollmentInv => EnrolledKeyIsKept
    <2> SUFFICES ASSUME EnrollmentInv, device.machine \in Windows
                 PROVE  disk[device.machine].key = device.key /\ Replayable(device.key)
      BY DEF EnrolledKeyIsKept
    <2>1. device # NoDevice
      BY EnrollmentAssumption DEF NoDevice
    <2> QED BY <2>1 DEF EnrollmentInv, OneKey, KnowsNoKey, HasOneKey, Replayable
  <1> QED BY <1>1, EnrollmentInvariance, PTL

-----------------------------------------------------------------------------
(* Evidence: the inductive invariant *)

\* Each machine's keys are its own, and none is yet to be generated.
HasKey(m, k) ==
    \/ disk[m].key = k \/ verifier[m].key = k
    \/ \E r \in requests : r.machine = m /\ r.key = k
    \/ device = [machine |-> m, key |-> k]

OwnKeys(m) ==
    \A k \in Key : HasKey(m, k) =>
        /\ k <= keys
        /\ \A n \in Machines \ {m} : ~HasKey(n, k)

\* Only on the bound device does a verifier get or find an identity.
OnDevice(m) == verifier[m].at \in {"save", "run"} \/ disk[m].kind = "identity" => device.machine = m

\* Before a device is bound, and on the other machines, nothing is claimed or sent.
NothingSent == device = NoDevice => kept = NothingKept /\ memory = Fresh /\ stored = [events |-> <<>>, next |-> FALSE]

\* A claim is resumed where it was left, and what is still queued came after it.
ClaimInOrder(m) ==
    /\ device.machine # m \/ memory.completing => spool[m].claim = <<>>
    /\ spool[m].claim # <<>> => NextIndex(m) <= Len(spool[m].claim)
    /\ device.machine = m => /\ kept.claim.id \in 0..Len(reported[m])
                             /\ \A k \in DOMAIN spool[m].queue : kept.claim.id < spool[m].queue[k].place

\* Every item of a log that is not gone is in its place.
AllIn(trail, log, gone) ==
    /\ Ordered(trail)
    /\ Places(trail) = DOMAIN log \ gone
    /\ \A k \in Items(trail) : trail[k].kind = log[trail[k].place]
    /\ gone \subseteq DOMAIN log

Accounted(m) == AllIn(Trail(m), reported[m], dropped[m])

EvidenceInv ==
    /\ TypeOK /\ EnrollmentInv
    /\ \A m \in Machines : OwnKeys(m) /\ OnDevice(m)
    /\ NothingSent
    /\ stored.next => kept.pending # <<>>
    /\ \A m \in Browsers : ClaimInOrder(m) /\ Accounted(m)

-----------------------------------------------------------------------------
(* Keys of machines *)

LEMMA KeysKept ==
  ASSUME EnrollmentInv, NEW n \in Machines, NEW k \in Key, HasKey(n, k)',
         \/ Consent \/ Prepare \/ PrepareFails \/ LeavePortal \/ SecretExpires \/ SessionEnds
         \/ \E m \in Machines : \/ Launch(m) \/ AskChallenge(m) \/ Post(m) \/ SaveIdentity(m) \/ Exit(m)
                                \/ StartMonitoring(m)
         \/ \E r \in requests : Recheck(r) \/ Complete(r) \/ Replay(r)
         \/ UNCHANGED enrollmentVars
  PROVE  HasKey(n, k) /\ keys' = keys
  <1> USE DEF HasKey
  <1>1. CASE \/ Consent \/ Prepare \/ PrepareFails \/ LeavePortal \/ SecretExpires \/ SessionEnds
             \/ UNCHANGED enrollmentVars \/ \E m \in Machines : StartMonitoring(m)
    BY <1>1 DEF Consent, Prepare, PrepareFails, LeavePortal, SecretExpires, SessionEnds, enrollmentVars,
       StartMonitoring
  <1>2. /\ disk \in [Machines -> [kind : {"pending", "identity"}, key : Key] \union {NoCredential}]
        /\ verifier \in [Machines ->
            [at : {"off", "challenge", "keys", "post", "wait", "save", "run"}, key : Key \union {0}]]
        /\ k # 0
    BY EnrollmentAssumption DEF EnrollmentInv, EnrollmentTypeOK, Key
  <1>3. ASSUME NEW m \in Machines, Launch(m) \/ AskChallenge(m) \/ Exit(m)
        PROVE  HasKey(n, k) /\ keys' = keys
    BY <1>2, <1>3 DEF Launch, AskChallenge, Exit, Go, Off
  <1>4. ASSUME NEW m \in Machines, Post(m) \/ SaveIdentity(m)
        PROVE  HasKey(n, k) /\ keys' = keys
    BY <1>2, <1>4 DEF Post, SaveIdentity, Go
  <1>5. ASSUME NEW r \in requests, Recheck(r) \/ Complete(r) \/ Replay(r)
        PROVE  HasKey(n, k) /\ keys' = keys
    <2>1. /\ r.machine \in Machines /\ r.key \in Key
          /\ UNCHANGED <<disk, keys>>
      BY <1>5 DEF EnrollmentInv, EnrollmentTypeOK, Recheck, Complete, Replay
    <2>2. \A q \in requests' : \E p \in requests : q.machine = p.machine /\ q.key = p.key
      <3>1. CASE Recheck(r)
        BY <3>1 DEF Recheck, Continue, EnrollmentInv, EnrollmentTypeOK
      <3>2. CASE Complete(r) \/ Replay(r)
        BY <3>2 DEF Complete, Replay, Answer
      <3> QED BY <1>5, <3>1, <3>2
    <2>3. \/ verifier'[n] = verifier[n]
          \/ /\ n = r.machine
             /\ verifier'[n].key \in {r.key, 0}
      BY <1>2, <1>5, <2>1 DEF Recheck, Complete, Replay, Answer, Go
    <2>4. device' = device \/ device' = [machine |-> r.machine, key |-> r.key]
      BY <1>5 DEF Recheck, Complete, Replay
    <2>5. CASE disk'[n].key = k
      BY <2>1, <2>5
    <2>6. CASE verifier'[n].key = k
      BY <1>2, <2>1, <2>3, <2>6
    <2>7. CASE \E q \in requests' : q.machine = n /\ q.key = k
      BY <2>1, <2>2, <2>7
    <2>8. CASE device' = [machine |-> n, key |-> k]
      BY <2>1, <2>4, <2>8
    <2> QED BY <2>1, <2>5, <2>6, <2>7, <2>8
  <1> QED BY <1>1, <1>3, <1>4, <1>5

LEMMA OwnKeysStep ==
  ASSUME EnrollmentInv, \A m \in Machines : OwnKeys(m), [Next]_vars
  PROVE  \A m \in Machines : OwnKeys(m)'
  <1>0. keys \in Nat
    BY EnrollmentAssumption DEF EnrollmentInv, EnrollmentTypeOK
  <1>1. CASE \/ Consent \/ Prepare \/ PrepareFails \/ LeavePortal \/ SecretExpires \/ SessionEnds
             \/ \E m \in Machines : \/ Launch(m) \/ AskChallenge(m) \/ Post(m) \/ SaveIdentity(m) \/ Exit(m)
                                    \/ StartMonitoring(m)
             \/ \E r \in requests : Recheck(r) \/ Complete(r) \/ Replay(r)
             \/ UNCHANGED enrollmentVars
    <2>1. \A n \in Machines, k \in Key : HasKey(n, k)' => HasKey(n, k) /\ keys' = keys
      BY <1>1, KeysKept
    <2> QED BY <2>1 DEF OwnKeys
  <1>2. ASSUME NEW m \in Machines, GenerateKeys(m)
        PROVE  \A n \in Machines : OwnKeys(n)'
    <2>1. /\ keys' = keys + 1 /\ UNCHANGED <<device, requests>>
          /\ \A n \in Machines \ {m} : disk'[n] = disk[n] /\ verifier'[n] = verifier[n]
          /\ disk'[m] = disk[m] \/ disk'[m].key = keys + 1
          /\ verifier'[m].key = keys + 1
      BY <1>2 DEF GenerateKeys, Go, EnrollmentInv, EnrollmentTypeOK
    <2>2. ASSUME NEW n \in Machines, NEW k \in Key, HasKey(n, k)'
          PROVE  HasKey(n, k) \/ (n = m /\ k = keys + 1)
      BY <2>1, <2>2 DEF HasKey
    <2>3. ASSUME NEW n \in Machines, NEW k \in Key, HasKey(n, k)'
          PROVE  k <= keys' /\ \A o \in Machines \ {n} : ~HasKey(o, k)'
      <3>1. k \in Nat
        BY EnrollmentAssumption DEF Key
      <3>2. \A o \in Machines : HasKey(o, k) => k <= keys
        BY DEF OwnKeys
      <3>3. \A o \in Machines : HasKey(o, k)' => HasKey(o, k) \/ (o = m /\ k = keys + 1)
        BY <2>2
      <3>4. \A o, q \in Machines : HasKey(o, k) /\ HasKey(q, k) => o = q
        BY DEF OwnKeys
      <3> QED BY <1>0, <2>1, <2>3, <3>1, <3>2, <3>3, <3>4
    <2> QED BY <2>3 DEF OwnKeys
  <1>3. \/ UNCHANGED enrollmentVars \/ EnrollmentNext
        \/ \E m \in Machines : Exit(m) \/ StartMonitoring(m)
    BY DEF Next, vars, ExitVerifier, Report, Claim, Move, Acknowledge, CompleteBrowserClaim,
       ReportUnavailable, Send
  <1> QED BY <1>1, <1>2, <1>3 DEF EnrollmentNext

LEMMA OnDeviceStep ==
  ASSUME EnrollmentInv, \A m \in Machines : OwnKeys(m) /\ OnDevice(m), [Next]_vars
  PROVE  \A m \in Machines : OnDevice(m)'
  <1>1. /\ disk \in [Machines -> [kind : {"pending", "identity"}, key : Key] \union {NoCredential}]
        /\ verifier \in [Machines ->
            [at : {"off", "challenge", "keys", "post", "wait", "save", "run"}, key : Key \union {0}]]
    BY DEF EnrollmentInv, EnrollmentTypeOK
  <1>2. CASE \/ Consent \/ Prepare \/ PrepareFails \/ LeavePortal \/ SecretExpires \/ SessionEnds
             \/ \E m \in Machines : StartMonitoring(m)
             \/ UNCHANGED enrollmentVars
    BY <1>2 DEF Consent, Prepare, PrepareFails, LeavePortal, SecretExpires, SessionEnds, enrollmentVars,
       StartMonitoring, OnDevice
  <1>3. ASSUME NEW n \in Machines, NEW m \in Machines,
               Launch(n) \/ AskChallenge(n) \/ GenerateKeys(n) \/ Post(n) \/ SaveIdentity(n) \/ Exit(n)
        PROVE  OnDevice(m)'
    <2>1. device' = device /\ OnDevice(m)
      BY <1>3 DEF Launch, AskChallenge, GenerateKeys, Post, SaveIdentity, Exit
    <2>2. CASE m # n
      <3>1. verifier'[m] = verifier[m] /\ disk'[m] = disk[m]
        BY <1>1, <1>3, <2>2 DEF Launch, AskChallenge, GenerateKeys, Post, SaveIdentity, Exit, Go
      <3> QED BY <2>1, <3>1 DEF OnDevice
    <2>3. CASE m = n
      <3>1. CASE Launch(m)
        BY <1>1, <2>1, <3>1 DEF Launch, Go, OnDevice
      <3>2. CASE AskChallenge(m) \/ GenerateKeys(m) \/ Post(m) \/ Exit(m)
        BY <1>1, <2>1, <3>2 DEF AskChallenge, GenerateKeys, Post, Exit, Go, OnDevice, Off
      <3>3. CASE SaveIdentity(m)
        BY <1>1, <2>1, <3>3 DEF SaveIdentity, Does, OnDevice
      <3> QED BY <1>3, <2>3, <3>1, <3>2, <3>3
    <2> QED BY <2>2, <2>3
  <1>4. ASSUME NEW r \in requests, Recheck(r) \/ Complete(r) \/ Replay(r), NEW m \in Machines
        PROVE  OnDevice(m)'
    <2>1. r.machine \in Machines /\ r.key \in Key /\ disk' = disk /\ OnDevice(m) /\ "none" # m
          /\ device \in [machine : Machines, key : Key] \union {NoDevice}
      BY <1>4, EnrollmentAssumption DEF EnrollmentInv, EnrollmentTypeOK, Recheck, Complete, Replay
    <2>2. CASE Recheck(r)
      BY <2>1, <2>2 DEF Recheck, OnDevice
    <2>3. CASE Complete(r)
      <3>1. \/ /\ device' = device
               /\ verifier'[m].at \in {verifier[m].at, "off"}
            \/ /\ device = NoDevice /\ device'.machine = r.machine
               /\ m # r.machine => verifier'[m] = verifier[m]
        BY <1>1, <2>1, <2>3 DEF Complete, Answer, Go
      <3> QED BY <2>1, <3>1 DEF OnDevice, NoDevice
    <2>4. CASE Replay(r)
      <3>1. device' = device
        BY <2>4 DEF Replay
      <3>2. CASE m # r.machine
        <4>1. verifier'[m] = verifier[m]
          BY <1>1, <2>4, <3>2 DEF Replay, Answer, Go
        <4> QED BY <2>1, <3>1, <4>1 DEF OnDevice
      <3>3. CASE m = r.machine /\ Replayable(r.key)
        <4>1. 0 \notin Key
          BY EnrollmentAssumption DEF Key
        <4>2. device \in [machine : Machines, key : Key] /\ device.key = r.key
          BY <2>1, <3>3, <4>1 DEF Replayable, NoDevice
        <4>3. HasKey(device.machine, r.key) /\ HasKey(m, r.key)
          BY <3>3, <4>2 DEF HasKey
        <4>4. device.machine = m
          BY <2>1, <4>2, <4>3 DEF OwnKeys
        <4> QED BY <3>1, <4>4 DEF OnDevice
      <3>4. CASE m = r.machine /\ ~Replayable(r.key)
        <4>1. verifier'[m].at \in {verifier[m].at, "off"}
          BY <1>1, <2>1, <2>4, <3>4 DEF Replay, Answer, Go
        <4> QED BY <2>1, <3>1, <4>1 DEF OnDevice
      <3> QED BY <3>2, <3>3, <3>4
    <2> QED BY <1>4, <2>2, <2>3, <2>4
  <1>5. \/ UNCHANGED enrollmentVars \/ EnrollmentNext
        \/ \E m \in Machines : Exit(m) \/ StartMonitoring(m)
    BY DEF Next, vars, ExitVerifier, Report, Claim, Move, Acknowledge, CompleteBrowserClaim,
       ReportUnavailable, Send
  <1> QED BY <1>2, <1>3, <1>4, <1>5 DEF EnrollmentNext

-----------------------------------------------------------------------------
(* Sequences of events *)

Sent == stored.events \o Unsent
Rest(m) == Unclaimed(m) \o spool[m].queue

LEMMA ItemsAreEvents == Item \subseteq Event /\ Unavailable \in Event /\ Unavailable \notin Item
  BY BrowserAssumption DEF Event, Item, Unavailable

LEMMA HeadAndTail ==
  ASSUME NEW S, NEW s \in Seq(S), s # <<>>
  PROVE  s = <<Head(s)>> \o Tail(s) /\ Head(s) \in S /\ Tail(s) \in Seq(S)
  <1>1. Len(s) \in Nat \ {0}
    BY EmptySeq
  <1>2. SubSeq(s, 1, Len(s)) = <<s[1]>> \o SubSeq(s, 2, Len(s))
    BY <1>1, SubSeqRecursiveFirst
  <1>3. SubSeq(s, 1, Len(s)) = s /\ Tail(s) = SubSeq(s, 2, Len(s))
    BY SubSeqFull, TailIsSubSeq
  <1>4. Head(s) = s[1]
    OBVIOUS
  <1> QED BY <1>2, <1>3, <1>4, HeadTailProperties

LEMMA ThreeParts ==
  ASSUME NEW S, NEW a \in Seq(S), NEW b \in Seq(S), NEW c \in Seq(S)
  PROVE  /\ (a \o b) \o c = a \o (b \o c)
         /\ \A i \in 1..Len(b) : /\ Len(a) + i \in DOMAIN (a \o (b \o c))
                               /\ (a \o (b \o c))[Len(a) + i] = b[i]
         /\ \A j \in 1..Len(c) : /\ Len(a) + (Len(b) + j) \in DOMAIN (a \o (b \o c))
                               /\ (a \o (b \o c))[Len(a) + (Len(b) + j)] = c[j]
  <1> DEFINE d == b \o c
             t == a \o d
  <1>1. /\ d \in Seq(S) /\ Len(d) = Len(b) + Len(c)
        /\ \A i \in 1..Len(b) + Len(c) : d[i] = IF i <= Len(b) THEN b[i] ELSE c[i - Len(b)]
    BY ConcatProperties
  <1>2. Len(a) \in Nat /\ Len(b) \in Nat /\ Len(c) \in Nat
    BY LenProperties
  <1>3. (a \o b) \o c = t
    BY ConcatAssociative
  <1> HIDE DEF d
  <1>4. /\ t \in Seq(S) /\ Len(t) = Len(a) + Len(d)
        /\ \A i \in 1..Len(a) + Len(d) : t[i] = IF i <= Len(a) THEN a[i] ELSE d[i - Len(a)]
    <2>1. d \in Seq(S)
      BY <1>1
    <2> QED BY <2>1, ConcatProperties
  <1>5. DOMAIN t = 1..Len(t)
    BY <1>4, LenProperties
  <1> HIDE DEF t
  <1>6. ASSUME NEW i \in 1..Len(d)
        PROVE  Len(a) + i \in DOMAIN t /\ t[Len(a) + i] = d[i]
    <2>1. Len(d) \in Nat
      BY <1>1, <1>2
    <2>2. Len(a) + i \in 1..Len(a) + Len(d) /\ ~(Len(a) + i <= Len(a)) /\ (Len(a) + i) - Len(a) = i
      BY <1>2, <2>1
    <2> QED BY <1>4, <1>5, <2>2
  <1>7. ASSUME NEW i \in 1..Len(b)
        PROVE  i \in 1..Len(d) /\ d[i] = b[i]
    BY <1>1, <1>2
  <1>8. ASSUME NEW j \in 1..Len(c)
        PROVE  Len(b) + j \in 1..Len(d) /\ d[Len(b) + j] = c[j]
    <2>1. Len(b) + j \in 1..Len(b) + Len(c) /\ ~(Len(b) + j <= Len(b)) /\ (Len(b) + j) - Len(b) = j
      BY <1>2
    <2> QED BY <1>1, <2>1
  <1>9. /\ (a \o b) \o c = t
        /\ \A i \in 1..Len(b) : Len(a) + i \in DOMAIN t /\ t[Len(a) + i] = b[i]
        /\ \A j \in 1..Len(c) : Len(a) + (Len(b) + j) \in DOMAIN t /\ t[Len(a) + (Len(b) + j)] = c[j]
    BY <1>3, <1>6, <1>7, <1>8
  <1> QED BY <1>9 DEF t, d

LEMMA EventParts == \A a, b, c \in Seq(Event) : (a \o b) \o c = a \o (b \o c)
  BY ThreeParts

LEMMA EventPlaces ==
  \A a, b, c \in Seq(Event) :
    /\ \A i \in 1..Len(b) : /\ Len(a) + i \in DOMAIN (a \o (b \o c))
                          /\ (a \o (b \o c))[Len(a) + i] = b[i]
    /\ \A j \in 1..Len(c) : /\ Len(a) + (Len(b) + j) \in DOMAIN (a \o (b \o c))
                          /\ (a \o (b \o c))[Len(a) + (Len(b) + j)] = c[j]
  <1> TAKE a, b, c \in Seq(Event)
  <1>1. \A i \in 1..Len(b) : /\ Len(a) + i \in DOMAIN (a \o (b \o c))
                            /\ (a \o (b \o c))[Len(a) + i] = b[i]
    BY ThreeParts, SMTT(30)
  <1>2. \A j \in 1..Len(c) : /\ Len(a) + (Len(b) + j) \in DOMAIN (a \o (b \o c))
                            /\ (a \o (b \o c))[Len(a) + (Len(b) + j)] = c[j]
    BY ThreeParts, SMTT(30)
  <1> QED BY <1>1, <1>2

LEMMA ItemParts == \A a, b, c \in Seq(Item) : (a \o b) \o c = a \o (b \o c)
  BY ThreeParts

LEMMA EventConcat ==
  \A a, b \in Seq(Event) :
    /\ a \o b \in Seq(Event) /\ Len(a \o b) = Len(a) + Len(b)
    /\ \A i \in 1..Len(a) + Len(b) : (a \o b)[i] = IF i <= Len(a) THEN a[i] ELSE b[i - Len(a)]
  BY ConcatProperties

LEMMA EvidenceTypes ==
  ASSUME TypeOK, stored.next => kept.pending # <<>>
  PROVE  /\ stored.events \in Seq(Event) /\ kept.pending \in Seq(Event) /\ Unsent \in Seq(Event)
         /\ Sent \in Seq(Event)
         /\ kept.claim.id \in Nat /\ kept.claim.next \in Nat
  <1>1. stored.events \in Seq(Event) /\ kept.pending \in Seq(Event)
        /\ kept.claim.id \in Nat /\ kept.claim.next \in Nat
    BY DEF TypeOK
  <1>2. Unsent \in Seq(Event)
    BY <1>1, HeadAndTail DEF Unsent
  <1> QED BY <1>1, <1>2, ConcatProperties DEF Sent

LEMMA SpoolTypes ==
  ASSUME TypeOK, NEW m \in Browsers
  PROVE  /\ spool[m].queue \in Seq(Item) /\ spool[m].claim \in Seq(Item)
         /\ Len(spool[m].queue) \in Nat /\ Len(spool[m].claim) \in Nat
         /\ NextIndex(m) \in Nat
         /\ Unclaimed(m) \in Seq(Item) /\ Rest(m) \in Seq(Item) /\ Rest(m) \in Seq(Event)
  <1>1. spool[m].queue \in Seq(Item) /\ spool[m].claim \in Seq(Item)
    BY DEF TypeOK
  <1>2. Len(spool[m].queue) \in Nat /\ Len(spool[m].claim) \in Nat
    BY <1>1, LenProperties
  <1>3. NextIndex(m) \in Nat
    BY DEF TypeOK, NextIndex
  <1>4. Unclaimed(m) \in Seq(Item)
    <2>1. \A k \in NextIndex(m) + 1 .. Len(spool[m].claim) : spool[m].claim[k] \in Item
      BY <1>1, <1>2, <1>3, ElementOfSeq
    <2>2. SubSeq(spool[m].claim, NextIndex(m) + 1, Len(spool[m].claim)) \in Seq(Item)
      BY <1>2, <1>3, <2>1, SubSeqProperties
    <2> QED BY <2>2, EmptySeq DEF Unclaimed
  <1>5. Rest(m) \in Seq(Item)
    BY <1>1, <1>4, ConcatProperties DEF Rest
  <1>6. Rest(m) \in Seq(Event)
    BY <1>5, ItemsAreEvents, SeqMonotonic
  <1> QED BY <1>1, <1>2, <1>3, <1>4, <1>5, <1>6

LEMMA TrailOf ==
  ASSUME TypeOK, stored.next => kept.pending # <<>>, NEW m \in Browsers
  PROVE  /\ Trail(m) = IF device.machine = m THEN Sent \o Rest(m) ELSE Rest(m)
         /\ Trail(m) \in Seq(Event)
  <1>1. <<>> \o Rest(m) = Rest(m)
    BY SpoolTypes, ConcatEmptySeq
  <1>2. Trail(m) = IF device.machine = m THEN Sent \o Rest(m) ELSE Rest(m)
    BY <1>1 DEF Trail, Sent, Rest
  <1> QED BY <1>2, EvidenceTypes, SpoolTypes, ConcatProperties

\* The running verifier of a monitored machine is that of the bound device.
LEMMA MonitorsDevice ==
  ASSUME \A m \in Machines : OnDevice(m), NEW m \in Browsers, Monitoring(m)
  PROVE  device.machine = m
  BY BrowserAssumption, EnrollmentAssumption DEF OnDevice, Monitoring, Running, Does

\* Items that stay where they are stay accounted for.
LEMMA SameTrail ==
  ASSUME NEW m \in Browsers, Accounted(m), Trail(m)' = Trail(m),
         reported'[m] = reported[m], dropped'[m] = dropped[m]
  PROVE  Accounted(m)'
  <1> DEFINE t == Trail(m)
             u == Trail(m)'
  <1>1. AllIn(t, reported[m], dropped[m]) /\ u = t
    BY DEF Accounted
  <1> HIDE DEF t, u
  <1>2. AllIn(u, reported'[m], dropped'[m])
    BY <1>1
  <1> QED BY <1>2 DEF u, Accounted, AllIn, Ordered, Places, Items

-----------------------------------------------------------------------------
(* Evidence: the steps *)

SendsNext == stored.next => kept.pending # <<>>

\* What the sequences hold, before and after a step.
Shape ==
    /\ stored.events \in Seq(Event) /\ kept.pending \in Seq(Event) /\ Unsent \in Seq(Event)
    /\ Sent \in Seq(Event)
    /\ kept.claim.id \in Nat /\ kept.claim.next \in Nat
    /\ \A m \in Browsers :
         /\ Trail(m) = IF device.machine = m THEN Sent \o Rest(m) ELSE Rest(m)
         /\ Trail(m) \in Seq(Event)
         /\ spool[m].queue \in Seq(Item) /\ spool[m].claim \in Seq(Item)
         /\ Len(spool[m].queue) \in Nat /\ Len(spool[m].claim) \in Nat
         /\ NextIndex(m) \in Nat
         /\ Unclaimed(m) \in Seq(Item) /\ Rest(m) \in Seq(Item) /\ Rest(m) \in Seq(Event)

LEMMA Shapes == TypeOK /\ SendsNext => Shape
  BY EvidenceTypes, SpoolTypes, TrailOf DEF Shape, SendsNext

LEMMA ShapesNext == TypeOK' /\ SendsNext' => Shape'
  BY Shapes, PTL

LEMMA ShapesNow == EvidenceInv => Shape
  BY Shapes DEF EvidenceInv, SendsNext

\* On other machines than the bound one nothing is claimed, whatever is kept.
LEMMA ElsewhereSame ==
  ASSUME EvidenceInv, TypeOK', SendsNext', NEW n \in Browsers, device' = device, device.machine # n,
         spool'[n] = spool[n], reported'[n] = reported[n], dropped'[n] = dropped[n]
  PROVE  ClaimInOrder(n)' /\ Accounted(n)'
  <1>1. spool[n].claim = <<>> /\ Accounted(n)
    BY DEF EvidenceInv, ClaimInOrder
  <1>2. Rest(n)' = Rest(n)
    BY <1>1 DEF Rest, Unclaimed
  <1>3. Trail(n) = Rest(n)
    BY ShapesNow DEF Shape
  <1>4. Trail(n)' = Rest(n)'
    BY ShapesNext DEF Shape
  <1>5. Accounted(n)'
    BY <1>1, <1>2, <1>3, <1>4, SameTrail
  <1> QED BY <1>1, <1>5 DEF ClaimInOrder

\* What is the same on every machine but m.
Elsewhere(m) ==
    /\ device' = device /\ reported' = reported /\ dropped' = dropped
    /\ \A n \in Browsers \ {m} : spool'[n] = spool[n]

\* A step of the verifier that moves items along leaves each of them accounted for.
LEMMA MovesAlong ==
  ASSUME EvidenceInv, TypeOK', SendsNext', NEW m \in Browsers, device.machine = m, Elsewhere(m),
         Sent' \o Rest(m)' = Sent \o Rest(m)
  PROVE  /\ \A n \in Browsers \ {m} : ClaimInOrder(n)' /\ Accounted(n)'
         /\ Accounted(m)'
  <1>1. \A n \in Browsers \ {m} : ClaimInOrder(n)' /\ Accounted(n)'
    BY ElsewhereSame DEF Elsewhere
  <1>2. Trail(m) = Sent \o Rest(m)
    BY ShapesNow DEF Shape
  <1>3. Trail(m)' = Sent' \o Rest(m)'
    BY ShapesNext DEF Shape, Elsewhere
  <1>4. Accounted(m)'
    BY <1>2, <1>3, SameTrail DEF EvidenceInv, Elsewhere
  <1> QED BY <1>1, <1>4

LEMMA MonitoredDevice ==
  ASSUME EvidenceInv, NEW m \in Browsers, Monitoring(m)
  PROVE  device.machine = m
  BY MonitorsDevice DEF EvidenceInv

Steps(m) ==
    \/ Report(m)
    \/ Claim(m) \/ Move(m) \/ Acknowledge(m) \/ CompleteBrowserClaim(m)
    \/ ReportUnavailable(m) \/ \E answered \in BOOLEAN : Send(m, answered)

LEMMA StepsKeep ==
  ASSUME NEW m \in Browsers, Steps(m)
  PROVE  UNCHANGED enrollmentVars
  BY DEF Steps, Report, Claim, Move, Acknowledge, CompleteBrowserClaim, ReportUnavailable, Send

LEMMA EnrollmentSame ==
  ASSUME EvidenceInv, UNCHANGED enrollmentVars
  PROVE  /\ EnrollmentTypeOK' /\ UNCHANGED <<session, portal, secret, device, requests, disk, verifier, keys>>
         /\ EnrollmentTypeOK
  BY DEF EvidenceInv, TypeOK, enrollmentVars, EnrollmentTypeOK

\* The item that is moved next.
LEMMA NextItem ==
  ASSUME EvidenceInv, NEW m \in Browsers, spool[m].claim # <<>>, NextIndex(m) < Len(spool[m].claim)
  PROVE  /\ NextIndex(m) + 1 \in 1..Len(spool[m].claim)
         /\ spool[m].claim[NextIndex(m) + 1] \in Item /\ spool[m].claim[1] \in Item
  BY ShapesNow, ElementOfSeq DEF Shape

LEMMA ClaimTypes ==
  ASSUME EvidenceInv, NEW m \in Browsers, Claim(m) \/ Acknowledge(m) \/ CompleteBrowserClaim(m)
  PROVE  TypeOK' /\ SendsNext'
  <1>1. EnrollmentTypeOK'
    BY EnrollmentSame, StepsKeep DEF Steps
  <1>2. /\ TypeOK /\ SendsNext /\ Shape /\ <<>> \in Seq(Item)
    BY ShapesNow, EmptySeq DEF EvidenceInv, SendsNext
  <1>3. CASE Claim(m)
    BY <1>1, <1>2, <1>3 DEF Shape, SendsNext, TypeOK, Claim
  <1>4. CASE Acknowledge(m)
    BY <1>1, <1>2, <1>4 DEF Shape, SendsNext, TypeOK, Acknowledge
  <1>5. CASE CompleteBrowserClaim(m)
    BY <1>1, <1>2, <1>5 DEF Shape, SendsNext, TypeOK, CompleteBrowserClaim, NoClaim
  <1> QED BY <1>3, <1>4, <1>5

LEMMA MoveTypes ==
  ASSUME EvidenceInv, NEW m \in Browsers, Move(m)
  PROVE  TypeOK' /\ SendsNext'
  <1>1. EnrollmentTypeOK'
    BY EnrollmentSame, StepsKeep DEF Steps
  <1>2. /\ TypeOK /\ Shape /\ ClaimId(m) \in Nat /\ NextIndex(m) + 1 \in Nat
        /\ spool[m].claim[NextIndex(m) + 1] \in Event
    <2>1. TypeOK /\ Shape /\ NextIndex(m) \in Nat
      BY ShapesNow DEF EvidenceInv, Shape
    <2>2. spool[m].claim[NextIndex(m) + 1] \in Item /\ spool[m].claim[1] \in Item
      BY NextItem DEF Move
    <2>3. spool[m].claim[1].place \in Nat
      BY <2>2, BrowserAssumption DEF Item
    <2> QED BY <2>1, <2>2, <2>3, ItemsAreEvents DEF ClaimId
  <1>3. /\ Append(kept.pending, spool[m].claim[NextIndex(m) + 1]) \in Seq(Event)
        /\ Append(kept.pending, spool[m].claim[NextIndex(m) + 1]) # <<>>
    <2>1. kept.pending \in Seq(Event)
      BY <1>2 DEF Shape
    <2> QED BY <1>2, <2>1, AppendProperties
  <1>4. kept' \in [pending : Seq(Event), claim : [id : Nat, next : Nat]] /\ kept'.pending # <<>>
    BY <1>2, <1>3 DEF Move
  <1> QED BY <1>1, <1>2, <1>4 DEF TypeOK, SendsNext, Move

LEMMA ExcuseTypes ==
  ASSUME EvidenceInv, NEW m \in Browsers, ReportUnavailable(m)
  PROVE  TypeOK' /\ SendsNext'
  <1>1. EnrollmentTypeOK'
    BY EnrollmentSame, StepsKeep DEF Steps
  <1>2. /\ Append(kept.pending, Unavailable) \in Seq(Event)
        /\ Append(kept.pending, Unavailable) # <<>>
    <2>1. kept.pending \in Seq(Event)
      BY ShapesNow DEF Shape
    <2> QED BY <2>1, ItemsAreEvents, AppendProperties
  <1>3. kept' \in [pending : Seq(Event), claim : [id : Nat, next : Nat]] /\ kept'.pending # <<>>
    BY <1>2 DEF ReportUnavailable, EvidenceInv, TypeOK
  <1> QED BY <1>1, <1>3 DEF TypeOK, SendsNext, ReportUnavailable, EvidenceInv

LEMMA SendTypes ==
  ASSUME EvidenceInv, NEW m \in Browsers, NEW answered \in BOOLEAN, Send(m, answered)
  PROVE  TypeOK' /\ SendsNext'
  <1>1. EnrollmentTypeOK'
    BY EnrollmentSame, StepsKeep DEF Steps
  <1>2. /\ kept.pending # <<>> /\ kept.pending \in Seq(Event) /\ stored.events \in Seq(Event)
        /\ UNCHANGED <<reported, dropped, spool, memory>>
        /\ Head(kept.pending) \in Event /\ Tail(kept.pending) \in Seq(Event)
    BY ShapesNow, HeadAndTail DEF Shape, Send
  <1>3. Append(stored.events, Head(kept.pending)) \in Seq(Event)
    BY <1>2, AppendProperties
  <1>4. stored' \in [events : Seq(Event), next : BOOLEAN] /\ stored'.next = ~answered
    BY <1>2, <1>3 DEF Send
  <1>5. /\ kept' \in [pending : Seq(Event), claim : [id : Nat, next : Nat]]
        /\ ~answered => kept' = kept
    BY <1>2 DEF Send, EvidenceInv, TypeOK
  <1> QED BY <1>1, <1>2, <1>4, <1>5 DEF TypeOK, SendsNext, EvidenceInv

-----------------------------------------------------------------------------
(* The verifier moves items along *)

LEMMA ClaimStep ==
  ASSUME EvidenceInv, NEW m \in Browsers, Claim(m)
  PROVE  \A n \in Browsers : ClaimInOrder(n)' /\ Accounted(n)'
  <1> DEFINE q == spool[m].queue
  <1>1. /\ device.machine = m /\ TypeOK' /\ SendsNext' /\ Shape /\ device' = device
        /\ ClaimInOrder(m)
    BY MonitoredDevice, ClaimTypes, ShapesNow, EnrollmentSame, StepsKeep DEF Claim, Steps, EvidenceInv
  <1>2. /\ spool[m].claim = <<>> /\ q # <<>> /\ ~memory.completing
        /\ spool'[m].claim = q /\ spool'[m].queue = <<>>
        /\ UNCHANGED <<stored, kept, reported, dropped>> /\ ~memory'.completing
        /\ \A n \in Browsers \ {m} : spool'[n] = spool[n]
    BY DEF Claim, EvidenceInv, TypeOK
  <1>3. Elsewhere(m)
    BY <1>1, <1>2 DEF Elsewhere
  <1>4. q \in Seq(Item) /\ Len(q) \in Nat \ {0} /\ 1 \in DOMAIN q
    BY <1>1, <1>2, EmptySeq, LenProperties DEF Shape
  <1>5. kept.claim.id < q[1].place /\ kept.claim.id \in Nat /\ q[1] \in Item
    BY <1>1, <1>4, ElementOfSeq DEF ClaimInOrder, Shape
  <1>6. NextIndex(m)' = 0
    BY <1>2, <1>5 DEF NextIndex, Resumes, ClaimId, Item
  <1>7. Unclaimed(m)' = q
    <2>1. SubSeq(q, 1, Len(q)) = q
      BY <1>4, SubSeqFull
    <2> QED BY <1>2, <1>6, <2>1 DEF Unclaimed
  <1>8. Rest(m)' = q /\ Rest(m) = q
    BY <1>2, <1>4, <1>7, ConcatEmptySeq DEF Rest, Unclaimed
  <1>9. Sent' = Sent
    BY <1>2 DEF Sent, Unsent
  <1>10. (\A n \in Browsers \ {m} : ClaimInOrder(n)' /\ Accounted(n)') /\ Accounted(m)'
    BY <1>1, <1>3, <1>8, <1>9, MovesAlong
  <1>11. ClaimInOrder(m)'
    BY <1>1, <1>2, <1>4, <1>6 DEF ClaimInOrder
  <1> QED BY <1>10, <1>11

LEMMA AcknowledgeStep ==
  ASSUME EvidenceInv, NEW m \in Browsers, Acknowledge(m)
  PROVE  \A n \in Browsers : ClaimInOrder(n)' /\ Accounted(n)'
  <1>1. /\ device.machine = m /\ TypeOK' /\ SendsNext' /\ Shape /\ device' = device
        /\ ClaimInOrder(m)
    BY MonitoredDevice, ClaimTypes, ShapesNow, EnrollmentSame, StepsKeep DEF Acknowledge, Steps, EvidenceInv
  <1>2. /\ NextIndex(m) = Len(spool[m].claim)
        /\ spool'[m].claim = <<>> /\ spool'[m].queue = spool[m].queue
        /\ UNCHANGED <<stored, kept, reported, dropped>>
        /\ \A n \in Browsers \ {m} : spool'[n] = spool[n]
    BY DEF Acknowledge, EvidenceInv, TypeOK
  <1>3. Elsewhere(m)
    BY <1>1, <1>2 DEF Elsewhere
  <1>4. Unclaimed(m) = <<>> /\ Unclaimed(m)' = <<>>
    <2>1. Len(spool[m].claim) \in Int /\ Len(spool[m].claim) + 1 \in Int
          /\ Len(spool[m].claim) < Len(spool[m].claim) + 1
      BY <1>1 DEF Shape
    <2>2. SubSeq(spool[m].claim, Len(spool[m].claim) + 1, Len(spool[m].claim)) = <<>>
      BY <2>1, SubSeqEmpty
    <2> QED BY <1>2, <2>2 DEF Unclaimed
  <1>5. Rest(m)' = Rest(m) /\ Sent' = Sent
    BY <1>2, <1>4 DEF Rest, Sent, Unsent
  <1>6. (\A n \in Browsers \ {m} : ClaimInOrder(n)' /\ Accounted(n)') /\ Accounted(m)'
    BY <1>1, <1>3, <1>5, MovesAlong
  <1>7. ClaimInOrder(m)'
    BY <1>1, <1>2 DEF ClaimInOrder
  <1> QED BY <1>6, <1>7

LEMMA CompleteStep ==
  ASSUME EvidenceInv, NEW m \in Browsers, CompleteBrowserClaim(m)
  PROVE  \A n \in Browsers : ClaimInOrder(n)' /\ Accounted(n)'
  <1>1. /\ device.machine = m /\ TypeOK' /\ SendsNext' /\ Shape /\ device' = device
        /\ ClaimInOrder(m)
    BY MonitoredDevice, ClaimTypes, ShapesNow, EnrollmentSame, StepsKeep
       DEF CompleteBrowserClaim, Steps, EvidenceInv
  <1>2. /\ spool[m].claim = <<>>
        /\ kept'.pending = kept.pending /\ kept'.claim.id = 0
        /\ UNCHANGED <<stored, spool, reported, dropped>>
    BY <1>1 DEF CompleteBrowserClaim, ClaimInOrder, EvidenceInv, TypeOK, NoClaim
  <1>3. Elsewhere(m)
    BY <1>1, <1>2 DEF Elsewhere
  <1>4. Rest(m)' = Rest(m) /\ Sent' = Sent
    BY <1>2 DEF Rest, Unclaimed, Sent, Unsent
  <1>5. (\A n \in Browsers \ {m} : ClaimInOrder(n)' /\ Accounted(n)') /\ Accounted(m)'
    BY <1>1, <1>3, <1>4, MovesAlong
  <1>6. ClaimInOrder(m)'
    <2>1. \A k \in DOMAIN spool[m].queue : spool[m].queue[k].place \in Nat \ {0}
      <3> SUFFICES ASSUME NEW k \in DOMAIN spool[m].queue PROVE spool[m].queue[k].place \in Nat \ {0}
        OBVIOUS
      <3>1. spool[m].queue[k] \in Item
        BY <1>1, LenProperties, ElementOfSeq DEF Shape
      <3> QED BY <3>1, BrowserAssumption DEF Item
    <2>2. Len(reported[m]) \in Nat
      BY LenProperties DEF EvidenceInv, TypeOK
    <2> QED BY <1>1, <1>2, <2>1, <2>2 DEF ClaimInOrder
  <1> QED BY <1>5, <1>6

LEMMA SendStep ==
  ASSUME EvidenceInv, NEW m \in Browsers, NEW answered \in BOOLEAN, Send(m, answered)
  PROVE  \A n \in Browsers : ClaimInOrder(n)' /\ Accounted(n)'
  <1> DEFINE p == kept.pending
             e == stored.events
  <1>1. /\ device.machine = m /\ TypeOK' /\ SendsNext' /\ Shape /\ device' = device
        /\ ClaimInOrder(m)
    BY MonitoredDevice, SendTypes, ShapesNow, EnrollmentSame, StepsKeep DEF Send, Steps, EvidenceInv
  <1>2. /\ p # <<>> /\ p \in Seq(Event) /\ e \in Seq(Event)
        /\ kept'.claim = kept.claim
        /\ UNCHANGED <<reported, dropped, spool, memory>>
    BY <1>1 DEF Send, Shape, EvidenceInv, TypeOK
  <1>3. Elsewhere(m)
    BY <1>1, <1>2 DEF Elsewhere
  <1>4. Unsent' = Tail(p)
    BY DEF Send, Unsent, EvidenceInv, TypeOK
  <1>5. p = <<Head(p)>> \o Tail(p) /\ Head(p) \in Event /\ Tail(p) \in Seq(Event)
    BY <1>2, HeadAndTail
  <1>6. Sent' = Sent
    <2>1. CASE stored.next
      BY <1>4, <2>1 DEF Send, Sent, Unsent
    <2>2. CASE ~stored.next
      <3>1. stored'.events = Append(e, Head(p)) /\ Unsent = p
        BY <2>2 DEF Send, Unsent
      <3>2. Append(e, Head(p)) = e \o <<Head(p)>>
        BY <1>2, <1>5, AppendIsConcat
      <3>3. <<Head(p)>> \in Seq(Event)
        BY <1>5
      <3>4. (e \o <<Head(p)>>) \o Tail(p) = e \o (<<Head(p)>> \o Tail(p))
        <4> DEFINE first == <<Head(p)>>
                   others == Tail(p)
        <4>1. e \in Seq(Event) /\ first \in Seq(Event) /\ others \in Seq(Event)
          BY <1>2, <1>5, <3>3
        <4> HIDE DEF e, first, others
        <4>2. (e \o first) \o others = e \o (first \o others)
          BY <4>1, ConcatAssociative
        <4> QED BY <4>2 DEF first, others
      <3> QED BY <1>4, <1>5, <3>1, <3>2, <3>4 DEF Sent
    <2> QED BY <2>1, <2>2
  <1>7. Rest(m)' = Rest(m) /\ NextIndex(m)' = NextIndex(m)
    BY <1>2 DEF Rest, Unclaimed, NextIndex, Resumes, ClaimId
  <1>8. (\A n \in Browsers \ {m} : ClaimInOrder(n)' /\ Accounted(n)') /\ Accounted(m)'
    BY <1>1, <1>3, <1>6, <1>7, MovesAlong
  <1>9. ClaimInOrder(m)'
    BY <1>1, <1>2, <1>7 DEF ClaimInOrder
  <1> QED BY <1>8, <1>9

\* What is kept goes to the end of the event chain.
LEMMA SentGrows ==
  ASSUME EvidenceInv, NEW e \in Event, kept'.pending = Append(kept.pending, e), stored' = stored
  PROVE  Sent' = Sent \o <<e>>
  <1>1. kept.pending \in Seq(Event) /\ stored.events \in Seq(Event) /\ Unsent \in Seq(Event)
    BY ShapesNow DEF Shape
  <1>2. Unsent' = Append(Unsent, e)
    <2>1. CASE stored.next
      <3>1. kept.pending # <<>>
        BY <2>1 DEF EvidenceInv
      <3>2. Tail(Append(kept.pending, e)) = Append(Tail(kept.pending), e)
        BY <1>1, <3>1, HeadTailAppend
      <3> QED BY <2>1, <3>2 DEF Unsent
    <2>2. CASE ~stored.next
      BY <2>2 DEF Unsent
    <2> QED BY <2>1, <2>2
  <1>3. Append(Unsent, e) = Unsent \o <<e>>
    BY <1>1, AppendIsConcat
  <1> DEFINE one == <<e>>
             ev == stored.events
  <1>4. one \in Seq(Event) /\ ev \in Seq(Event)
    BY <1>1
  <1> HIDE DEF one, ev
  <1>5. (ev \o Unsent) \o one = ev \o (Unsent \o one)
    BY <1>1, <1>4, EventParts
  <1> QED BY <1>2, <1>3, <1>5 DEF Sent, one, ev

LEMMA MoveStep ==
  ASSUME EvidenceInv, NEW m \in Browsers, Move(m)
  PROVE  \A n \in Browsers : ClaimInOrder(n)' /\ Accounted(n)'
  <1> DEFINE claim == spool[m].claim
             q == spool[m].queue
             k == NextIndex(m) + 1
             e == claim[k]
  <1>1. /\ device.machine = m /\ TypeOK' /\ SendsNext' /\ Shape /\ device' = device
        /\ ClaimInOrder(m) /\ Accounted(m)
    BY MonitoredDevice, MoveTypes, ShapesNow, EnrollmentSame, StepsKeep DEF Move, Steps, EvidenceInv
  <1>2. /\ claim # <<>> /\ NextIndex(m) < Len(claim) /\ ~memory.completing
        /\ kept'.pending = Append(kept.pending, e) /\ kept'.claim.id = ClaimId(m) /\ kept'.claim.next = k
        /\ UNCHANGED <<stored, spool, reported, dropped, memory>>
    BY DEF Move, EvidenceInv, TypeOK
  <1>3. Elsewhere(m)
    BY <1>1, <1>2 DEF Elsewhere
  <1>4. /\ claim \in Seq(Item) /\ q \in Seq(Item) /\ Len(claim) \in Nat /\ NextIndex(m) \in Nat
        /\ stored.events \in Seq(Event) /\ kept.pending \in Seq(Event) /\ Unsent \in Seq(Event)
        /\ Sent \in Seq(Event) /\ Rest(m) \in Seq(Event)
    BY <1>1 DEF Shape
  <1>5. k \in 1..Len(claim) /\ e \in Item /\ e \in Event /\ claim[1] \in Item
    BY <1>2, NextItem, ItemsAreEvents
  <1>6. NextIndex(m)' = k
    BY <1>2 DEF NextIndex, Resumes, ClaimId
  <1>7. Unclaimed(m) = SubSeq(claim, k, Len(claim)) /\ Unclaimed(m)' = SubSeq(claim, k + 1, Len(claim))
    BY <1>2, <1>6 DEF Unclaimed
  <1>8. Unclaimed(m) = <<e>> \o Unclaimed(m)'
    <2>1. Len(claim) \in k..Len(claim)
      BY <1>4, <1>5
    <2>2. SubSeq(claim, k, Len(claim)) = <<claim[k]>> \o SubSeq(claim, k + 1, Len(claim))
      BY <1>4, <1>5, <2>1, SubSeqRecursiveFirst
    <2> QED BY <1>7, <2>2
  <1>9. Sent' = Sent \o <<e>>
    BY <1>2, <1>5, SentGrows
  <1>10. Rest(m) = <<e>> \o Rest(m)'
    <2> DEFINE one == <<e>>
               more == Unclaimed(m)'
    <2>1. one \in Seq(Item)
      BY <1>5
    <2>2. more \in Seq(Item)
      BY <1>1, ShapesNext DEF Shape
    <2>3. q' = q
      BY <1>2
    <2>4. (one \o more) \o q = one \o (more \o q)
      <3>1. q \in Seq(Item)
        BY <1>4
      <3> HIDE DEF one, more, q
      <3> QED BY <2>1, <2>2, <3>1, ItemParts
    <2> QED BY <1>8, <2>3, <2>4 DEF Rest
  <1>11. Sent' \o Rest(m)' = Sent \o Rest(m)
    <2> DEFINE one == <<e>>
               more == Rest(m)'
    <2>1. one \in Seq(Event)
      BY <1>5
    <2>2. more \in Seq(Event)
      BY <1>1, ShapesNext DEF Shape
    <2>3. (Sent \o one) \o more = Sent \o (one \o more)
      <3>1. Sent \in Seq(Event)
        BY <1>4
      <3> HIDE DEF one, more
      <3> QED BY <2>1, <2>2, <3>1, EventParts
    <2> QED BY <1>9, <1>10, <2>3
  <1>12. (\A n \in Browsers \ {m} : ClaimInOrder(n)' /\ Accounted(n)') /\ Accounted(m)'
    BY <1>1, <1>3, <1>11, MovesAlong
  <1>13. /\ ClaimId(m) \in 0..Len(reported[m])
         /\ \A j \in DOMAIN q : ClaimId(m) < q[j].place
    <2>1. CASE Resumes(m)
      BY <1>1, <2>1 DEF Resumes, ClaimInOrder
    <2>2. CASE ~Resumes(m)
      <3>1. k = 1
        BY <2>2 DEF NextIndex
      <3>2. Unclaimed(m) = claim
        BY <1>4, <1>7, <3>1, SubSeqFull
      <3> DEFINE t == Sent \o (claim \o q)
      <3>3. Trail(m) = t
        BY <1>1, <3>2 DEF Shape, Rest
      <3>4. Sent \in Seq(Event) /\ claim \in Seq(Event) /\ q \in Seq(Event)
        BY <1>4, ItemsAreEvents, SeqMonotonic
      <3>5. /\ \A i \in 1..Len(claim) : Len(Sent) + i \in DOMAIN t /\ t[Len(Sent) + i] = claim[i]
            /\ \A j \in 1..Len(q) : /\ Len(Sent) + (Len(claim) + j) \in DOMAIN t
                                   /\ t[Len(Sent) + (Len(claim) + j)] = q[j]
        <4> DEFINE a == Sent
        <4>1. a \in Seq(Event)
          BY <3>4
        <4>2. claim \in Seq(Event)
          BY <3>4
        <4>3. q \in Seq(Event)
          BY <3>4
        <4> HIDE DEF a, claim, q
        <4>4. /\ \A i \in 1..Len(claim) : /\ Len(a) + i \in DOMAIN (a \o (claim \o q))
                                        /\ (a \o (claim \o q))[Len(a) + i] = claim[i]
              /\ \A j \in 1..Len(q) : /\ Len(a) + (Len(claim) + j) \in DOMAIN (a \o (claim \o q))
                                     /\ (a \o (claim \o q))[Len(a) + (Len(claim) + j)] = q[j]
          BY <4>1, <4>2, <4>3, EventPlaces
        <4> QED BY <4>4 DEF a
      <3> HIDE DEF t
      <3>6. Len(Sent) \in Nat /\ Len(claim) \in Nat \ {0} /\ DOMAIN q = 1..Len(q) /\ Len(q) \in Nat
        <4>1. Len(claim) \in Nat \ {0}
          BY <1>4, <1>5
        <4> QED BY <3>4, <4>1, LenProperties
      <3>9. Len(Sent) + 1 \in Items(t) /\ t[Len(Sent) + 1] = claim[1]
        BY <1>5, <3>5, <3>6, ItemsAreEvents DEF Items
      <3>10. ASSUME NEW j \in DOMAIN q
             PROVE  \E i \in Items(t) : t[i] = q[j] /\ Len(Sent) + 1 < i
        <4>1. q[j] \in Item
          BY <1>4, <3>6, <3>10, ElementOfSeq
        <4>2. Len(Sent) + 1 < Len(Sent) + (Len(claim) + j)
          <5>1. j \in 1..Len(q)
            BY <3>6
          <5> HIDE DEF claim, q
          <5> QED BY <3>6, <5>1
        <4> QED BY <3>5, <3>6, <4>1, <4>2, ItemsAreEvents DEF Items
      <3>11. Ordered(t) /\ Places(t) \subseteq DOMAIN reported[m]
        BY <1>1, <3>3 DEF Accounted, AllIn
      <3>12. claim[1].place \in DOMAIN reported[m]
        BY <3>9, <3>11 DEF Places
      <3>13. reported[m] \in Seq(Kinds)
        BY DEF EvidenceInv, TypeOK
      <3>14. claim[1].place \in 0..Len(reported[m])
        BY <3>12, <3>13, LenProperties
      <3>15. \A j \in DOMAIN q : claim[1].place < q[j].place
        BY <3>9, <3>10, <3>11 DEF Ordered
      <3> QED BY <3>14, <3>15 DEF ClaimId
    <2> QED BY <2>1, <2>2
  <1>14. ClaimInOrder(m)'
    BY <1>1, <1>2, <1>5, <1>6, <1>13 DEF ClaimInOrder
  <1> QED BY <1>12, <1>14

-----------------------------------------------------------------------------
(* The chain and the spool grow *)

\* A report of a missing browser is no item.
LEMMA ExcuseIsNoItem ==
  ASSUME NEW t \in Seq(Event), NEW log, NEW gone, AllIn(t, log, gone)
  PROVE  AllIn(t \o <<Unavailable>>, log, gone)
  <1> DEFINE one == <<Unavailable>>
             u == t \o one
  <1>1. one \in Seq(Event) /\ Len(one) = 1 /\ one[1] = Unavailable
    BY ItemsAreEvents
  <1>2. DOMAIN t = 1..Len(t) /\ Len(t) \in Nat
    BY LenProperties
  <1> HIDE DEF one
  <1>3. /\ u \in Seq(Event) /\ Len(u) = Len(t) + 1
        /\ \A i \in 1..Len(t) + 1 : u[i] = IF i <= Len(t) THEN t[i] ELSE one[i - Len(t)]
    <2>1. /\ u \in Seq(Event) /\ Len(u) = Len(t) + Len(one)
          /\ \A i \in 1..Len(t) + Len(one) : u[i] = IF i <= Len(t) THEN t[i] ELSE one[i - Len(t)]
      BY <1>1, EventConcat, Zenon
    <2> QED BY <1>1, <2>1
  <1>4. DOMAIN u = 1..Len(t) + 1
    BY <1>3, LenProperties
  <1> HIDE DEF u
  <1>5. \A i \in DOMAIN t : u[i] = t[i] /\ i \in DOMAIN u
    BY <1>2, <1>3, <1>4
  <1>6. \A i \in DOMAIN u : i \in DOMAIN t \/ u[i] = Unavailable
    BY <1>1, <1>2, <1>3, <1>4
  <1>7. Items(u) = Items(t) /\ \A i \in Items(t) : u[i] = t[i]
    BY <1>5, <1>6 DEF Items
  <1>8. AllIn(u, log, gone)
    BY <1>7 DEF AllIn, Ordered, Places
  <1> QED BY <1>8 DEF u, one

\* The spool takes in a report behind everything else.
LEMMA ReportIsAccounted ==
  ASSUME NEW t \in Seq(Event), NEW log \in Seq(Kinds), NEW gone, AllIn(t, log, gone),
         NEW report \in Seq(Kinds), NEW new \in Seq(Item), Len(new) = Len(report),
         \A k \in 1..Len(new) : new[k].place = Len(log) + k /\ new[k].kind = report[k]
  PROVE  AllIn(t \o new, log \o report, gone)
  <1> DEFINE u == t \o new
             more == log \o report
  <1>1. new \in Seq(Event) /\ \A k \in 1..Len(new) : new[k] # Unavailable
    BY ItemsAreEvents, SeqMonotonic, ElementOfSeq
  <1>2. /\ DOMAIN t = 1..Len(t) /\ Len(t) \in Nat
        /\ DOMAIN log = 1..Len(log) /\ Len(log) \in Nat /\ Len(new) \in Nat
    BY LenProperties
  <1>3. /\ u \in Seq(Event) /\ Len(u) = Len(t) + Len(new)
        /\ \A i \in 1..Len(t) + Len(new) : u[i] = IF i <= Len(t) THEN t[i] ELSE new[i - Len(t)]
    BY <1>1, EventConcat, Zenon
  <1>4. /\ more \in Seq(Kinds) /\ Len(more) = Len(log) + Len(new)
        /\ \A i \in 1..Len(log) + Len(new) : more[i] = IF i <= Len(log) THEN log[i] ELSE report[i - Len(log)]
    BY ConcatProperties
  <1>5. DOMAIN u = 1..Len(t) + Len(new) /\ DOMAIN more = 1..Len(log) + Len(new)
    BY <1>3, <1>4, LenProperties
  <1> HIDE DEF u, more
  <1>6. \A i \in Items(t) : i \in Items(u) /\ u[i] = t[i] /\ t[i].place \in 1..Len(log)
    BY <1>2, <1>3, <1>5 DEF Items, AllIn, Places
  <1>7. ASSUME NEW k \in 1..Len(new)
        PROVE  /\ Len(t) + k \in Items(u) /\ u[Len(t) + k].place = Len(log) + k
               /\ u[Len(t) + k].kind = more[Len(log) + k]
    <2>1. /\ Len(t) + k \in 1..Len(t) + Len(new) /\ ~(Len(t) + k <= Len(t)) /\ (Len(t) + k) - Len(t) = k
          /\ Len(log) + k \in 1..Len(log) + Len(new) /\ ~(Len(log) + k <= Len(log))
          /\ (Len(log) + k) - Len(log) = k
      BY <1>2
    <2>2. u[Len(t) + k] = new[k] /\ more[Len(log) + k] = report[k] /\ Len(t) + k \in DOMAIN u
      BY <1>3, <1>4, <1>5, <2>1
    <2> QED BY <1>1, <2>2 DEF Items
  <1>8. ASSUME NEW i \in Items(u)
        PROVE  i \in Items(t) \/ \E k \in 1..Len(new) : i = Len(t) + k
    <2>1. i \in 1..Len(t) + Len(new) /\ u[i] # Unavailable
      BY <1>5 DEF Items
    <2>2. CASE i <= Len(t)
      BY <1>2, <1>3, <2>1, <2>2 DEF Items
    <2>3. CASE ~(i <= Len(t))
      <3>1. i - Len(t) \in 1..Len(new) /\ i = Len(t) + (i - Len(t))
        BY <1>2, <2>1, <2>3
      <3> QED BY <3>1
    <2> QED BY <2>2, <2>3
  <1>9. Ordered(u)
    <2> SUFFICES ASSUME NEW i \in Items(u), NEW j \in Items(u), i < j
                 PROVE  u[i].place < u[j].place
      BY DEF Ordered
    <2>1. CASE i \in Items(t) /\ j \in Items(t)
      BY <1>6, <2>1 DEF AllIn, Ordered
    <2>2. ASSUME i \in Items(t), NEW k \in 1..Len(new), j = Len(t) + k
          PROVE  u[i].place < u[j].place
      <3>1. u[i].place \in 1..Len(log)
        BY <1>6, <2>2
      <3>2. u[j].place = Len(log) + k
        BY <1>7, <2>2
      <3> QED BY <1>2, <3>1, <3>2
    <2>3. ASSUME NEW k \in 1..Len(new), NEW l \in 1..Len(new), i = Len(t) + k, j = Len(t) + l
          PROVE  u[i].place < u[j].place
      BY <1>2, <1>7, <2>3
    <2>4. ASSUME NEW k \in 1..Len(new), i = Len(t) + k, j \in Items(t)
          PROVE  FALSE
      BY <1>2, <2>4 DEF Items
    <2> QED BY <1>8, <2>1, <2>2, <2>3, <2>4
  <1>10. Places(u) = DOMAIN more \ gone
    <2>1. ASSUME NEW i \in Items(u)
          PROVE  u[i].place \in DOMAIN more \ gone
      <3>1. CASE i \in Items(t)
        BY <1>2, <1>5, <1>6, <3>1 DEF AllIn, Places
      <3>2. ASSUME NEW k \in 1..Len(new), i = Len(t) + k
            PROVE  u[i].place \in DOMAIN more \ gone
        BY <1>2, <1>5, <1>7, <3>2 DEF AllIn
      <3> QED BY <1>8, <3>1, <3>2
    <2>2. ASSUME NEW p \in DOMAIN more \ gone
          PROVE  p \in Places(u)
      <3>1. CASE p \in DOMAIN log
        <4>1. PICK i \in Items(t) : t[i].place = p
          BY <3>1 DEF AllIn, Places
        <4> QED BY <1>6, <4>1 DEF Places
      <3>2. CASE p \notin DOMAIN log
        <4>1. p - Len(log) \in 1..Len(new) /\ Len(log) + (p - Len(log)) = p
          BY <1>2, <1>5, <3>2
        <4> QED BY <1>7, <4>1 DEF Places
      <3> QED BY <3>1, <3>2
    <2> QED BY <2>1, <2>2 DEF Places
  <1>11. \A i \in Items(u) : u[i].kind = more[u[i].place]
    <2> SUFFICES ASSUME NEW i \in Items(u) PROVE u[i].kind = more[u[i].place]
      OBVIOUS
    <2>1. CASE i \in Items(t)
      <3>1. more[t[i].place] = log[t[i].place]
        BY <1>2, <1>4, <1>6, <2>1
      <3> QED BY <1>6, <2>1, <3>1 DEF AllIn
    <2>2. ASSUME NEW k \in 1..Len(new), i = Len(t) + k
          PROVE  u[i].kind = more[u[i].place]
      BY <1>7, <2>2
    <2> QED BY <1>8, <2>1, <2>2
  <1>12. gone \subseteq DOMAIN more
    BY <1>2, <1>5 DEF AllIn
  <1> QED BY <1>9, <1>10, <1>11, <1>12 DEF AllIn, u, more

\* The oldest items of a queue that is too long are dropped.
LEMMA DropIsAccounted ==
  ASSUME NEW p \in Seq(Event), NEW a \in Seq(Item), NEW log \in Seq(Kinds), NEW gone, AllIn(p \o a, log, gone),
         NEW x \in 0..Len(a)
  PROVE  AllIn(p \o SubSeq(a, x + 1, Len(a)), log, gone \union {a[k].place : k \in 1..x})
  <1> DEFINE t == p \o a
             rest == SubSeq(a, x + 1, Len(a))
             u == p \o rest
             lost == {a[k].place : k \in 1..x}
             n == Len(p)
             l == Len(a)
  <1>1. n \in Nat /\ l \in Nat /\ x \in Nat /\ x <= l /\ DOMAIN a = 1..l
    BY LenProperties
  <1>2. a \in Seq(Event) /\ \A k \in 1..l : a[k] \in Item
    BY ItemsAreEvents, SeqMonotonic, ElementOfSeq
  <1>3. rest \in Seq(Event) /\ Len(rest) = l - x /\ \A k \in 1..l - x : rest[k] = a[x + k]
    <2>1. x + 1 \in Int /\ l \in Int /\ \A i \in x + 1 .. l : a[i] \in Event
      BY <1>1, <1>2, ItemsAreEvents
    <2>2. /\ rest \in Seq(Event) /\ Len(rest) = IF x + 1 <= l THEN l - (x + 1) + 1 ELSE 0
          /\ \A k \in 1..l - (x + 1) + 1 : rest[k] = a[(x + 1) + k - 1]
      BY <2>1, SubSeqProperties
    <2> HIDE DEF rest, l
    <2>3. Len(rest) = l - x /\ l - (x + 1) + 1 = l - x /\ \A k \in 1..l - x : (x + 1) + k - 1 = x + k
      BY <1>1, <2>2
    <2> QED BY <2>2, <2>3
  <1> HIDE DEF rest
  <1>4. /\ t \in Seq(Event) /\ Len(t) = n + l
        /\ \A i \in 1..n + l : t[i] = IF i <= n THEN p[i] ELSE a[i - n]
    BY <1>2, EventConcat
  <1>5. /\ u \in Seq(Event) /\ Len(u) = n + (l - x)
        /\ \A i \in 1..n + (l - x) : u[i] = IF i <= n THEN p[i] ELSE rest[i - n]
    BY <1>3, EventConcat
  <1>6. DOMAIN t = 1..n + l /\ DOMAIN u = 1..n + (l - x)
    BY <1>4, <1>5, LenProperties
  <1>7. AllIn(t, log, gone)
    OBVIOUS
  <1> HIDE DEF t, u, n, l
  \* Where an item that is left was before, and where it is after.
  <1> DEFINE before(i) == IF i <= n THEN i ELSE i + x
             after(j) == IF j <= n THEN j ELSE j - x
  <1>8. ASSUME NEW i \in DOMAIN u
        PROVE  before(i) \in DOMAIN t /\ t[before(i)] = u[i] /\ (i <= n \/ n + x < before(i))
    <2>0. i \in 1..n + (l - x) /\ i \in 1..n + l
      BY <1>1, <1>6
    <2>1. CASE i <= n
      <3>1. before(i) = i /\ t[i] = p[i] /\ u[i] = p[i]
        BY <1>4, <1>5, <2>0, <2>1
      <3> QED BY <1>6, <2>0, <2>1, <3>1
    <2>2. CASE ~(i <= n)
      <3>1. /\ i - n \in 1..l - x /\ i + x \in 1..n + l /\ ~(i + x <= n) /\ (i + x) - n = x + (i - n)
            /\ n + x < i + x
        <4>1. i \in Int /\ n < i /\ i <= n + (l - x)
          BY <1>1, <2>0, <2>2
        <4>2. i - n \in 1..l - x /\ (i + x) - n = x + (i - n)
          BY <1>1, <4>1
        <4>3. i + x \in 1..n + l /\ ~(i + x <= n) /\ n + x < i + x
          BY <1>1, <4>1
        <4> QED BY <4>2, <4>3
      <3>2. u[i] = rest[i - n] /\ t[i + x] = a[x + (i - n)]
        BY <1>4, <1>5, <2>0, <2>2, <3>1
      <3> QED BY <1>3, <1>6, <2>2, <3>1, <3>2
    <2> QED BY <2>1, <2>2
  <1>9. ASSUME NEW j \in DOMAIN t, j <= n \/ n + x < j
        PROVE  after(j) \in DOMAIN u /\ u[after(j)] = t[j]
    <2>1. after(j) \in DOMAIN u /\ before(after(j)) = j
      BY <1>1, <1>6, <1>9
    <2> QED BY <1>8, <2>1
  <1>10. ASSUME NEW k \in 1..x
         PROVE  n + k \in Items(t) /\ t[n + k] = a[k] /\ n < n + k /\ n + k <= n + x
    <2>1. n + k \in 1..n + l /\ ~(n + k <= n) /\ (n + k) - n = k /\ k \in 1..l /\ n + k <= n + x
      BY <1>1
    <2>2. t[n + k] = a[k] /\ a[k] \in Item
      BY <1>2, <1>4, <2>1
    <2> QED BY <1>1, <1>6, <2>1, <2>2, ItemsAreEvents DEF Items
  <1>11. \A i, j \in DOMAIN u : i < j => before(i) < before(j)
    BY <1>1, <1>6
  <1>12. \A i \in Items(u) : before(i) \in Items(t) /\ t[before(i)] = u[i] /\ (i <= n \/ n + x < before(i))
    BY <1>8 DEF Items
  <1>13. Items(u) \subseteq DOMAIN u /\ Items(t) \subseteq DOMAIN t /\ DOMAIN t \subseteq Int
    BY <1>6 DEF Items
  <1> HIDE DEF before, after
  <1>14. Ordered(u)
    BY <1>7, <1>11, <1>12, <1>13 DEF AllIn, Ordered
  <1>15. ASSUME NEW k \in 1..x, NEW i \in Items(u)
         PROVE  u[i].place # a[k].place
    <2>1. before(i) \in Items(t) /\ t[before(i)] = u[i] /\ (i <= n \/ n + x < before(i))
      BY <1>12
    <2>2. i <= n => before(i) = i
      BY DEF before
    <2>3. n + k \in Items(t) /\ t[n + k] = a[k] /\ n < n + k /\ n + k <= n + x
      BY <1>10
    <2>4. before(i) < n + k \/ n + k < before(i)
      BY <1>1, <1>13, <2>1, <2>2, <2>3
    <2>5. \A j \in Items(t) : t[j].place \in DOMAIN log
      BY <1>7 DEF AllIn, Places
    <2>6. t[before(i)].place < t[n + k].place \/ t[n + k].place < t[before(i)].place
      BY <1>7, <2>1, <2>3, <2>4 DEF AllIn, Ordered
    <2>7. t[before(i)].place \in Int /\ t[n + k].place \in Int
      BY <2>1, <2>3, <2>5, LenProperties
    <2> QED BY <2>1, <2>3, <2>6, <2>7
  <1>16. Places(u) = DOMAIN log \ (gone \union lost)
    <2>1. ASSUME NEW i \in Items(u)
          PROVE  u[i].place \in DOMAIN log \ (gone \union lost)
      BY <1>7, <1>12, <1>15 DEF AllIn, Places
    <2>2. ASSUME NEW q \in DOMAIN log \ (gone \union lost)
          PROVE  q \in Places(u)
      <3>1. PICK j \in Items(t) : t[j].place = q
        BY <1>7 DEF AllIn, Places
      <3>2. j <= n \/ n + x < j
        <4> SUFFICES ASSUME n < j, j <= n + x PROVE FALSE
          BY <1>1, <1>13
        <4>1. j - n \in 1..x /\ n + (j - n) = j
          BY <1>1, <1>13
        <4> QED BY <1>10, <3>1, <4>1
      <3>3. after(j) \in Items(u) /\ u[after(j)] = t[j]
        BY <1>9, <3>2 DEF Items
      <3> QED BY <3>1, <3>3 DEF Places
    <2> QED BY <2>1, <2>2 DEF Places
  <1>17. \A i \in Items(u) : u[i].kind = log[u[i].place]
    BY <1>7, <1>12 DEF AllIn
  <1>18. gone \union lost \subseteq DOMAIN log
    BY <1>7, <1>10 DEF AllIn, Places
  <1>19. AllIn(u, log, gone \union lost)
    BY <1>14, <1>16, <1>17, <1>18 DEF AllIn
  <1> QED BY <1>19 DEF u, rest

LEMMA ExcuseStep ==
  ASSUME EvidenceInv, NEW m \in Browsers, ReportUnavailable(m)
  PROVE  \A n \in Browsers : ClaimInOrder(n)' /\ Accounted(n)'
  <1>1. /\ device.machine = m /\ TypeOK' /\ SendsNext' /\ Shape /\ device' = device
        /\ ClaimInOrder(m) /\ Accounted(m)
    BY MonitoredDevice, ExcuseTypes, ShapesNow, EnrollmentSame, StepsKeep
       DEF ReportUnavailable, Steps, EvidenceInv
  <1>2. /\ spool[m].claim = <<>> /\ spool[m].queue = <<>>
        /\ kept'.pending = Append(kept.pending, Unavailable) /\ kept'.claim = kept.claim
        /\ UNCHANGED <<stored, spool, reported, dropped>>
    BY DEF ReportUnavailable, EvidenceInv, TypeOK
  <1>3. \A n \in Browsers \ {m} : ClaimInOrder(n)' /\ Accounted(n)'
    BY <1>1, <1>2, ElsewhereSame
  <1>4. Sent' = Sent \o <<Unavailable>>
    BY <1>2, SentGrows, ItemsAreEvents
  <1>5. Rest(m) = <<>> /\ Rest(m)' = <<>>
    BY <1>2 DEF Rest, Unclaimed
  <1>6. Trail(m) = Sent /\ Trail(m)' = Sent' /\ Sent \in Seq(Event)
    <2>1. Trail(m) = Sent \o <<>> /\ Sent \in Seq(Event)
      BY <1>1, <1>5 DEF Shape
    <2>2. Trail(m)' = Sent' \o <<>> /\ Sent' \in Seq(Event)
      BY <1>1, <1>5, ShapesNext DEF Shape
    <2> QED BY <2>1, <2>2, ConcatEmptySeq
  <1>7. AllIn(Sent \o <<Unavailable>>, reported[m], dropped[m])
    BY <1>1, <1>6, ExcuseIsNoItem DEF Accounted
  <1>8. Accounted(m)'
    <2> DEFINE u == Trail(m)'
    <2>1. AllIn(u, reported'[m], dropped'[m])
      BY <1>2, <1>4, <1>6, <1>7
    <2> HIDE DEF u
    <2> QED BY <2>1 DEF u, Accounted, AllIn, Ordered, Places, Items
  <1>9. ClaimInOrder(m)'
    BY <1>1, <1>2 DEF ClaimInOrder
  <1> QED BY <1>3, <1>8, <1>9

-----------------------------------------------------------------------------
(* The spool takes in a report *)

LEMMA ReportsAreKinds ==
  ASSUME NEW o \in Observations
  PROVE  <<Health(o.proved, o.packVerified)>> \o Matches(o.packVerified, o.extensions) \in Seq(Kinds)
  <1>1. o.packVerified \in BOOLEAN /\ o.extensions \in Nat
    BY BrowserAssumption
  <1>2. <<Health(o.proved, o.packVerified)>> \in Seq(Kinds)
    BY DEF Health, Kinds
  <1>3. [k \in 1..o.extensions |-> "match"] \in Seq(Kinds)
    <2>1. "match" \in Kinds
      BY DEF Kinds
    <2> QED BY <1>1, <2>1
  <1>4. Matches(o.packVerified, o.extensions) \in Seq(Kinds)
    BY <1>3, EmptySeq DEF Matches
  <1> QED BY <1>2, <1>4, ConcatProperties

\* What a report does to the spool: which items are new, and how many go.
Takes(m, report, new, x) ==
    LET all == spool[m].queue \o new
    IN /\ Len(new) = Len(report) /\ x \in 0..Len(all)
       /\ \A k \in 1..Len(new) : new[k].place = Len(reported[m]) + k /\ new[k].kind = report[k]
       /\ reported' = [reported EXCEPT ![m] = reported[m] \o report]
       /\ dropped' = [dropped EXCEPT ![m] = dropped[m] \union {all[k].place : k \in 1..x}]
       /\ spool' = [spool EXCEPT ![m] = [queue |-> SubSeq(all, x + 1, Len(all)), claim |-> spool[m].claim]]
       /\ UNCHANGED <<enrollmentVars, kept, memory, stored>>

LEMMA ReportTakes ==
  ASSUME EvidenceInv, NEW m \in Browsers, Report(m)
  PROVE  \E report \in Seq(Kinds), new \in Seq(Item), x \in Nat : Takes(m, report, new, x)
  <1> DEFINE report(o) == <<Health(o.proved, o.packVerified)>> \o Matches(o.packVerified, o.extensions)
             new(o) == [k \in 1..Len(report(o)) |-> [place |-> Len(reported[m]) + k, kind |-> report(o)[k]]]
             all(o) == spool[m].queue \o new(o)
             excess(o) == IF Len(all(o)) > QueueLimit THEN Len(all(o)) - QueueLimit ELSE 0
  <1>1. PICK o \in Observations :
          /\ Len(reported[m]) + Len(report(o)) <= MaxItems
          /\ reported' = [reported EXCEPT ![m] = @ \o report(o)]
          /\ dropped' = [dropped EXCEPT ![m] = @ \union {all(o)[k].place : k \in 1..excess(o)}]
          /\ spool' = [spool EXCEPT ![m].queue = SubSeq(all(o), excess(o) + 1, Len(all(o)))]
          /\ UNCHANGED <<enrollmentVars, kept, memory, stored>>
    BY DEF Report
  <1>2. report(o) \in Seq(Kinds)
    BY ReportsAreKinds
  <1> HIDE DEF report
  <1>3. reported[m] \in Seq(Kinds) /\ spool[m].queue \in Seq(Item)
        /\ spool[m] = [queue |-> spool[m].queue, claim |-> spool[m].claim]
    BY DEF EvidenceInv, TypeOK
  <1>4. Len(reported[m]) \in Nat /\ Len(report(o)) \in Nat
    BY <1>2, <1>3, LenProperties
  <1>5. new(o) \in [1..Len(report(o)) -> Item]
    <2> SUFFICES ASSUME NEW k \in 1..Len(report(o))
                 PROVE  [place |-> Len(reported[m]) + k, kind |-> report(o)[k]] \in Item
      OBVIOUS
    <2>1. report(o)[k] \in Kinds
      BY <1>2, ElementOfSeq
    <2>2. Len(reported[m]) + k \in 1..MaxItems
      BY <1>1, <1>4, BrowserAssumption
    <2> QED BY <2>1, <2>2 DEF Item
  <1>6. new(o) \in Seq(Item) /\ Len(new(o)) = Len(report(o))
    <2> DEFINE f == new(o)
               n == Len(report(o))
    <2>1. f \in [1..n -> Item] /\ n \in Nat
      BY <1>4, <1>5
    <2> HIDE DEF f, n
    <2>2. f \in Seq(Item) /\ DOMAIN f = 1..n
      BY <2>1, SeqDef
    <2>3. Len(f) = n
      BY <2>1, <2>2
    <2> QED BY <2>2, <2>3 DEF f, n
  <1>7. \A k \in 1..Len(new(o)) : new(o)[k].place = Len(reported[m]) + k /\ new(o)[k].kind = report(o)[k]
    BY <1>6
  <1> HIDE DEF new
  <1>8. Len(all(o)) \in Nat
    BY <1>3, <1>6, ConcatProperties, LenProperties
  <1> HIDE DEF all
  <1>9. excess(o) \in 0..Len(all(o)) /\ excess(o) \in Nat
    BY <1>8, BrowserAssumption
  <1> HIDE DEF excess
  <1>10. spool' = [spool EXCEPT ![m] = [queue |-> SubSeq(all(o), excess(o) + 1, Len(all(o))),
                                       claim |-> spool[m].claim]]
    <2> DEFINE q == SubSeq(all(o), excess(o) + 1, Len(all(o)))
    <2>1. spool' = [spool EXCEPT ![m].queue = q]
      BY <1>1
    <2>2. spool \in [Browsers -> [queue : Seq(Item), claim : Seq(Item)]]
      BY DEF EvidenceInv, TypeOK
    <2> HIDE DEF q
    <2>3. [spool[m] EXCEPT !.queue = q] = [queue |-> q, claim |-> spool[m].claim]
      BY <2>2
    <2>4. spool' = [spool EXCEPT ![m] = [queue |-> q, claim |-> spool[m].claim]]
      BY <2>1, <2>2, <2>3
    <2> QED BY <2>4 DEF q
  <1>11. Takes(m, report(o), new(o), excess(o))
    BY <1>1, <1>6, <1>7, <1>9, <1>10 DEF Takes, all
  <1> QED BY <1>2, <1>6, <1>9, <1>11

LEMMA TakesTypes ==
  ASSUME EvidenceInv, NEW m \in Browsers, NEW report \in Seq(Kinds), NEW new \in Seq(Item), NEW x \in Nat,
         Takes(m, report, new, x)
  PROVE  TypeOK' /\ SendsNext'
  <1> DEFINE all == spool[m].queue \o new
             q == SubSeq(all, x + 1, Len(all))
             lost == {all[k].place : k \in 1..x}
  <1>1. EnrollmentTypeOK'
    BY EnrollmentSame DEF Takes
  <1>2. /\ reported \in [Browsers -> Seq(Kinds)] /\ dropped \in [Browsers -> SUBSET (1..MaxItems)]
        /\ spool \in [Browsers -> [queue : Seq(Item), claim : Seq(Item)]]
    BY DEF EvidenceInv, TypeOK
  <1>3. reported[m] \o report \in Seq(Kinds)
    BY <1>2, ConcatProperties
  <1>4. spool[m].queue \in Seq(Item) /\ spool[m].claim \in Seq(Item)
    BY <1>2
  <1>5. all \in Seq(Item)
    BY <1>4, ConcatProperties
  <1>6. x \in 0..Len(all)
    BY DEF Takes
  <1> HIDE DEF all
  <1>7. \A k \in 1..Len(all) : all[k] \in Item
    BY <1>5, ElementOfSeq
  <1>8. Len(all) \in Nat
    BY <1>5, LenProperties
  <1>9. q \in Seq(Item)
    <2>1. x + 1 \in Int /\ Len(all) \in Int /\ \A k \in x + 1 .. Len(all) : all[k] \in Item
      BY <1>7, <1>8
    <2> QED BY <2>1, SubSeqProperties
  <1>10. lost \in SUBSET (1..MaxItems)
    BY <1>6, <1>7, <1>8 DEF Item
  <1> HIDE DEF q, lost
  <1>11. /\ reported' = [reported EXCEPT ![m] = reported[m] \o report]
         /\ dropped' = [dropped EXCEPT ![m] = dropped[m] \union lost]
         /\ spool' = [spool EXCEPT ![m] = [queue |-> q, claim |-> spool[m].claim]]
         /\ UNCHANGED <<kept, memory, stored>>
    BY DEF Takes, all, q, lost
  <1>12. /\ reported' \in [Browsers -> Seq(Kinds)] /\ dropped' \in [Browsers -> SUBSET (1..MaxItems)]
         /\ spool' \in [Browsers -> [queue : Seq(Item), claim : Seq(Item)]]
    BY <1>2, <1>3, <1>4, <1>9, <1>10, <1>11
  <1> QED BY <1>1, <1>11, <1>12 DEF TypeOK, SendsNext, EvidenceInv

LEMMA ReportStep ==
  ASSUME EvidenceInv, NEW m \in Browsers, Report(m)
  PROVE  TypeOK' /\ SendsNext' /\ \A n \in Browsers : ClaimInOrder(n)' /\ Accounted(n)'
  <1>1. PICK report \in Seq(Kinds), new \in Seq(Item), x \in Nat : Takes(m, report, new, x)
    BY ReportTakes
  <1> DEFINE q == spool[m].queue
             all == q \o new
             left == SubSeq(all, x + 1, Len(all))
             log == reported[m]
             lost == {all[k].place : k \in 1..x}
             before == IF device.machine = m THEN Sent \o Unclaimed(m) ELSE Unclaimed(m)
  <1>2. /\ TypeOK' /\ SendsNext' /\ Shape /\ ClaimInOrder(m) /\ Accounted(m)
        /\ TypeOK /\ device' = device
    BY <1>1, TakesTypes, ShapesNow, EnrollmentSame DEF EvidenceInv, Takes
  <1>3. /\ reported'[m] = log \o report /\ dropped'[m] = dropped[m] \union lost
        /\ spool'[m].queue = left /\ spool'[m].claim = spool[m].claim
        /\ UNCHANGED <<kept, memory, stored>>
        /\ \A n \in Browsers \ {m} : /\ spool'[n] = spool[n] /\ reported'[n] = reported[n]
                                     /\ dropped'[n] = dropped[n]
    BY <1>1, <1>2 DEF Takes, TypeOK
  <1>4. /\ x \in 0..Len(all) /\ Len(new) = Len(report)
        /\ \A k \in 1..Len(new) : new[k].place = Len(log) + k /\ new[k].kind = report[k]
    BY <1>1 DEF Takes
  <1>5. /\ q \in Seq(Item) /\ q \in Seq(Event) /\ new \in Seq(Event) /\ log \in Seq(Kinds)
        /\ Unclaimed(m) \in Seq(Event) /\ Sent \in Seq(Event)
    BY <1>2, ItemsAreEvents, SeqMonotonic DEF Shape, TypeOK
  <1>6. all \in Seq(Item)
    BY <1>5, ConcatProperties
  <1>7. before \in Seq(Event)
    BY <1>5, EventConcat
  <1>8. left \in Seq(Event)
    <2>1. left \in Seq(Item)
      BY <1>2, <1>3, ShapesNext DEF Shape
    <2> QED BY <2>1, ItemsAreEvents, SeqMonotonic
  <1>9. Unclaimed(m)' = Unclaimed(m) /\ NextIndex(m)' = NextIndex(m) /\ Sent' = Sent
    BY <1>3 DEF Unclaimed, NextIndex, Resumes, ClaimId, Sent, Unsent
  <1>10. Trail(m) = before \o q
    <2>1. Trail(m) = IF device.machine = m THEN Sent \o (Unclaimed(m) \o q) ELSE Unclaimed(m) \o q
      BY <1>2 DEF Shape, Rest
    <2> QED BY <1>5, <2>1, EventParts
  <1>11. Trail(m)' = before \o left
    <2>1. Trail(m)' = IF device.machine = m THEN Sent \o (Unclaimed(m) \o left) ELSE Unclaimed(m) \o left
      BY <1>2, <1>3, <1>9, ShapesNext DEF Shape, Rest
    <2> QED BY <1>5, <1>8, <2>1, EventParts
  <1>12. (before \o q) \o new = before \o all
    <2> HIDE DEF before, q
    <2>1. (before \o q) \o new = before \o (q \o new)
      BY <1>5, <1>7, EventParts
    <2> QED BY <2>1
  <1>13. Accounted(m)'
    <2>1. AllIn(before \o q, log, dropped[m]) /\ before \o q \in Seq(Event)
      BY <1>2, <1>5, <1>7, <1>10, EventConcat DEF Accounted
    <2> HIDE DEF before, q, log
    <2>2. AllIn((before \o q) \o new, log \o report, dropped[m])
      BY <1>4, <1>5, <2>1, ReportIsAccounted
    <2>3. AllIn(before \o all, log \o report, dropped[m])
      BY <1>12, <2>2
    <2>4. log \o report \in Seq(Kinds)
      BY <1>5, ConcatProperties
    <2> HIDE DEF all
    <2>5. AllIn(before \o SubSeq(all, x + 1, Len(all)), log \o report, dropped[m] \union {all[k].place : k \in 1..x})
      BY <1>4, <1>6, <1>7, <2>3, <2>4, DropIsAccounted
    <2> DEFINE u == Trail(m)'
    <2>6. AllIn(u, reported'[m], dropped'[m])
      BY <1>3, <1>11, <2>5
    <2> HIDE DEF u
    <2> QED BY <2>6 DEF u, Accounted, AllIn, Ordered, Places, Items
  <1>14. ClaimInOrder(m)'
    <2>1. /\ Len(log) \in Nat /\ Len(q) \in Nat /\ Len(new) \in Nat /\ DOMAIN q = 1..Len(q)
          /\ Len(log \o report) = Len(log) + Len(report)
      BY <1>5, LenProperties, ConcatProperties
    <2>2. ASSUME device.machine = m
          PROVE  /\ kept.claim.id \in 0..Len(log \o report)
                 /\ \A k \in DOMAIN left : kept.claim.id < left[k].place
      <3>1. kept.claim.id \in 0..Len(log) /\ \A k \in 1..Len(q) : kept.claim.id < q[k].place
        BY <1>2, <2>1, <2>2 DEF ClaimInOrder
      <3>2. \A k \in 1..Len(all) : kept.claim.id < all[k].place
        <4> SUFFICES ASSUME NEW k \in 1..Len(all) PROVE kept.claim.id < all[k].place
          OBVIOUS
        <4>1. k \in 1..Len(q) + Len(new) /\ all[k] = IF k <= Len(q) THEN q[k] ELSE new[k - Len(q)]
          BY <1>5, EventConcat
        <4> HIDE DEF q, log, all
        <4>2. CASE k <= Len(q)
          BY <2>1, <3>1, <4>1, <4>2
        <4>3. CASE ~(k <= Len(q))
          <5>1. k - Len(q) \in 1..Len(new)
            BY <2>1, <4>1, <4>3
          <5>2. all[k].place = Len(log) + (k - Len(q))
            BY <1>4, <4>1, <4>3, <5>1
          <5> QED BY <2>1, <3>1, <5>1, <5>2
        <4> QED BY <4>2, <4>3
      <3>3. \A k \in DOMAIN left : \E j \in 1..Len(all) : left[k] = all[j]
        <4> HIDE DEF all
        <4>1. Len(all) \in Nat /\ x \in Nat /\ x <= Len(all)
          BY <1>4, <1>6, LenProperties
        <4>2. x + 1 \in Int /\ Len(all) \in Int /\ \A i \in x + 1 .. Len(all) : all[i] \in Item
          BY <1>6, <4>1, ElementOfSeq
        <4>3. /\ Len(left) = IF x + 1 <= Len(all) THEN Len(all) - (x + 1) + 1 ELSE 0
              /\ \A k \in 1..Len(all) - (x + 1) + 1 : left[k] = all[(x + 1) + k - 1]
          BY <4>2, SubSeqProperties
        <4>4. DOMAIN left = 1..Len(left)
          BY <1>8, LenProperties
        <4> HIDE DEF left
        <4> SUFFICES ASSUME NEW k \in DOMAIN left PROVE \E j \in 1..Len(all) : left[k] = all[j]
          OBVIOUS
        <4>5. k \in 1..Len(all) - (x + 1) + 1 /\ (x + 1) + k - 1 \in 1..Len(all)
          BY <4>1, <4>3, <4>4
        <4> QED BY <4>3, <4>5
      <3>4. kept.claim.id \in 0..Len(log \o report)
        BY <2>1, <3>1
      <3> QED BY <3>2, <3>3, <3>4
    <2> QED BY <1>2, <1>3, <1>9, <2>2 DEF ClaimInOrder
  <1>15. \A n \in Browsers \ {m} : ClaimInOrder(n)' /\ Accounted(n)'
    <2> SUFFICES ASSUME NEW n \in Browsers \ {m} PROVE ClaimInOrder(n)' /\ Accounted(n)'
      OBVIOUS
    <2>1. Rest(n)' = Rest(n) /\ NextIndex(n)' = NextIndex(n)
      BY <1>3 DEF Rest, Unclaimed, NextIndex, Resumes, ClaimId
    <2>2. Trail(n)' = Trail(n)
      <3>1. Trail(n) = IF device.machine = n THEN Sent \o Rest(n) ELSE Rest(n)
        BY <1>2 DEF Shape
      <3>2. Trail(n)' = IF device.machine = n THEN Sent' \o Rest(n)' ELSE Rest(n)'
        BY <1>2, ShapesNext DEF Shape
      <3> QED BY <1>9, <2>1, <3>1, <3>2
    <2>3. Accounted(n)'
      BY <1>3, <2>2, SameTrail DEF EvidenceInv
    <2> QED BY <1>2, <1>3, <2>1, <2>3 DEF ClaimInOrder, EvidenceInv
  <1> QED BY <1>2, <1>13, <1>14, <1>15

-----------------------------------------------------------------------------
(* The steps of the enrollment *)

EnrollmentStep ==
    \/ UNCHANGED vars
    \/ EnrollmentNext /\ UNCHANGED evidenceVars
    \/ \E m \in Machines : ExitVerifier(m) \/ StartMonitoring(m)

\* A device is bound once, and a verifier that exits forgets what it did not keep.
LEMMA EnrollmentLeaves ==
  ASSUME EvidenceInv, EnrollmentStep
  PROVE  /\ UNCHANGED <<reported, dropped, spool, kept, stored>> /\ memory' \in {memory, Fresh}
         /\ device' = device \/ (device = NoDevice /\ device'.machine \in Machines)
  <1>1. ASSUME NEW r \in requests, Recheck(r) \/ Complete(r) \/ Replay(r)
        PROVE  device' = device \/ (device = NoDevice /\ device'.machine \in Machines)
    <2>1. r.machine \in Machines
      BY DEF EvidenceInv, TypeOK, EnrollmentTypeOK
    <2>2. device' = device \/ (device = NoDevice /\ device' = [machine |-> r.machine, key |-> r.key])
      BY <1>1 DEF Recheck, Complete, Replay
    <2> QED BY <2>1, <2>2
  <1>2. CASE EnrollmentNext /\ UNCHANGED evidenceVars
    <2>1. \/ device' = device
          \/ \E r \in requests : Recheck(r) \/ Complete(r) \/ Replay(r)
      BY <1>2 DEF EnrollmentNext, Consent, Prepare, PrepareFails, LeavePortal, SecretExpires, SessionEnds,
         Launch, AskChallenge, GenerateKeys, Post, SaveIdentity
    <2> QED BY <1>1, <1>2, <2>1 DEF evidenceVars
  <1>3. CASE \E m \in Machines : ExitVerifier(m) \/ StartMonitoring(m)
    BY <1>3 DEF ExitVerifier, Exit, StartMonitoring, evidenceVars
  <1>4. CASE UNCHANGED vars
    BY <1>4 DEF vars, enrollmentVars, evidenceVars
  <1> QED BY <1>2, <1>3, <1>4 DEF EnrollmentStep

LEMMA EnrollmentEvidence ==
  ASSUME EvidenceInv, EnrollmentStep, EnrollmentInv'
  PROVE  /\ TypeOK' /\ SendsNext' /\ NothingSent'
         /\ \A m \in Browsers : ClaimInOrder(m)' /\ Accounted(m)'
  <1>1. /\ UNCHANGED <<reported, dropped, spool, kept, stored>> /\ memory' \in {memory, Fresh}
        /\ device' = device \/ (device = NoDevice /\ device'.machine \in Machines)
    BY EnrollmentLeaves
  <1>2. TypeOK' /\ SendsNext'
    <2>1. memory \in [completing : BOOLEAN, excused : BOOLEAN]
      BY DEF EvidenceInv, TypeOK
    <2>2. Fresh \in [completing : BOOLEAN, excused : BOOLEAN]
      BY DEF Fresh
    <2>3. memory' \in [completing : BOOLEAN, excused : BOOLEAN]
      BY <1>1, <2>1, <2>2
    <2> QED BY <1>1, <2>3 DEF EvidenceInv, TypeOK, SendsNext, EnrollmentInv
  <1>3. "none" \notin Machines /\ Browsers \subseteq Machines
    BY EnrollmentAssumption, BrowserAssumption
  <1>4. NothingSent'
    BY <1>1, <1>3 DEF EvidenceInv, NothingSent, NoDevice
  <1>5. ASSUME NEW m \in Browsers
        PROVE  /\ Sent' = Sent /\ Rest(m)' = Rest(m) /\ NextIndex(m)' = NextIndex(m)
               /\ Shape /\ ClaimInOrder(m) /\ Accounted(m)
    BY <1>1, ShapesNow DEF Sent, Unsent, Rest, Unclaimed, NextIndex, Resumes, ClaimId, EvidenceInv
  <1>6. ASSUME NEW m \in Browsers
        PROVE  /\ Trail(m) = IF device.machine = m THEN Sent \o Rest(m) ELSE Rest(m)
               /\ Trail(m)' = IF device'.machine = m THEN Sent \o Rest(m) ELSE Rest(m)
    <2>1. Trail(m) = IF device.machine = m THEN Sent \o Rest(m) ELSE Rest(m)
      BY <1>5 DEF Shape
    <2>2. Trail(m)' = IF device'.machine = m THEN Sent' \o Rest(m)' ELSE Rest(m)'
      BY <1>2, ShapesNext DEF Shape
    <2> QED BY <1>5, <2>1, <2>2
  <1>7. CASE device' = device
    <2> SUFFICES ASSUME NEW m \in Browsers PROVE ClaimInOrder(m)' /\ Accounted(m)'
      BY <1>2, <1>4
    <2>1. Trail(m)' = Trail(m)
      BY <1>6, <1>7
    <2>2. Accounted(m)'
      BY <1>1, <1>5, <2>1, SameTrail
    <2>3. memory'.completing => memory.completing
      BY <1>1 DEF Fresh
    <2>4. ClaimInOrder(m)'
      BY <1>1, <1>5, <1>7, <2>3 DEF ClaimInOrder
    <2> QED BY <2>2, <2>4
  <1>8. CASE device = NoDevice /\ device'.machine \in Machines
    <2> SUFFICES ASSUME NEW m \in Browsers PROVE ClaimInOrder(m)' /\ Accounted(m)'
      BY <1>2, <1>4
    <2>1. device.machine # m
      BY <1>3, <1>8 DEF NoDevice
    <2>2. spool[m].claim = <<>> /\ kept = NothingKept /\ stored.events = <<>> /\ ~stored.next
      BY <1>5, <1>8, <2>1 DEF ClaimInOrder, EvidenceInv, NothingSent
    <2>3. Sent = <<>>
      <3>1. Unsent = <<>>
        BY <2>2 DEF Unsent, NothingKept
      <3>2. <<>> \o <<>> = <<>>
        BY EmptySeq, ConcatEmptySeq
      <3> QED BY <2>2, <3>1, <3>2 DEF Sent
    <2>4. <<>> \o Rest(m) = Rest(m)
      BY <1>5, ConcatEmptySeq DEF Shape
    <2>5. Trail(m)' = Trail(m)
      BY <1>6, <2>1, <2>3, <2>4
    <2>6. Accounted(m)'
      BY <1>1, <1>5, <2>5, SameTrail
    <2>7. kept.claim.id = 0
      BY <2>2 DEF NothingKept, NoClaim
    <2>8. \A k \in DOMAIN spool[m].queue : 0 < spool[m].queue[k].place
      <3> SUFFICES ASSUME NEW k \in DOMAIN spool[m].queue PROVE 0 < spool[m].queue[k].place
        OBVIOUS
      <3>1. spool[m].queue[k] \in Item
        BY <1>5, LenProperties, ElementOfSeq DEF Shape
      <3> QED BY <3>1, BrowserAssumption DEF Item
    <2>9. 0 \in 0..Len(reported[m])
      <3>1. Len(reported[m]) \in Nat
        BY LenProperties DEF EvidenceInv, TypeOK
      <3> QED BY <3>1
    <2>10. ClaimInOrder(m)'
      BY <1>1, <2>2, <2>7, <2>8, <2>9 DEF ClaimInOrder
    <2> QED BY <2>6, <2>10
  <1> QED BY <1>1, <1>7, <1>8

-----------------------------------------------------------------------------
(* Evidence: the invariant *)

LEMMA EvidenceInitInv == Init => EvidenceInv
  <1> SUFFICES ASSUME Init PROVE EvidenceInv
    OBVIOUS
  <1>1. EnrollmentInv /\ EnrollmentTypeOK
    BY EnrollmentInitInv DEF Init, EnrollmentInv
  <1>2. TypeOK
    <2>1. <<>> \in Seq(Kinds) /\ <<>> \in Seq(Item) /\ <<>> \in Seq(Event)
      BY EmptySeq
    <2>2. 0 \in Nat
      OBVIOUS
    <2> QED BY <1>1, <2>1, <2>2 DEF Init, TypeOK, Fresh, NothingKept, NoClaim
  <1>3. \A m \in Machines : OwnKeys(m) /\ OnDevice(m)
    <2>1. 0 \notin Key /\ "none" \notin Machines
      BY EnrollmentAssumption DEF Key
    <2>2. \A m \in Machines, k \in Key : ~HasKey(m, k)
      BY <2>1 DEF Init, EnrollmentInit, HasKey, NoCredential, Off, NoDevice
    <2> QED BY <2>2 DEF Init, EnrollmentInit, OwnKeys, OnDevice, NoCredential, Off
  <1>4. NothingSent /\ (stored.next => kept.pending # <<>>)
    BY DEF Init, NothingSent
  <1>5. ASSUME NEW m \in Browsers
        PROVE  ClaimInOrder(m) /\ Accounted(m)
    <2>1. /\ spool[m].claim = <<>> /\ spool[m].queue = <<>> /\ reported[m] = <<>> /\ dropped[m] = {}
          /\ stored.events = <<>> /\ Unsent = <<>> /\ kept.claim.id = 0
      BY DEF Init, NothingKept, NoClaim, Unsent
    <2>2. <<>> \o <<>> = <<>>
      BY EmptySeq, ConcatEmptySeq
    <2>3. Trail(m) = <<>>
      BY <2>1, <2>2 DEF Trail, Unclaimed
    <2>4. DOMAIN <<>> = {}
      OBVIOUS
    <2>5. Accounted(m)
      BY <2>1, <2>3, <2>4 DEF Accounted, AllIn, Ordered, Places, Items
    <2>6. 0 \in 0..Len(reported[m])
      BY <2>1, EmptySeq
    <2> QED BY <2>1, <2>4, <2>5, <2>6 DEF ClaimInOrder
  <1> QED BY <1>1, <1>2, <1>3, <1>4, <1>5 DEF EvidenceInv

LEMMA EvidenceStepInv == EvidenceInv /\ [Next]_vars => EvidenceInv'
  <1> SUFFICES ASSUME EvidenceInv, [Next]_vars PROVE EvidenceInv'
    OBVIOUS
  <1>1. EnrollmentInv' /\ \A m \in Machines : OwnKeys(m)' /\ OnDevice(m)'
    BY EnrollmentStepInv, OwnKeysStep, OnDeviceStep DEF EvidenceInv
  <1>2. CASE EnrollmentStep
    BY <1>1, <1>2, EnrollmentEvidence DEF EvidenceInv, SendsNext
  <1>3. ASSUME NEW m \in Browsers, Steps(m)
        PROVE  EvidenceInv'
    <2>1. TypeOK' /\ SendsNext'
      BY <1>3, ReportStep, ClaimTypes, MoveTypes, ExcuseTypes, SendTypes DEF Steps
    <2>2. \A n \in Browsers : ClaimInOrder(n)' /\ Accounted(n)'
      BY <1>3, ReportStep, ClaimStep, MoveStep, AcknowledgeStep, CompleteStep, ExcuseStep, SendStep DEF Steps
    <2>3. device' = device
      BY <1>3, StepsKeep, EnrollmentSame
    <2>4. NothingSent'
      <3>1. CASE Report(m)
        BY <2>3, <3>1 DEF Report, NothingSent, EvidenceInv
      <3>2. CASE ~Report(m)
        <4>1. Monitoring(m)
          BY <1>3, <3>2 DEF Steps, Claim, Move, Acknowledge, CompleteBrowserClaim, ReportUnavailable, Send
        <4>2. device.machine = m /\ m # "none"
          BY <4>1, MonitoredDevice, EnrollmentAssumption, BrowserAssumption
        <4> QED BY <2>3, <4>2 DEF NothingSent, NoDevice
      <3> QED BY <3>1, <3>2
    <2> QED BY <1>1, <2>1, <2>2, <2>4 DEF EvidenceInv, SendsNext
  <1>4. EnrollmentStep \/ \E m \in Browsers : Steps(m)
    BY DEF Next, EnrollmentStep, Steps
  <1> QED BY <1>2, <1>3, <1>4

\* The inductive invariant: until a device is bound nothing is claimed or sent; then
\* only that machine's spool has a claim, it is resumed where the verifier left it,
\* and every item of every spool is in one place (transferBrowserEvidence).
THEOREM EvidenceInvariance == Spec => []EvidenceInv
  <1>1. Init => EvidenceInv
    BY EvidenceInitInv
  <1>2. EvidenceInv /\ [Next]_vars => EvidenceInv'
    BY EvidenceStepInv
  <1> QED BY <1>1, <1>2, PTL DEF Spec

\* Nothing the browser reported is lost, sent twice or out of order, unless a full
\* spool dropped it: whenever the verifier dies between saving an event, sending it
\* and acknowledging the claim, and whatever is spooled meanwhile.
THEOREM EvidenceIsKeptOnce == Spec => []EvidenceOnce
  <1>1. EvidenceInv => EvidenceOnce
    BY DEF EvidenceInv, EvidenceOnce, Accounted, AllIn
  <1> QED BY <1>1, EvidenceInvariance, PTL

-----------------------------------------------------------------------------
(* Both *)

\* Whatever is released and whatever runs on the machines: a behaviour of the whole
\* is one of the enrolled verifier and one of the release, so each keeps its types
\* and its promises (the API and the verifier share no row with the workflow).
THEOREM SoftwareIsSafe ==
  SoftwareSpec => [](SoftwareTypeOK /\ EnrolledKeyIsKept /\ EvidenceOnce /\ PlatformsReleaseTogether)
  <1>1. SoftwareInit => Init /\ ReleaseInit
    BY DEF SoftwareInit
  <1>2. [SoftwareNext]_<<vars, releaseVars>> => [Next]_vars /\ [ReleaseNext]_releaseVars
    BY DEF SoftwareNext
  <1>3. SoftwareSpec => Spec /\ ReleaseSpec
    BY <1>1, <1>2, PTL DEF SoftwareSpec, Spec, ReleaseSpec
  <1>4. EvidenceInv => TypeOK
    BY DEF EvidenceInv
  <1>5. TypeOK /\ ReleaseTypeOK => SoftwareTypeOK
    BY DEF SoftwareTypeOK
  <1> QED BY <1>3, <1>4, <1>5, EvidenceInvariance, ReleaseTypeCorrect, EnrolledKeysAreKept,
             EvidenceIsKeptOnce, PlatformsAreReleasedTogether, PTL
=============================================================================
